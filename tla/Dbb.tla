--------------------------------- MODULE Dbb ---------------------------------
(***************************************************************************)
(* The satellite service (core/src/dbb_*.c): one thread that configures    *)
(* the module with AT commands and, once online, captures what the module  *)
(* reports.  In broadcast mode, the initial one, it then forwards SSR      *)
(* corrections to the GNSS module while that computes in mode dppp, and    *)
(* stores downlink data.  In normal mode it registers with the satellite   *)
(* network, and also sends uplink data and one SMS.  The service shares    *)
(* gnss_ctrl.calcType with the GNSS side (GnssControl), which changes it   *)
(* at any time.                                                            *)
(*                                                                         *)
(* Every round of the thread reads dbb_ctrl.mode, sms_target and sms_text  *)
(* again, but nothing in the program writes them yet: ChangeMode and       *)
(* WantSms stand for what would.                                           *)
(*                                                                         *)
(* A report has two parts, its header with the start of the data and the   *)
(* rest up to the closing quote, because a capture may end between them.   *)
(***************************************************************************)
EXTENDS AtPort, FiniteSets

CONSTANTS MaxReports, \* bound: reports the module sends in a behaviour
          MaxModes,   \* bound: changes of the mode
          MaxSent,    \* bound: messages the module accepts
          MaxSetbacks \* bound: late answers, refusals and failed captures in normal mode,
                      \* and results that a report or an earlier answer ends the capture before

ASSUME DbbAssumption ==
  {MaxReports, MaxModes, MaxSetbacks} \subseteq Nat /\ MaxSent \in Nat \ {0}

\* A command is a name and a value.  must: the texts its response has to contain; when
\* there are none the thread goes on whatever it is.
Cmd(name, value, must) == [ask |-> <<name, value>>, must |-> must]
Ok(name, value) == Cmd(name, value, {"OK"})

\* What a round of dbb_online_func does: the two configurations, the steps of the
\* registration, named for the status they are done in, and the uplink.
Scripts ==
  [broadcast   |-> <<Ok("MISWITCH", 0), Ok("BMCARDSWITCH", 0), Ok("DUMMYUSIM", 1),
                     Cmd("BBICRSTSW", 1, {}), Ok("SSRINFOXW", 1), Ok("CFUN", 1)>>,
   normal      |-> <<Ok("MISWITCH", 1), Ok("BMCARDSWITCH", 1), Cmd("BBICRSTSW", 0, {})>>,
   POWER_ON    |-> <<Ok("CIMI", 0)>>,
   SIM_READY   |-> <<Ok("CFUN", 5)>>,
   CFUN_OK     |-> <<Ok("CREG", 1)>>,
   CREG_OK     |-> <<Ok("CNMI", 2)>>,
   CNMI_OK     |-> <<Ok("DSCI", 1)>>,
   DSCI_OK     |-> <<Ok("CGDCONT", 1)>>,
   CGDCONT_OK  |-> <<Ok("PSDATA", 2)>>,
   WAIT_CREGXW |-> <<Cmd("CREGXW", 0, {"OK", "+CREGXW:1"})>>,
   WAIT_CIREG  |-> <<Cmd("CIREG", 0, {"OK", "+CIREG:1"})>>,
   uplink      |-> <<Ok("ULNETDATA", 0)>>]

\* the status after it
Leads ==
  [broadcast |-> "ONLINE_BROADCAST", normal |-> "INIT", POWER_ON |-> "SIM_READY",
   SIM_READY |-> "CFUN_OK", CFUN_OK |-> "CREG_OK", CREG_OK |-> "CNMI_OK",
   CNMI_OK |-> "DSCI_OK", DSCI_OK |-> "CGDCONT_OK", CGDCONT_OK |-> "WAIT_CREGXW",
   WAIT_CREGXW |-> "WAIT_CREV", WAIT_CIREG |-> "ONLINE"]

Registration == DOMAIN Leads \ {"broadcast", "normal"}

RequiredOf(tasks) ==
  UNION {{Scripts[t][i].ask : i \in {j \in 1 .. Len(Scripts[t]) : Scripts[t][j].must # {}}} :
           t \in tasks}

Ids == 1 .. MaxReports
Part == [kind: {"ssr", "dl"}, id: Ids, part: {"head", "rest"}]

\* What is stored of a downlink: the whole of it, or what a cut one decodes to; and which one
\* has been written over the beginning of downlink_raw since, 0 if none.
NoData == [id |-> 0, whole |-> TRUE, over |-> 0]
Downlink == [id: Ids \cup {0}, whole: BOOLEAN, over: Ids \cup {0}]

VARIABLES mode,       \* dbb_ctrl.mode
          modes,      \* bound: how often it was changed
          setbacks,   \* history and bound: setbacks in normal mode so far
          status,     \* dbb_ctrl.status
          task,       \* what the round does, "none" between rounds and online
          step,       \* position in Scripts[task]
          pc,         \* "start", "call", "wait" (in a capture), "forward", "prompt", "result"
          turn,       \* in dbb_online_service: "capture", "uplink", "sms"
          fd,         \* whether dbb_ctrl.fd is a descriptor
          uplinked,   \* last_uplink_ts is set and the interval has not passed
          sms,        \* sms_target, sms_text and sms_send_once_done: "none", "wanted", "done"
          urcs,       \* the parts of reports on the line, in order
          sending,    \* external: the report half sent, or NoPart
          reports,    \* external: reports begun so far
          accepted,   \* external: the commands the module has accepted in this mode
          entry,      \* external: "command", or the message being entered: "empty", "spoilt"
          sent,       \* external: messages accepted
          active,     \* external: the network connection was activated, and reported
          dppp,       \* gnss_ctrl.calcType = GNSS_CALC_DPPP
          hand,       \* the correction about to be forwarded, 0 for none
          forwarded,  \* history: the corrections the GNSS module got, in order
          stray,      \* history: how many of them since it left dppp
          downlink,   \* dbb_ctrl.downlink_raw, downlink_raw_len and downlink_text
          heard,      \* history: the last downlink captured online, its header at least
          behind,     \* history: a command of this round met an answer to an earlier one
          dropped     \* history: prompts and activations a capture took for something else

threadVars == <<mode, modes, setbacks, status, task, step, pc, turn, fd, uplinked, sms>>
cellVars   == <<accepted, entry, sent, active>>
reportVars == <<urcs, sending, reports>>
onlineVars == <<hand, forwarded, stray, downlink, heard>>
vars == <<atVars, threadVars, cellVars, reportVars, dppp, onlineVars, behind, dropped>>

NoPart == [kind |-> "none", id |-> 0, part |-> "none"]

Init == /\ AtInit
        /\ mode = "BROADCAST" /\ modes = 0 /\ setbacks = 0
        /\ status = "INIT" /\ task = "none" /\ step = 1 /\ pc = "start" /\ turn = "capture"
        /\ fd = FALSE
        /\ uplinked = FALSE /\ sms = "none"
        /\ urcs = <<>> /\ sending = NoPart /\ reports = 0
        /\ accepted = {} /\ entry = "command" /\ sent = 0 /\ active = FALSE
        /\ dppp = FALSE
        /\ hand = 0 /\ forwarded = <<>> /\ stray = 0
        /\ downlink = NoData /\ heard = 0
        /\ behind = FALSE /\ dropped = {}

-----------------------------------------------------------------------------
(* The thread: configuration and registration *)

\* dbb_thread_func: opened once, whether or not that succeeds
OpenDevice ==
  /\ pc = "start"
  /\ pc' = "call"
  /\ fd' \in BOOLEAN
  /\ UNCHANGED <<atVars, mode, modes, setbacks, status, task, step, turn, uplinked, sms, cellVars,
                 reportVars, dppp, onlineVars, behind, dropped>>

\* the switches of dbb_online_func, and the order of dbb_online_service
TaskNow ==
  CASE step > 1                                       -> task
    [] step = 1 /\ turn = "uplink" /\ ~uplinked       -> "uplink"
    [] step = 1 /\ turn = "capture" /\ mode = "BROADCAST" /\ status # "ONLINE_BROADCAST"
                                                      -> "broadcast"
    [] step = 1 /\ turn = "capture" /\ mode = "NORMAL" /\ status = "ONLINE_BROADCAST"
                                                      -> "normal"
    [] step = 1 /\ turn = "capture" /\ mode = "NORMAL" /\ status \in Registration -> status
    [] OTHER                                          -> "none"

\* case DEV_DBB_INIT of the normal mode
PowerOn ==
  /\ pc = "call" /\ step = 1 /\ mode = "NORMAL" /\ status = "INIT"
  /\ status' = "POWER_ON" /\ behind' = FALSE
  /\ UNCHANGED <<atVars, mode, modes, setbacks, task, step, pc, turn, fd, uplinked, sms, cellVars,
                 reportVars, dppp, onlineVars, dropped>>

\* Mutant of StepDone: the status is not set.
StepDone_no_status(t, texts) ==
  LET passed == Scripts[t][step].must \subseteq texts
  IN  /\ pc' = "call"
      /\ step' = IF passed /\ step < Len(Scripts[t]) THEN step + 1 ELSE 1
      /\ task' = IF step' > 1 THEN t ELSE "none"
      /\ turn' = IF t = "uplink" THEN "sms" ELSE turn
      /\ UNCHANGED <<status, uplinked, behind>>

\* one dbb_at_expect is over; a script that fails is begun again in the next round
StepDone(t, texts) ==
  LET passed == Scripts[t][step].must \subseteq texts
      over   == passed /\ step = Len(Scripts[t])
  IN  /\ pc' = "call"
      /\ step' = IF passed /\ ~over THEN step + 1 ELSE 1
      /\ task' = IF step' > 1 THEN t ELSE "none"
      /\ status' = IF over /\ t # "uplink" THEN Leads[t] ELSE status
      /\ uplinked' = (uplinked \/ (over /\ t = "uplink"))
      /\ turn' = IF t = "uplink" THEN "sms" ELSE turn
      /\ UNCHANGED behind

\* an answer to an earlier command may be taken for one to this
Behind(t) == asked # <<>> \/ line # {} \/ (behind /\ (step > 1 \/ t \in Registration))

WriteCommand ==
  /\ pc = "call" /\ fd /\ TaskNow # "none"
  /\ Ask(Scripts[TaskNow][step].ask)
  /\ pc' = "wait" /\ task' = TaskNow
  /\ behind' = IF TaskNow = "uplink" THEN behind ELSE Behind(TaskNow)
  /\ UNCHANGED <<mode, modes, setbacks, status, step, turn, fd, uplinked, sms, cellVars, reportVars, dppp,
                 onlineVars, dropped>>

WriteFails ==
  /\ pc = "call" /\ TaskNow # "none"
  /\ StepDone(TaskNow, {})
  /\ UNCHANGED <<atVars, mode, modes, setbacks, fd, sms, cellVars, reportVars, dppp, onlineVars, dropped>>

\* Mutant of Texts: any response will do.
Texts_any(response) == IF response = {} THEN {} ELSE {"OK", "+CREGXW:1", "+CIREG:1"}

\* what strstr finds in a response
Texts(response) == UNION response

\* what a capture is not looking for is dropped with the rest
Drops(wanted) == dropped' = dropped \cup (({">", "+CREV"} \ wanted) \cap Texts(line))

\* Bound: in normal mode what goes wrong is counted.
Spend(wrong) == IF wrong /\ mode = "NORMAL"
                  THEN setbacks < MaxSetbacks /\ setbacks' = setbacks + 1
                  ELSE UNCHANGED setbacks

Emptied == line' = {} /\ urcs' = <<>> /\ UNCHANGED <<asked, sending, reports>>

CaptureResponse ==
  /\ pc = "wait"
  /\ line # {} \/ urcs # <<>>
  /\ StepDone(task, Texts(line))
  /\ Drops({})
  /\ Emptied
  /\ UNCHANGED <<mode, modes, setbacks, fd, sms, cellVars, dppp, onlineVars>>

CaptureTimeout ==
  /\ pc = "wait"
  /\ line = {} /\ urcs = <<>>
  /\ StepDone(task, {})
  /\ Spend(asked # <<>>)
  /\ UNCHANGED <<atVars, mode, modes, fd, sms, cellVars, reportVars, dppp, onlineVars, dropped>>

\* select or read failed
CaptureError ==
  /\ pc = "wait"
  /\ StepDone(task, {})
  /\ Spend(TRUE)
  /\ UNCHANGED <<atVars, mode, modes, fd, sms, cellVars, reportVars, dppp, onlineVars, dropped>>

\* case DEV_DBB_WAIT_CREV, which asks nothing: dbb_wait_for_text
AwaitActivation ==
  /\ pc = "call" /\ step = 1 /\ mode = "NORMAL" /\ status = "WAIT_CREV"
  /\ line # {} \/ urcs # <<>>
  /\ status' = IF "+CREV" \in Texts(line) THEN "WAIT_CIREG" ELSE status
  /\ Drops({"+CREV"})
  /\ Emptied
  /\ UNCHANGED <<mode, modes, setbacks, task, step, pc, turn, fd, uplinked, sms, cellVars, dppp,
                 onlineVars, behind>>

-----------------------------------------------------------------------------
(* The thread: online *)

Heads(kind, blob) == {i \in 1 .. Len(blob) : blob[i].kind = kind /\ blob[i].part = "head"}
Whole(blob, i) == i < Len(blob) /\ blob[i + 1].part = "rest"

\* Mutant of StoreDownlink: only the first downlink of a response is looked at.
StoreDownlink_first(blob) ==
  LET heads == Heads("dl", blob)
      first == {i \in heads : \A j \in heads : i <= j}
      entire == {i \in heads : Whole(blob, i)}
  IN  /\ heard' = IF entire = {} THEN heard ELSE blob[CHOOSE i \in entire : \A j \in entire : j <= i].id
      /\ downlink' \in {[id |-> blob[i].id, whole |-> Whole(blob, i), over |-> 0] : i \in first}
                         \cup (IF first = {} THEN {downlink} ELSE {})

\* dbb_handle_dlnetdata: the last one stays.  One that is cut is stored too when what
\* there is of it decodes: datalen is not compared with it.  Otherwise it may be found out
\* only when the beginning of downlink_raw is overwritten, and the length and the text stay.
\* Bound: one that is not cut decodes (see DbbCodec).
StoreDownlink(blob) ==
  LET heads  == Heads("dl", blob)
      entire == {i \in heads : Whole(blob, i)}
      last   == CHOOSE i \in entire : \A j \in entire : j <= i
      kept   == IF entire = {} THEN downlink ELSE [id |-> blob[last].id, whole |-> TRUE, over |-> 0]
  IN  /\ heard' = IF entire = {} THEN heard ELSE blob[last].id
      /\ \/ downlink' = kept
         \/ \E i \in heads \ entire :
              \/ downlink' = [id |-> blob[i].id, whole |-> FALSE, over |-> 0]
              \/ downlink' = [kept EXCEPT !.over = blob[i].id]

\* Mutant of TakeSsr: the mode of the GNSS module is not looked at.
TakeSsr_any_mode(blob) ==
  LET heads == Heads("ssr", blob)
      first == CHOOSE i \in heads : \A j \in heads : i <= j
  IN  IF heads # {} /\ Whole(blob, first)
        THEN hand' = blob[first].id /\ pc' = "forward"
        ELSE UNCHANGED <<hand, pc>>

\* dbb_handle_ssrinfoxw: the first correction only, if its closing quote is there
TakeSsr(blob) ==
  LET heads == Heads("ssr", blob)
      first == CHOOSE i \in heads : \A j \in heads : i <= j
  IN  IF heads # {} /\ Whole(blob, first) /\ dppp
        THEN hand' = blob[first].id /\ pc' = "forward"
        ELSE UNCHANGED <<hand, pc>>

Online == \/ mode = "BROADCAST" /\ status = "ONLINE_BROADCAST"
          \/ mode = "NORMAL" /\ status = "ONLINE"

\* dbb_online_broadcast_service, and the capture of dbb_online_service
CaptureReports ==
  /\ Online /\ pc = "call" /\ step = 1 /\ turn = "capture"
  /\ line # {} \/ urcs # <<>>
  /\ StoreDownlink(urcs)
  /\ TakeSsr(urcs)
  /\ turn' = IF mode = "NORMAL" THEN "uplink" ELSE "capture"
  /\ Drops({})
  /\ Emptied
  /\ UNCHANGED <<mode, modes, setbacks, status, task, step, fd, uplinked, sms, cellVars, dppp, forwarded,
                 stray, behind>>

CaptureNothing ==
  /\ mode = "NORMAL" /\ status = "ONLINE" /\ pc = "call" /\ step = 1 /\ turn = "capture"
  /\ line = {} /\ urcs = <<>>
  /\ turn' = "uplink"
  /\ UNCHANGED <<atVars, mode, modes, setbacks, status, task, step, pc, fd, uplinked, sms, cellVars,
                 reportVars, dppp, onlineVars, behind, dropped>>

\* gnss_dev_write (GnssControl): it may fail
Forward ==
  /\ pc = "forward"
  /\ pc' = "call"
  /\ hand' = 0
  /\ \/ /\ forwarded' = Append(forwarded, hand)
        /\ stray' = IF dppp THEN 0 ELSE stray + 1
     \/ UNCHANGED <<forwarded, stray>>
  /\ UNCHANGED <<atVars, mode, modes, setbacks, status, task, step, turn, fd, uplinked, sms, cellVars,
                 reportVars, dppp, downlink, heard, behind, dropped>>

\* the interval since last_uplink_ts has not passed
UplinkNotDue ==
  /\ pc = "call" /\ turn = "uplink" /\ uplinked
  /\ turn' = "sms"
  /\ UNCHANGED <<atVars, mode, modes, setbacks, status, task, step, pc, fd, uplinked, sms, cellVars,
                 reportVars, dppp, onlineVars, behind, dropped>>

-----------------------------------------------------------------------------
(* The thread: dbb_send_sms *)

NoSms ==
  /\ pc = "call" /\ turn = "sms" /\ sms # "wanted"
  /\ turn' = "capture"
  /\ UNCHANGED <<atVars, mode, modes, setbacks, status, task, step, pc, fd, uplinked, sms, cellVars,
                 reportVars, dppp, onlineVars, behind, dropped>>

\* AT+CMGS=cmgs_len
AskPrompt ==
  /\ pc = "call" /\ turn = "sms" /\ sms = "wanted" /\ fd
  /\ Ask(<<"CMGS", 0>>)
  /\ pc' = "prompt"
  /\ UNCHANGED <<mode, modes, setbacks, status, task, step, turn, fd, uplinked, sms, cellVars, reportVars,
                 dppp, onlineVars, behind, dropped>>

SmsVars == <<mode, modes, status, task, step, fd, uplinked, cellVars, dppp, onlineVars, behind>>

\* strchr(response, '>'): the PDU and its end character are written
CapturePrompt ==
  /\ pc = "prompt"
  /\ line # {} \/ urcs # <<>>
  /\ line' = {} /\ urcs' = <<>>
  /\ IF ">" \in Texts(line)
       THEN Len(asked) < MaxLate /\ asked' = Append(asked, <<"PDU", 0>>) /\ pc' = "result" /\ UNCHANGED turn
       ELSE pc' = "call" /\ turn' = "capture" /\ UNCHANGED asked
  /\ Drops({">"})
  /\ UNCHANGED <<SmsVars, setbacks, sms, sending, reports>>

\* Mutant of CaptureResult: the message is not marked as sent.
CaptureResult_unmarked ==
  /\ pc = "result"
  /\ line # {} \/ urcs # <<>>
  /\ Spend(asked # <<>>)
  /\ pc' = "call" /\ turn' = "capture"
  /\ Drops({})
  /\ Emptied
  /\ UNCHANGED <<SmsVars, sms>>

\* a report may end the capture before the result is there
CaptureResult ==
  /\ pc = "result"
  /\ line # {} \/ urcs # <<>>
  /\ sms' = IF {"OK", "+CMGS:"} \subseteq Texts(line) THEN "done" ELSE sms
  /\ Spend(asked # <<>> /\ sms' # "done")
  /\ pc' = "call" /\ turn' = "capture"
  /\ Drops({})
  /\ Emptied
  /\ UNCHANGED SmsVars

GiveUpSms == pc' = "call" /\ turn' = "capture" /\ UNCHANGED <<SmsVars, atVars, sms, reportVars, dropped>>

SmsTimeout ==
  /\ pc \in {"prompt", "result"}
  /\ line = {} /\ urcs = <<>>
  /\ Spend(asked # <<>>)
  /\ GiveUpSms

\* a write, select or read failed
SmsError ==
  /\ pc \in {"prompt", "result"} \/ (pc = "call" /\ turn = "sms" /\ sms = "wanted")
  /\ Spend(TRUE)
  /\ GiveUpSms

-----------------------------------------------------------------------------
(* The module, the GNSS side, the time, and what is not there yet *)

Registered == [CREGXW |-> "+CREGXW:1", CIREG |-> "+CIREG:1"]

\* external: a module that has prompted for a message takes every byte for it up to the
\* end character of a PDU
Comply ==
  /\ asked # <<>>
  /\ LET cmd == Head(asked)
     IN  IF entry = "command"
           THEN /\ IF cmd[1] = "CMGS" THEN Reply({">"}) /\ entry' = "empty"
                   ELSE /\ Reply({"OK"} \cup {Registered[n] : n \in {cmd[1]} \cap DOMAIN Registered})
                        /\ UNCHANGED entry
                /\ accepted' = {a \in accepted : a[1] # cmd[1]} \cup ({cmd} \ {<<"CMGS", 0>>})
                /\ UNCHANGED sent
           ELSE /\ IF cmd[1] = "PDU"
                     THEN /\ Reply(IF entry = "empty" THEN {"OK", "+CMGS:"} ELSE {"ERROR"})
                          /\ entry' = "command"
                          /\ sent' = IF entry = "empty" /\ sent < MaxSent THEN sent + 1 ELSE sent
                     ELSE asked' = Tail(asked) /\ entry' = "spoilt" /\ UNCHANGED <<line, sent>>
                /\ UNCHANGED accepted
  /\ UNCHANGED <<threadVars, active, reportVars, dppp, onlineVars, behind, dropped>>

\* a command, or the message, is not accepted
Refuse ==
  /\ asked # <<>> /\ (entry = "command" \/ Head(asked)[1] = "PDU")
  /\ Spend(TRUE)
  /\ Reply({"ERROR"})
  /\ accepted' = accepted \ {Head(asked)}
  /\ entry' = "command"
  /\ UNCHANGED <<mode, modes, status, task, step, pc, turn, fd, uplinked, sms, sent, active,
                 reportVars, dppp, onlineVars, behind, dropped>>

\* +CREV: ME PDN ACT 1, reported once
Activate ==
  /\ <<"PSDATA", 2>> \in accepted /\ ~active
  /\ active' = TRUE
  /\ line' = line \cup {{"+CREV"}}
  /\ UNCHANGED <<asked, threadVars, accepted, entry, sent, reportVars, dppp, onlineVars, behind,
                 dropped>>

\* Corrections are reported once SSRINFOXW=1 is accepted, downlinks at any time.  Bound: in
\* normal mode one downlink is.
ReportHead(kind) ==
  /\ sending = NoPart /\ reports < MaxReports
  /\ kind = "ssr" => <<"SSRINFOXW", 1>> \in accepted
  /\ modes > 0 => kind = "dl" /\ reports = 0
  /\ reports' = reports + 1
  /\ sending' = [kind |-> kind, id |-> reports + 1, part |-> "rest"]
  /\ urcs' = Append(urcs, [kind |-> kind, id |-> reports + 1, part |-> "head"])
  /\ UNCHANGED <<atVars, threadVars, cellVars, dppp, onlineVars, behind, dropped>>

ReportRest ==
  /\ sending # NoPart
  /\ urcs' = Append(urcs, sending)
  /\ sending' = NoPart
  /\ UNCHANGED <<atVars, threadVars, cellVars, reports, dppp, onlineVars, behind, dropped>>

\* any of the commands of GnssControl that change the mode.  Bound: it changes while it
\* matters here, and not in a behaviour that has the mode of the service changed.
ModeChange ==
  /\ status = "ONLINE_BROADCAST" /\ modes = 0
  /\ dppp' = ~dppp
  /\ stray' = 0
  /\ UNCHANGED <<atVars, threadVars, cellVars, reportVars, hand, forwarded, downlink, heard,
                 behind, dropped>>

IntervalPasses ==
  /\ uplinked /\ uplinked' = FALSE
  /\ UNCHANGED <<atVars, mode, modes, setbacks, status, task, step, pc, turn, fd, sms, cellVars,
                 reportVars, dppp, onlineVars, behind, dropped>>

\* The mode is read between rounds only.  Bound: a behaviour has it changed, or that of the
\* GNSS module; and no late answer is left when it is.
ChangeMode ==
  /\ UNCHANGED setbacks
  /\ modes < MaxModes /\ modes' = modes + 1
  /\ pc = "call" /\ step = 1 /\ turn = "capture"
  /\ reports = 0 /\ ~dppp /\ asked = <<>> /\ line = {}
  /\ mode' = IF mode = "NORMAL" THEN "BROADCAST" ELSE "NORMAL"
  /\ accepted' = {}
  /\ UNCHANGED <<atVars, status, task, step, pc, turn, fd, uplinked, sms, entry, sent, active,
                 reportVars, dppp, onlineVars, behind, dropped>>

\* sms_target and sms_text are read online only
WantSms ==
  /\ sms = "none" /\ sms' = "wanted"
  /\ status = "ONLINE"
  /\ UNCHANGED <<atVars, mode, modes, setbacks, status, task, step, pc, turn, fd, uplinked, cellVars,
                 reportVars, dppp, onlineVars, behind, dropped>>

-----------------------------------------------------------------------------
Thread == \/ OpenDevice \/ PowerOn \/ WriteCommand \/ CaptureResponse \/ CaptureTimeout
          \/ AwaitActivation \/ CaptureReports \/ CaptureNothing \/ Forward \/ UplinkNotDue
          \/ NoSms \/ AskPrompt \/ CapturePrompt \/ CaptureResult \/ SmsTimeout

Module == Comply \/ Activate \/ ReportRest \/ \E kind \in {"ssr", "dl"} : ReportHead(kind)

Setback == WriteFails \/ CaptureError \/ SmsError \/ Refuse

Next == Thread \/ Module \/ Setback \/ ModeChange \/ IntervalPasses \/ ChangeMode \/ WantSms

Spec == Init /\ [][Next]_vars

\* A free-running thread in a loop, and a module that answers what it is asked.
FairSpec == Spec /\ WF_vars(Thread) /\ WF_vars(Comply) /\ WF_vars(Activate)

-----------------------------------------------------------------------------
(* Properties *)

\* The service goes online only on a module that has accepted all of the configuration,
\* or of the registration, unless an answer came late enough to be taken for the next
\* command's (dbb_thread.c:159-179, 308-400, dbb_at_response.c:110-136).
OnlineConfigured ==
  /\ mode = "BROADCAST" /\ status = "ONLINE_BROADCAST" => RequiredOf({"broadcast"}) \subseteq accepted \/ behind
  /\ mode = "NORMAL" /\ status = "ONLINE" => RequiredOf(Registration) \subseteq accepted \/ behind

\* Corrections reach the GNSS module in the order they were received, each at most once,
\* however the captures cut the stream; one may still go out after that has left mode
\* dppp, as the mode is tested before the write and outside fd_mutex, but only one
\* (dbb_handle.c:859-918).
ForwardedInOrder ==
  /\ \A i, j \in 1 .. Len(forwarded) : i < j => forwarded[i] < forwarded[j]
  /\ stray <= 1

\* The length and the text that are stored are those of the last downlink that was captured
\* whole, or of a cut one that came after it: an older one never replaces a newer one.  The
\* bytes are the same one's, or begin with those of one that was cut still later: a whole
\* one leaves nothing of those before it (dbb_handle.c:160-188, 801-857).
DownlinkIsLatest ==
  /\ downlink.id = heard \/ (~downlink.whole /\ downlink.id > heard)
  /\ downlink.over # 0 => downlink.over > downlink.id

\* A message counts as sent only when the module has accepted it, and it is accepted again
\* only after an answer was late, lost or an error, or something else ended the capture of
\* the result, as a report does that comes before it: sms_send_once_done is set on the
\* result alone, so that a message whose result is missed goes out once more
\* (dbb_at_response.c:71-81, dbb_handle.c:612-665, dbb_thread.c:195-225).
SmsOnce == (sms = "done" => sent > 0) /\ sent <= 1 + setbacks

\* A module that from some time on accepts everything, and answers before a capture ends,
\* is brought into the service of its mode, and the message is sent, if the port could be
\* opened.  In normal mode there are three ways to be stuck for good: an activation, or a
\* prompt, that came while something else was captured, and a late OK taken for PSDATA's
\* (dbb_thread.c:308-440, dbb_handle.c:629-645).
Prompt == (pc \in {"wait", "prompt", "result"} /\ pc' # pc) => asked = <<>>

InService == IF mode = "BROADCAST" THEN status = "ONLINE_BROADCAST"
             ELSE (status = "ONLINE" /\ sms # "wanted") \/ behind \/ dropped # {}

Configured == (<>fd /\ <>[][Prompt /\ ~Setback]_vars) => []<>InService
==============================================================================
