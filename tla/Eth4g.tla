-------------------------------- MODULE Eth4g --------------------------------
(***************************************************************************)
(* The 4G service (core/src/eth_4g.c): one thread that takes the modem     *)
(* from power-on to online, one status at a time, and then watches it; a   *)
(* modem found unfit is put to standby and the bring-up starts again.      *)
(* src_thread.c does not start this thread at present.                     *)
(*                                                                         *)
(* One call of eth_4g_online_func runs the script of the current status: a *)
(* list of AT commands, each with what its response must contain.  One     *)
(* action is one write or one captured response.                           *)
(*                                                                         *)
(* "enabled" is set before the first call and cleared nowhere, so the      *)
(* statuses POWER_OFF and, after the start, IDLE are never reached; nor is *)
(* IP_OK, and eth_4g_hard_recover and eth_4g_test_internet have no caller. *)
(*                                                                         *)
(* What has a namesake in Dbb is named with Eth here, so that a module may *)
(* extend both.                                                            *)
(***************************************************************************)
EXTENDS AtPort

\* Status -> its commands and the texts the response to each must contain.
\* RECOVER is eth_4g_soft_recover, run by ONLINE when its own script fails.
Script ==
  [POWER_ON   |-> <<[ask |-> "AT", want |-> {"OK"}], [ask |-> "ATE0", want |-> {"OK"}]>>,
   AT_READY   |-> <<[ask |-> "CPIN?", want |-> {"CPIN: READY"}]>>,
   SIM_READY  |-> <<[ask |-> "CSQ", want |-> {"OK"}]>>,
   SIGNAL_OK  |-> <<[ask |-> "CFUN=1", want |-> {"OK"}],
                    [ask |-> "CFUN?", want |-> {"OK", "CFUN: 1"}]>>,
   CFUN_OK    |-> <<[ask |-> "CEREG?", want |-> {"CEREG: 1"}]>>,
   REGISTERED |-> <<[ask |-> "CGDCONT", want |-> {"OK"}]>>,
   APN_OK     |-> <<[ask |-> "CGATT=1", want |-> {"OK"}],
                    [ask |-> "CGATT?", want |-> {"CGATT: 1"}]>>,
   ONLINE     |-> <<[ask |-> "CPIN?", want |-> {"CPIN: READY"}],
                    [ask |-> "CEREG?", want |-> {"CEREG: 1"}],
                    [ask |-> "CGATT?", want |-> {"CGATT: 1"}]>>,
   RECOVER    |-> <<[ask |-> "CFUN=0", want |-> {"OK"}]>>]

\* The order of the bring-up.
Order == <<"INIT", "POWER_ON", "AT_READY", "SIM_READY", "SIGNAL_OK", "CFUN_OK", "REGISTERED",
           "APN_OK", "ATTACHED", "IFACE_UP", "LINK_UP", "DHCP_OK", "ONLINE">>

Rank(s) == CHOOSE i \in 1 .. Len(Order) : Order[i] = s
After(s) == Order[Rank(s) + 1]

\* Statuses whose step is a shell command about the network interface.
SystemSteps == {"ATTACHED", "IFACE_UP", "LINK_UP", "DHCP_OK"}

\* The queries, and the text by which the modem says yes.
Yes == [CPIN |-> "CPIN: READY", CFUN |-> "CFUN: 1", CEREG |-> "CEREG: 1", CGATT |-> "CGATT: 1"]
YesTo(cmd) == CASE cmd = "CPIN?" -> {Yes.CPIN} [] cmd = "CFUN?" -> {Yes.CFUN}
                [] cmd = "CEREG?" -> {Yes.CEREG} [] cmd = "CGATT?" -> {Yes.CGATT}
                [] OTHER -> {}

VARIABLES ethStatus,     \* eth_4g_ctrl.status
          run, ethStep,  \* the script being run, and the position in it
          ethPc,         \* "call": between steps; "wait": in a capture
          ethFd,         \* whether eth_4g_ctrl.fd is a descriptor
          radio,         \* external: the radio works: CFUN=1, and the modem has not dropped out
          said,          \* history: what the modem has said yes to since its last CFUN=0
          recovering     \* history: CFUN=0 was written, and CFUN_OK not reached since

ethVars == <<atVars, ethStatus, run, ethStep, ethPc, ethFd, radio, said, recovering>>

EthInit == /\ AtInit
           /\ ethStatus = "INIT"    \* the first call turns IDLE into INIT
           /\ run = "INIT"
           /\ ethStep = 1
           /\ ethPc = "call"
           /\ ethFd = FALSE
           /\ radio \in BOOLEAN
           /\ said = {}
           /\ recovering = FALSE

-----------------------------------------------------------------------------
(* The thread *)

Enter(s) == ethStatus' = s /\ run' = s /\ ethStep' = 1 /\ ethPc' = "call"

EthPowerOn ==
  /\ ethStatus = "INIT"
  /\ Enter("POWER_ON")
  /\ ethFd' = FALSE               \* eth_4g_close_device
  /\ UNCHANGED <<atVars, radio, said, recovering>>

\* a level that cannot be set: tried again at the next call
PowerOnFails == ethStatus = "INIT" /\ UNCHANGED ethVars

\* The last command of a script leads to the next status.
EthStepDone ==
  IF ethStep < Len(Script[run])
    THEN ethStep' = ethStep + 1 /\ ethPc' = "call" /\ UNCHANGED <<ethStatus, run>>
    ELSE Enter(CASE run = "RECOVER" -> "AT_READY" [] run = "ONLINE" -> "ONLINE"
                 [] OTHER -> After(run))

\* Mutant of StepFailed: a modem found unfit is only watched on.
StepFailed_no_recovery ==
  /\ run' = ethStatus
  /\ ethStep' = 1
  /\ ethPc' = "call"
  /\ UNCHANGED ethStatus

\* A failed step leaves the status as it is; ONLINE then tries to recover.
StepFailed ==
  /\ run' = IF run = "ONLINE" THEN "RECOVER" ELSE ethStatus
  /\ ethStep' = 1
  /\ ethPc' = "call"
  /\ UNCHANGED ethStatus

Sends == run \in DOMAIN Script

\* open the port if need be, and write the command
EthWriteCommand ==
  /\ ethPc = "call" /\ Sends
  /\ Ask(Script[run][ethStep].ask)
  /\ ethFd' = TRUE
  /\ ethPc' = "wait"
  /\ recovering' = (recovering \/ run = "RECOVER")
  /\ UNCHANGED <<ethStatus, run, ethStep, radio, said>>

\* the port does not open, or the write fails
EthWriteFails ==
  /\ ethPc = "call" /\ Sends
  /\ StepFailed
  /\ ethFd' \in {ethFd, TRUE}
  /\ UNCHANGED <<atVars, radio, said, recovering>>

\* Mutant of Accepts: only the OK is looked for.
Accepts_only_ok(response) == Says(response, "OK")

Accepts(response) == \A text \in Script[run][ethStep].want : Says(response, text)

Capture ==
  /\ ethPc = "wait"
  /\ Hear
  /\ IF Accepts(line) THEN EthStepDone ELSE StepFailed
  /\ recovering' = (recovering /\ ethStatus' # "CFUN_OK")
  /\ UNCHANGED <<ethFd, radio, said>>

\* nothing arrived within two seconds
EthCaptureTimeout ==
  /\ ethPc = "wait"
  /\ line = {}
  /\ StepFailed
  /\ UNCHANGED <<atVars, ethFd, radio, said, recovering>>

\* select or read failed
EthCaptureError ==
  /\ ethPc = "wait"
  /\ StepFailed
  /\ UNCHANGED <<atVars, ethFd, radio, said, recovering>>

SystemStep ==
  /\ ethStatus \in SystemSteps
  /\ Enter(After(ethStatus))
  /\ UNCHANGED <<atVars, ethFd, radio, said, recovering>>

SystemStepFails == ethStatus \in SystemSteps /\ UNCHANGED ethVars

-----------------------------------------------------------------------------
(* The modem *)

\* The texts a yes takes a working radio for.
NeedsRadio == {Yes.CFUN, Yes.CEREG, Yes.CGATT}

\* what a command does, and what the modem has said since
Execute(cmd, says) ==
  /\ radio' = CASE cmd = "CFUN=1" /\ "OK" \in says -> TRUE
                [] cmd = "CFUN=0" /\ "OK" \in says -> FALSE
                [] OTHER -> radio
  /\ said' = IF cmd = "CFUN=0" /\ "OK" \in says THEN {} ELSE said \cup (says \ {"OK", "ERROR"})

\* the answer of a modem in order
Right(cmd) == {"OK"} \cup (YesTo(cmd) \ (IF radio THEN {} ELSE NeedsRadio))

Answer(says) ==
  /\ asked # <<>>
  /\ Reply(says)
  /\ Execute(Head(asked), says)
  /\ UNCHANGED <<ethStatus, run, ethStep, ethPc, ethFd, recovering>>

EthComply == asked # <<>> /\ Answer(Right(Head(asked)))

\* an error, or a query answered with anything else than the yes that is due
EthRefuse == asked # <<>> /\ \E says \in {{"OK"}, {"ERROR"}} \ {Right(Head(asked))} : Answer(says)

\* The modem leaves the network, in the bring-up or online, until CFUN=1 starts its radio
\* again.
DropOut ==
  /\ radio
  /\ radio' = FALSE
  /\ UNCHANGED <<atVars, ethStatus, run, ethStep, ethPc, ethFd, said, recovering>>

-----------------------------------------------------------------------------
EthThread == \/ EthPowerOn \/ EthWriteCommand \/ Capture \/ EthCaptureTimeout \/ SystemStep

EthSetback == \/ PowerOnFails \/ EthWriteFails \/ EthCaptureError \/ SystemStepFails
              \/ EthRefuse \/ DropOut

EthNext == EthThread \/ EthComply \/ EthSetback

EthSpec == EthInit /\ [][EthNext]_ethVars

\* A free-running thread in a loop, and a modem that answers what it is asked.
EthFairSpec == EthSpec /\ WF_ethVars(EthThread) /\ WF_ethVars(EthComply)

-----------------------------------------------------------------------------
(* Properties *)

\* However late the modem answers, a status is reached only on a yes the modem gave in
\* this bring-up, after the last standby it obeyed: an answer left over from before is
\* never taken for it (eth_4g.c:286-303, 329-372, 699-727).  The SIM is not among them:
\* an old answer about it does pass.  That the modem has not dropped out since it said so,
\* the code does not know.
Confirmed ==
  ~recovering =>
    /\ Rank(ethStatus) >= Rank("CFUN_OK") => Yes.CFUN \in said
    /\ Rank(ethStatus) >= Rank("REGISTERED") => Yes.CEREG \in said
    /\ Rank(ethStatus) >= Rank("ATTACHED") => Yes.CGATT \in said

\* A modem that answers before a capture ends.
EthPrompt == (ethPc = "wait" /\ ethPc' = "call") => asked = <<>>

\* CFUN=1 is written before CFUN_OK only: a modem that drops out after that is asked the
\* query of CFUN_OK (eth_4g.c:706-712), or CGATT? in APN_OK (722-727), for ever.
Stranded == ethStatus \in {"CFUN_OK", "APN_OK"} /\ ~radio

\* Once nothing more goes wrong, the service gets the modem online and keeps it there, or
\* is stranded for good: there is no third end, wherever in the bring-up, the watching or
\* the recovery things went wrong before (eth_4g.c:616-630, 647-785).
BringUp ==
  <>[][EthPrompt /\ ~EthSetback]_ethVars => \/ <>[](ethStatus = "ONLINE" /\ radio)
                                            \/ <>[]Stranded
==============================================================================
