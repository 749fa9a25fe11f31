----------------------------- MODULE GnssControl -----------------------------
(***************************************************************************)
(* What the program believes the GNSS module puts out, and what it does.   *)
(* Three threads configure the module: the gnss thread at startup, the     *)
(* console (cli) on a command, and the rx thread on a network request,     *)
(* which also rewrites the upload switches eph_sw.  Each gnss_cfg_*        *)
(* function writes a command to the module under fd_mutex and, outside any *)
(* lock, records in gnss_ctrl what it asked for.                           *)
(*                                                                         *)
(* gnss_ctrl.data_cfg.*.output, eph_sw and the module's open messages are  *)
(* sets of names.  The module is external: it obeys the commands it is     *)
(* sent, and MODE and FRESET restart it with every output closed           *)
(* (gnss_thread.c:363).                                                    *)
(***************************************************************************)
EXTENDS Naturals, Sequences

CONSTANTS Rx, Cli, Gnss,
          Requests,  \* requests the network may send: see RequestType
          Commands,  \* gnss commands the console may be given: see CommandType
          Unset      \* no request, no command; the mode of an unconfigured module

Threads == {Rx, Cli, Gnss}

Switches == {"bdxw", "bd2", "bd3", "gps", "gal", "glo", "bd3cnav2", "bd3cnav3"}

\* The names CfgdataType_from_name knows (strcasecmp: case does not matter).
FlagNames == {"gbs", "gga", "gll", "gsa", "gst", "gsv", "rmc", "vtg", "zda",
              "bdxwephb", "gpsephb", "bd2ephb", "bd3ephb",
              "bd3cnav2ephb", "bd3cnav3ephb", "gloephb", "galephb"}

\* The message of a switch, as the console and the flags name it.
MessageOf == [bdxw |-> "bdxwephb", bd2 |-> "bd2ephb", bd3 |-> "bd3ephb", gps |-> "gpsephb",
              gal |-> "galephb", glo |-> "gloephb",
              bd3cnav2 |-> "bd3cnav2ephb", bd3cnav3 |-> "bd3cnav3ephb"]

\* Mutant of EphUpdates: the messages of gal and glo are swapped.
EphUpdates_swapped ==
  <<<<"bdxw", "bdxwephb">>, <<"bd2", "bd2ephb">>, <<"bd3", "bd3ephb">>, <<"gps", "gpsephb">>,
    <<"gal", "gloephb">>, <<"glo", "galephb">>, <<"bd3cnav2", "bd3canv2ephb">>,
    <<"bd3cnav3", "bd3cnav3ephb">>>>

\* update_eph_sw: the switches in the order they are applied, with the name each one is
\* sent under; the seventh is spelt differently from its flag.
EphUpdates ==
  <<<<"bdxw", "bdxwephb">>, <<"bd2", "bd2ephb">>, <<"bd3", "bd3ephb">>, <<"gps", "gpsephb">>,
    <<"gal", "galephb">>, <<"glo", "gloephb">>, <<"bd3cnav2", "bd3canv2ephb">>,
    <<"bd3cnav3", "bd3cnav3ephb">>>>

\* Every message a command may name; the last three have no flag.
Names == FlagNames \cup {"bd3canv2ephb", "prangeb", "posdatab"}

Freqs == 0 .. 255

Calcs == {"rtd", "rtk", "ppp", "dppp", "fppp", "bds_ppp", "bds_rtk", "bds_rtd"}

\* The type a MODE command carries for a calcType: bds_* is that mode with only bds on.
ModeOf(calc) == CASE calc = "bds_ppp" -> "ppp" [] calc = "bds_rtk" -> "rtk"
                  [] calc = "bds_rtd" -> "rtd" [] OTHER -> calc

\* query: also a SET of the wrong length, which is only answered.
RequestType == [kind: {"set_sw"}, value: SUBSET Switches]
                 \cup [kind: {"set_freq"}, value: Freqs]
                 \cup [kind: {"query"}]

\* data: gnss_cfg_data; onchange; closeall: gnss_cfg_disable_out; reset: gnss_reset;
\* mode: gnss_cfg_calcType_ex; calc: gnss_cfg_calcType; netup: gnss_net_up_cfg.
CommandType == [op: {"data"}, name: Names, on: BOOLEAN, rate: Freqs]
                 \cup [op: {"onchange"}, name: FlagNames]
                 \cup [op: {"closeall", "reset"}]
                 \cup [op: {"mode", "calc"}, calc: Calcs]
                 \cup [op: {"netup"}, sw: Switches, on: BOOLEAN]

ASSUME GnssAssumption ==
  /\ Rx # Cli /\ Rx # Gnss /\ Cli # Gnss
  /\ \A r \in Requests : \/ r.kind = "set_sw" /\ r.value \subseteq Switches
                         \/ r.kind = "set_freq" /\ r.value \in Freqs
                         \/ r.kind = "query"
  /\ Commands \subseteq CommandType

VARIABLES pc,           \* where each thread is
          cmd,          \* the command a thread is giving, or Unset
          fd,           \* gnss_ctrl.fd: "none" (-1), "open", or "closed" but not reset
          eph_sw,       \* glob_comm_config.eph_sw: the switches that are on
          output_freq,  \* glob_comm_config.output_freq
          output,       \* gnss_ctrl.data_cfg: names whose .output is 1
          calcType,     \* gnss_ctrl.calcType
          dev,          \* external: the messages the module has open
          dev_mode,     \* external: the mode the module is in
          req, step,    \* rx: the request, and the position in EphUpdates
          copy,         \* cli: the byte of eph_sw it loaded to change one bit
          quiet,        \* history: since the request came nobody else touched the module
          crossed,      \* history: another command reached the module before t recorded its own
          drifted       \* history: names, and "mode", whose record may be wrong

vars == <<pc, cmd, fd, eph_sw, output_freq, output, calcType, dev, dev_mode,
          req, step, copy, quiet, crossed, drifted>>

Init == /\ pc = [t \in Threads |->
                   CASE t = Rx -> "recv" [] t = Cli -> "idle" [] OTHER -> "open"]
        /\ cmd = [t \in Threads |-> Unset]
        /\ fd = "none"
        /\ eph_sw = {}
        /\ output_freq = 1
        /\ output = {}
        /\ calcType = "fppp"                     \* zero-initialised
        /\ dev = {}
        /\ dev_mode = Unset
        /\ req = Unset
        /\ step = 1
        /\ copy = {}
        /\ quiet = FALSE
        /\ crossed = [t \in Threads |-> FALSE]
        /\ drifted = {"mode"}

-----------------------------------------------------------------------------
(* A command to the module: write it under fd_mutex, then record it *)

IsMode(c) == c.op \in {"mode", "calc"}

\* What the command changes in the module, and what of it the program records.
Touches(c) == CASE c.op \in {"data", "onchange"} -> {c.name}
                [] IsMode(c) -> Names \cup {"mode"}
                [] OTHER -> Names

Records(c) == CASE c.op \in {"data", "onchange"} -> {c.name}
                [] IsMode(c) -> {"mode"}
                [] OTHER -> {}

Obeyed(c, d) == CASE c.op = "data" -> (IF c.on THEN d \cup {c.name} ELSE d \ {c.name})
                  [] c.op = "onchange" -> d \cup {c.name}
                  [] OTHER -> {}

\* Other threads about to record something in S.
Recorders(t, S) == {u \in Threads \ {t} : pc[u] = "record" /\ Records(cmd[u]) \cap S # {}}

\* The program counter after a thread has finished its command.
Done(t) ==
  /\ cmd' = [cmd EXCEPT ![t] = Unset]
  /\ CASE t = Rx -> /\ step' = step + 1
                    /\ pc' = [pc EXCEPT ![Rx] =
                                IF step = Len(EphUpdates) THEN "answer" ELSE "test"]
       [] t = Cli -> pc' = [pc EXCEPT ![Cli] = "idle"] /\ UNCHANGED step
       [] t = Gnss -> /\ pc' = [pc EXCEPT ![Gnss] = IF cmd[t].op = "mode" THEN "rmc" ELSE "read"]
                      /\ UNCHANGED step

WriteOk(t) ==
  /\ pc[t] = "write"
  /\ fd = "open"
  /\ dev' = Obeyed(cmd[t], dev)
  /\ dev_mode' = IF IsMode(cmd[t]) THEN ModeOf(cmd[t].calc) ELSE dev_mode
  /\ pc' = [pc EXCEPT ![t] = "record"]
  /\ crossed' = [u \in Threads |->
                   IF u = t THEN Recorders(t, Records(cmd[t])) # {}
                     ELSE crossed[u] \/ u \in Recorders(t, Touches(cmd[t]))]
  /\ drifted' = drifted \cup ((Touches(cmd[t]) \ Records(cmd[t])) \cap output)
  /\ UNCHANGED <<cmd, fd, eph_sw, output_freq, output, calcType, req, step, copy, quiet>>

\* A closed descriptor may be another file by now: the write succeeds there.
WriteAstray(t) ==
  /\ pc[t] = "write"
  /\ fd = "closed"
  /\ pc' = [pc EXCEPT ![t] = "record"]
  /\ UNCHANGED <<cmd, fd, eph_sw, output_freq, output, calcType, dev, dev_mode, req, step,
                 copy, quiet, crossed, drifted>>

\* No descriptor, or write returned -1 (the port does not block).  Only
\* gnss_cfg_calcType does not look at the result.
WriteFail(t) ==
  /\ pc[t] = "write"
  /\ IF cmd[t].op = "calc"
       THEN /\ pc' = [pc EXCEPT ![t] = "record"]
            /\ crossed' = [crossed EXCEPT ![t] = TRUE]
            /\ UNCHANGED <<cmd, step>>
       ELSE /\ Done(t)
            /\ UNCHANGED crossed
  /\ quiet' = (quiet /\ t # Rx)
  /\ UNCHANGED <<fd, eph_sw, output_freq, output, calcType, dev, dev_mode, req, copy, drifted>>

\* Mutant of CfgdataType: a message once recorded stays so.
CfgdataType_sticky(name, on) ==
  output' = IF name \notin FlagNames THEN output ELSE output \cup {name}

\* CfgdataType_from_name
CfgdataType(name, on) ==
  output' = IF name \notin FlagNames THEN output
              ELSE IF on THEN output \cup {name} ELSE output \ {name}

\* gnss_cfg_calcType_ex compares with five names, gnss_cfg_calcType with all eight
Record(t) ==
  LET c == cmd[t]
  IN  /\ pc[t] = "record"
      /\ CASE c.op = "data"     -> CfgdataType(c.name, c.on) /\ UNCHANGED calcType
           [] c.op = "onchange" -> CfgdataType(c.name, TRUE) /\ UNCHANGED calcType
           [] IsMode(c)         -> calcType' = c.calc /\ UNCHANGED output
           [] OTHER             -> UNCHANGED <<output, calcType>>
      /\ drifted' = (drifted \ Records(c)) \cup
                      {n \in Records(c) :
                         /\ crossed[t]
                         /\ IF n = "mode" THEN ModeOf(c.calc) # dev_mode
                                          ELSE (n \in output') # (n \in dev)}
      /\ crossed' = [crossed EXCEPT ![t] = FALSE]
      /\ Done(t)
      /\ UNCHANGED <<fd, eph_sw, output_freq, dev, dev_mode, req, copy, quiet>>

Give(t, c) == cmd' = [cmd EXCEPT ![t] = c] /\ pc' = [pc EXCEPT ![t] = "write"]

-----------------------------------------------------------------------------
(* gnss thread *)

OpenDevice ==
  /\ pc[Gnss] = "open"
  /\ \/ /\ fd' = "open"
        /\ Give(Gnss, [op |-> "mode", calc |-> "fppp"])
     \/ /\ pc' = [pc EXCEPT ![Gnss] = "dead"]    \* power or open failed
        /\ UNCHANGED <<fd, cmd>>
  /\ UNCHANGED <<eph_sw, output_freq, output, calcType, dev, dev_mode, req, step, copy,
                 quiet, crossed, drifted>>

OpenRmc ==
  /\ pc[Gnss] = "rmc"
  /\ Give(Gnss, [op |-> "data", name |-> "rmc", on |-> TRUE, rate |-> 1])
  /\ UNCHANGED <<fd, eph_sw, output_freq, output, calcType, dev, dev_mode, req, step, copy,
                 quiet, crossed, drifted>>

\* read failed: the descriptor is closed, fd keeps its number, the thread ends
ReadError ==
  /\ pc[Gnss] = "read"
  /\ fd' = "closed"
  /\ pc' = [pc EXCEPT ![Gnss] = "dead"]
  /\ quiet' = FALSE
  /\ UNCHANGED <<cmd, eph_sw, output_freq, output, calcType, dev, dev_mode, req, step, copy,
                 crossed, drifted>>

-----------------------------------------------------------------------------
(* rx thread: rev_process *)

Request(r) ==
  /\ pc[Rx] = "recv"
  /\ req' = r
  /\ step' = 1
  /\ quiet' = (pc[Cli] = "idle" /\ pc[Gnss] = "read")
  /\ CASE r.kind = "set_sw"   -> /\ eph_sw' = r.value
                                 /\ pc' = [pc EXCEPT ![Rx] = "test"]
                                 /\ UNCHANGED output_freq
       [] r.kind = "set_freq" -> /\ output_freq' = r.value
                                 /\ pc' = [pc EXCEPT ![Rx] = "answer"]
                                 /\ UNCHANGED eph_sw
       [] OTHER               -> /\ pc' = [pc EXCEPT ![Rx] = "answer"]
                                 /\ UNCHANGED <<eph_sw, output_freq>>
  /\ UNCHANGED <<cmd, fd, output, calcType, dev, dev_mode, copy, crossed, drifted>>

\* one "if (eph_sw.content.x) gnss_cfg_data(...)" of update_eph_sw
TestSwitch ==
  /\ pc[Rx] = "test"
  /\ Give(Rx, [op |-> "data", name |-> EphUpdates[step][2],
               on |-> EphUpdates[step][1] \in eph_sw, rate |-> output_freq])
  /\ UNCHANGED <<fd, eph_sw, output_freq, output, calcType, dev, dev_mode, req, step, copy,
                 quiet, crossed, drifted>>

\* net_send: see NetSend and CommUdp
Answer ==
  /\ pc[Rx] = "answer"
  /\ pc' = [pc EXCEPT ![Rx] = "recv"]
  /\ req' = Unset
  /\ step' = 1
  /\ quiet' = FALSE
  /\ UNCHANGED <<cmd, fd, eph_sw, output_freq, output, calcType, dev, dev_mode, copy, crossed,
                 drifted>>

-----------------------------------------------------------------------------
(* console *)

Command(c) ==
  /\ pc[Cli] = "idle"
  /\ IF c.op = "netup"
       THEN /\ cmd' = [cmd EXCEPT ![Cli] = c]
            /\ copy' = eph_sw                    \* the byte the bit-fields share
            /\ pc' = [pc EXCEPT ![Cli] = "store"]
       ELSE Give(Cli, c) /\ UNCHANGED copy
  /\ quiet' = FALSE
  /\ UNCHANGED <<fd, eph_sw, output_freq, output, calcType, dev, dev_mode, req, step, crossed,
                 drifted>>

StoreSwitch ==
  /\ pc[Cli] = "store"
  /\ eph_sw' = IF cmd[Cli].on THEN copy \cup {cmd[Cli].sw} ELSE copy \ {cmd[Cli].sw}
  /\ Done(Cli)
  /\ copy' = {}
  /\ UNCHANGED <<fd, output_freq, output, calcType, dev, dev_mode, req, quiet, crossed, drifted>>

-----------------------------------------------------------------------------
CfgNext(t) == WriteOk(t) \/ WriteAstray(t) \/ WriteFail(t) \/ Record(t)

GnssNext == OpenDevice \/ OpenRmc \/ ReadError

Next == \/ \E t \in Threads : CfgNext(t)
        \/ GnssNext
        \/ TestSwitch \/ Answer \/ (\E r \in Requests : Request(r))
        \/ StoreSwitch \/ (\E c \in Commands : Command(c))

Spec == Init /\ [][Next]_vars

-----------------------------------------------------------------------------
(* Properties *)

\* When a SET of the switches is answered and nobody else configured the module in the
\* 400 ms it takes, the answer carries the value asked for and the module has open
\* exactly the messages switched on (comm_service.c:179-261, 267-275).  One message is
\* left out: the switch bd3cnav2 is sent under a name that is not its message's.
SetApplied ==
  (pc[Rx] = "answer" /\ req.kind = "set_sw" /\ quiet) =>
    /\ eph_sw = req.value
    /\ \A sw \in Switches \ {"bd3cnav2"} : sw \in eph_sw <=> MessageOf[sw] \in dev

\* The record of a message disagrees with the module only if a command that closes
\* messages without recording it (CLOSEALL, MODE, FRESET) came later, or commands of two
\* threads for that message overlapped: flags are written outside fd_mutex
\* (gnss_thread.c:262-306).  The record of the mode only after an overlap or a
\* gnss_cfg_calcType whose write failed (gnss_thread.c:367-463).
RecordsFollowModule ==
  LET Recording(n) == \E t \in Threads : pc[t] = "record" /\ n \in Records(cmd[t])
  IN  fd = "open" =>
        /\ \A n \in FlagNames \ drifted : Recording(n) \/ (n \in output <=> n \in dev)
        /\ "mode" \in drifted \/ Recording("mode") \/ ModeOf(calcType) = dev_mode

\* The help of "gnss net up <type> (on|off)" (tty.c:408-409): it sets <type>, so it
\* changes no other switch.
NetUpSetsOneSwitch ==
  [][\A sw \in Switches :
       (pc[Cli] = "store" /\ pc'[Cli] = "idle" /\ sw # cmd[Cli].sw)
         => (sw \in eph_sw <=> sw \in eph_sw')]_vars
==============================================================================
