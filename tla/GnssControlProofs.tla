-------------------------- MODULE GnssControlProofs --------------------------
(***************************************************************************)
(* Proofs about GnssControl, for every set of requests and of commands:    *)
(* what is recorded of the module, when three threads command it.          *)
(***************************************************************************)
EXTENDS GnssControl, TLAPS

(***************************************************************************)
(* Commands, and where the threads are                                     *)
(***************************************************************************)
\* the commands that are written to the module
Given(c) == \/ c.op = "data" /\ c.name \in Names /\ c.on \in BOOLEAN
            \/ c.op = "onchange" /\ c.name \in Names
            \/ c.op \in {"closeall", "reset", "mode", "calc"}

ThreadsInv ==
  /\ pc = [t \in Threads |-> pc[t]] /\ cmd = [t \in Threads |-> cmd[t]]
  /\ crossed \in [Threads -> BOOLEAN]
  /\ \A t \in Threads : pc[t] \in {"write", "record"} => Given(cmd[t])
  /\ step \in Nat
  /\ pc[Rx] \in {"test", "write", "record"} => step \in 1 .. 8
  /\ pc[Gnss] = "open" => fd = "none"

Recording(n) == \E t \in Threads : pc[t] = "record" /\ n \in Records(cmd[t])

\* What a thread is about to record, if nobody came between, is so in the module.
Wants(c) == c.op = "onchange" \/ c.on = TRUE

MatchInv ==
  fd # "closed" =>
    /\ \A n \in FlagNames : n \in drifted \/ Recording(n) \/ (n \in output <=> n \in dev)
    /\ \A t \in Threads, n \in FlagNames :
         pc[t] = "record" /\ n \in Records(cmd[t]) /\ ~crossed[t] => (n \in dev <=> Wants(cmd[t]))
    /\ "mode" \in drifted \/ Recording("mode") \/ ModeOf(calcType) = dev_mode
    /\ \A t \in Threads :
         pc[t] = "record" /\ "mode" \in Records(cmd[t]) /\ ~crossed[t]
           => ModeOf(cmd[t].calc) = dev_mode

IInv == ThreadsInv /\ MatchInv

\* What the commands record.
LEMMA WhatIsRecorded ==
  ASSUME NEW c, Given(c)
  PROVE  /\ c.op \in {"data", "onchange"} => Records(c) = {c.name} /\ Touches(c) = {c.name} /\ ~IsMode(c)
         /\ c.op \in {"mode", "calc"} => /\ Records(c) = {"mode"} /\ IsMode(c)
                                         /\ Touches(c) = Names \cup {"mode"}
         /\ c.op \in {"closeall", "reset"} => Records(c) = {} /\ Touches(c) = Names /\ ~IsMode(c)
  BY DEF Given, Records, Touches, IsMode

LEMMA NamesOfMessages == FlagNames \subseteq Names /\ "mode" \notin Names
  BY DEF FlagNames, Names

\* The invariant holds initially.
LEMMA InitInv == Init => IInv
  <1> SUFFICES ASSUME Init PROVE IInv
    OBVIOUS
  <1>1. /\ Rx # Cli /\ Rx # Gnss /\ Cli # Gnss /\ {Rx, Cli, Gnss} = Threads
    BY GnssAssumption DEF Threads
  <1>2. /\ pc = [t \in Threads |->
                   CASE t = Rx -> "recv" [] t = Cli -> "idle" [] OTHER -> "open"]
        /\ cmd = [t \in Threads |-> Unset] /\ crossed = [t \in Threads |-> FALSE]
        /\ fd = "none" /\ step = 1 /\ output = {} /\ dev = {} /\ drifted = {"mode"}
    BY DEF Init
  <1>3. pc[Rx] = "recv" /\ pc[Cli] = "idle" /\ pc[Gnss] = "open"
    BY <1>1, <1>2
  <1>4. \A t \in Threads : pc[t] \notin {"write", "record"}
    BY <1>1, <1>3
  <1>5. ThreadsInv
    BY <1>1, <1>2, <1>3, <1>4 DEF ThreadsInv
  <1>6. MatchInv
    BY <1>2, <1>4 DEF MatchInv
  <1>7. QED
    BY <1>5, <1>6 DEF IInv

\* A step that neither writes to the module nor records leaves the records as they match it.
LEMMA NothingRecorded ==
  ASSUME IInv, ThreadsInv', UNCHANGED <<output, calcType, dev, dev_mode, crossed, drifted>>,
         fd' = "closed" \/ fd # "closed",
         \A t \in Threads : (pc'[t] = "record" <=> pc[t] = "record")
                            /\ (pc[t] = "record" => cmd'[t] = cmd[t])
  PROVE  IInv'
  BY DEF IInv, MatchInv, Recording

\* Once a thread is done with its command it is not at one.
LEMMA DoneKeeps ==
  ASSUME ThreadsInv, NEW t \in Threads, pc[t] \in {"write", "record"}, Done(t),
         UNCHANGED fd, crossed' \in [Threads -> BOOLEAN]
  PROVE  /\ ThreadsInv' /\ pc'[t] \notin {"write", "record"}
         /\ \A u \in Threads \ {t} : pc'[u] = pc[u] /\ cmd'[u] = cmd[u]
  <1>1. /\ Rx # Cli /\ Rx # Gnss /\ Cli # Gnss /\ Rx \in Threads /\ Gnss \in Threads
    BY GnssAssumption DEF Threads
  <1>2. Len(EphUpdates) = 8
    BY DEF EphUpdates
  <1>3. \E p \in {"answer", "test", "idle", "rmc", "read"} : pc' = [pc EXCEPT ![t] = p]
    BY <1>1 DEF Done, Threads
  <1>4. /\ cmd' = [cmd EXCEPT ![t] = Unset]
        /\ pc'[t] \in {"answer", "test", "idle", "rmc", "read"}
        /\ \A u \in Threads \ {t} : pc'[u] = pc[u] /\ cmd'[u] = cmd[u]
    BY <1>3 DEF Done, ThreadsInv
  <1>5. step' \in Nat /\ (pc'[Rx] \in {"test", "write", "record"} => step' \in 1 .. 8)
    <2>1. CASE t = Rx
      BY <1>1, <1>2, <2>1 DEF Done, ThreadsInv
    <2>2. CASE t # Rx
      BY <1>1, <1>4, <2>2 DEF Done, ThreadsInv, Threads
    <2>3. QED
      BY <2>1, <2>2
  <1>6. QED
    BY <1>1, <1>3, <1>4, <1>5 DEF ThreadsInv

\* A command that is given is one for the module.
LEMMA GiveKeeps ==
  ASSUME ThreadsInv, NEW t \in Threads, NEW c, Given(c), Give(t, c),
         pc[t] \notin {"write", "record"}, t = Rx => step \in 1 .. 8,
         UNCHANGED <<step, crossed>>, fd' = fd \/ t = Gnss
  PROVE  /\ ThreadsInv'
         /\ \A u \in Threads : (pc'[u] = "record" <=> pc[u] = "record")
                               /\ (pc[u] = "record" => cmd'[u] = cmd[u])
  <1>1. /\ Rx # Cli /\ Rx # Gnss /\ Cli # Gnss /\ Rx \in Threads /\ Gnss \in Threads
    BY GnssAssumption DEF Threads
  <1>2. /\ pc' = [pc EXCEPT ![t] = "write"] /\ cmd' = [cmd EXCEPT ![t] = c]
    BY DEF Give
  <1>3. /\ pc'[t] = "write" /\ cmd'[t] = c
        /\ \A u \in Threads \ {t} : pc'[u] = pc[u] /\ cmd'[u] = cmd[u]
    BY <1>2 DEF ThreadsInv
  <1>4. QED
    BY <1>1, <1>2, <1>3 DEF ThreadsInv

(***************************************************************************)
(* The steps that write to the module, or record                           *)
(***************************************************************************)
\* A thread is about to record what it wrote, or did not.
LEMMA AboutToRecord ==
  ASSUME ThreadsInv, NEW t \in Threads, pc[t] = "write", pc' = [pc EXCEPT ![t] = "record"],
         crossed' \in [Threads -> BOOLEAN], UNCHANGED <<cmd, step, fd>>
  PROVE  /\ ThreadsInv' /\ pc'[t] = "record" /\ Given(cmd[t])
         /\ \A u \in Threads \ {t} : pc'[u] = pc[u]
         /\ \A n : Recording(n)' <=> Recording(n) \/ n \in Records(cmd[t])
  <1>1. /\ Rx # Cli /\ Rx # Gnss /\ Cli # Gnss /\ Rx \in Threads /\ Gnss \in Threads
    BY GnssAssumption DEF Threads
  <1>2. pc'[t] = "record" /\ \A u \in Threads \ {t} : pc'[u] = pc[u]
    BY DEF ThreadsInv
  <1>3. ThreadsInv'
    BY <1>1, <1>2 DEF ThreadsInv
  <1>4. QED
    BY <1>2, <1>3 DEF ThreadsInv, Recording

\* The module obeys: what it has of other messages stays, and who was about to record one
\* of those it changes is crossed.
LEMMA WriteOkKeeps ==
  ASSUME IInv, NEW t \in Threads, WriteOk(t)
  PROVE  IInv'
  <1> DEFINE c == cmd[t]
  <1>1. /\ pc[t] = "write" /\ fd = "open" /\ pc' = [pc EXCEPT ![t] = "record"]
        /\ dev' = Obeyed(c, dev)
        /\ dev_mode' = IF IsMode(c) THEN ModeOf(c.calc) ELSE dev_mode
        /\ crossed' = [u \in Threads |-> IF u = t THEN Recorders(t, Records(c)) # {}
                                           ELSE crossed[u] \/ u \in Recorders(t, Touches(c))]
        /\ drifted' = drifted \cup ((Touches(c) \ Records(c)) \cap output)
        /\ UNCHANGED <<cmd, fd, output, calcType, step>>
    BY DEF WriteOk
  <1>2. crossed' \in [Threads -> BOOLEAN]
    BY <1>1 DEF IInv, ThreadsInv
  <1>3. /\ ThreadsInv' /\ pc'[t] = "record" /\ Given(c)
        /\ \A u \in Threads \ {t} : pc'[u] = pc[u]
        /\ \A n : Recording(n)' <=> Recording(n) \/ n \in Records(c)
    BY <1>1, <1>2, AboutToRecord DEF IInv
  <1>4. \A u \in Threads \ {t} : pc[u] = "record" /\ ~crossed'[u] =>
          ~crossed[u] /\ Records(cmd[u]) \cap Touches(c) = {}
    BY <1>1 DEF Recorders, IInv, ThreadsInv
  <1>5. /\ c.op \in {"data", "onchange"} =>
             /\ \A n : n # c.name => (n \in dev' <=> n \in dev)
             /\ c.name \in dev' <=> Wants(c)
        /\ c.op \notin {"data", "onchange"} => dev' = {}
    BY <1>1, <1>3 DEF Obeyed, Given, Wants
  <1> HIDE DEF c
  <1>6. ASSUME NEW n \in FlagNames
        PROVE  /\ n \in drifted' \/ Recording(n)' \/ (n \in output' <=> n \in dev')
               /\ \A u \in Threads : pc'[u] = "record" /\ n \in Records(cmd'[u]) /\ ~crossed'[u]
                                       => (n \in dev' <=> Wants(cmd'[u]))
    <2>1. n \in Touches(c) \/ (c.op \in {"data", "onchange"} /\ n # c.name)
      BY <1>3, WhatIsRecorded, NamesOfMessages DEF Given
    <2>2. n \in Touches(c) \ Records(c) => dev' = {}
      BY <1>3, <1>5, WhatIsRecorded
    <2>3. n \in drifted \/ Recording(n) \/ (n \in output <=> n \in dev)
      BY <1>1 DEF IInv, MatchInv
    <2>4. n \in drifted' \/ Recording(n)' \/ (n \in output' <=> n \in dev')
      BY <2>1, <2>2, <2>3, <1>1, <1>3, <1>5
    <2>5. n \in Records(c) => (n \in dev' <=> Wants(c))
      BY <1>3, <1>5, WhatIsRecorded, NamesOfMessages DEF Given
    <2>6. ASSUME NEW u \in Threads \ {t}, pc[u] = "record", n \in Records(cmd[u]), ~crossed'[u]
          PROVE  n \in dev' <=> Wants(cmd[u])
      <3>1. ~crossed[u] /\ n \notin Touches(c)
        BY <2>6, <1>4
      <3>2. n \in dev <=> Wants(cmd[u])
        BY <2>6, <3>1, <1>1 DEF IInv, MatchInv
      <3>3. QED
        BY <3>1, <3>2, <2>1, <1>5
    <2>7. QED
      BY <2>4, <2>5, <2>6, <1>1, <1>3 DEF c
  <1>7. "mode" \in drifted' \/ Recording("mode")' \/ ModeOf(calcType') = dev_mode'
    <2>1. CASE IsMode(c)
      BY <2>1, <1>3 DEF IsMode, Records
    <2>2. CASE ~IsMode(c)
      BY <2>2, <1>1, <1>3 DEF IInv, MatchInv, c
    <2>3. QED
      BY <2>1, <2>2
  <1>8. ASSUME NEW u \in Threads, pc'[u] = "record", "mode" \in Records(cmd'[u]), ~crossed'[u]
        PROVE  ModeOf(cmd'[u].calc) = dev_mode'
    <2>1. CASE u = t
      <3>1. IsMode(c)
        BY <2>1, <1>1, <1>3, <1>8, WhatIsRecorded, NamesOfMessages DEF c, Given
      <3>2. QED
        BY <3>1, <2>1, <1>1 DEF c
    <2>2. CASE u # t
      <3>1. /\ pc[u] = "record" /\ cmd'[u] = cmd[u] /\ ~crossed[u]
            /\ "mode" \notin Touches(c)
        BY <2>2, <1>1, <1>3, <1>4, <1>8
      <3>2. ~IsMode(c)
        BY <3>1 DEF Touches, IsMode
      <3>3. QED
        BY <3>1, <3>2, <1>1, <1>8 DEF IInv, MatchInv, c
    <2>3. QED
      BY <2>1, <2>2
  <1>9. QED
    BY <1>3, <1>6, <1>7, <1>8 DEF IInv, MatchInv

\* A write that fails ends the command, or its thread is crossed from the start.
LEMMA WriteFailKeeps ==
  ASSUME IInv, NEW t \in Threads, WriteFail(t)
  PROVE  IInv'
  <1>1. /\ pc[t] = "write" /\ UNCHANGED <<fd, output, calcType, dev, dev_mode, drifted>>
    BY DEF WriteFail
  <1>2. CASE cmd[t].op = "calc"
    <2>1. /\ pc' = [pc EXCEPT ![t] = "record"] /\ crossed' = [crossed EXCEPT ![t] = TRUE]
          /\ UNCHANGED <<cmd, step>>
      BY <1>2 DEF WriteFail
    <2>2. /\ crossed' \in [Threads -> BOOLEAN] /\ crossed'[t] = TRUE
          /\ \A u \in Threads \ {t} : crossed'[u] = crossed[u]
      BY <2>1 DEF IInv, ThreadsInv
    <2>3. /\ ThreadsInv' /\ pc'[t] = "record"
          /\ \A u \in Threads \ {t} : pc'[u] = pc[u]
          /\ \A n : Recording(n)' <=> Recording(n) \/ n \in Records(cmd[t])
      BY <1>1, <2>1, <2>2, AboutToRecord DEF IInv
    <2>4. MatchInv'
      BY <1>1, <2>1, <2>2, <2>3 DEF IInv, MatchInv
    <2>5. QED
      BY <2>3, <2>4 DEF IInv
  <1>3. CASE cmd[t].op # "calc"
    <2>1. Done(t) /\ UNCHANGED crossed
      BY <1>3 DEF WriteFail
    <2>2. /\ ThreadsInv' /\ pc'[t] \notin {"write", "record"}
          /\ \A u \in Threads \ {t} : pc'[u] = pc[u] /\ cmd'[u] = cmd[u]
      BY <1>1, <2>1, DoneKeeps DEF IInv, ThreadsInv
    <2>3. \A u \in Threads : (pc'[u] = "record" <=> pc[u] = "record")
                             /\ (pc[u] = "record" => cmd'[u] = cmd[u])
      BY <1>1, <2>2
    <2>4. fd' = "closed" \/ fd # "closed" \/ fd = "closed"
      OBVIOUS
    <2>5. CASE fd # "closed"
      BY <1>1, <2>1, <2>2, <2>3, <2>5, NothingRecorded
    <2>6. CASE fd = "closed"
      BY <1>1, <2>1, <2>2, <2>3, <2>6, NothingRecorded
    <2>7. QED
      BY <2>5, <2>6
  <1>4. QED
    BY <1>2, <1>3

\* A thread records what it asked for: as it is in the module, unless it was crossed.
LEMMA RecordKeeps ==
  ASSUME IInv, NEW t \in Threads, Record(t)
  PROVE  IInv'
  <1> DEFINE c == cmd[t]
  <1>1. /\ pc[t] = "record" /\ UNCHANGED <<fd, dev, dev_mode>>
        /\ drifted' = (drifted \ Records(c)) \cup
                        {n \in Records(c) :
                           /\ crossed[t]
                           /\ IF n = "mode" THEN ModeOf(c.calc) # dev_mode
                                            ELSE (n \in output') # (n \in dev)}
        /\ crossed' = [crossed EXCEPT ![t] = FALSE] /\ Done(t)
    BY DEF Record
  <1>1a. /\ c.op = "data" => CfgdataType(c.name, c.on) /\ calcType' = calcType
         /\ c.op = "onchange" => CfgdataType(c.name, TRUE) /\ calcType' = calcType
         /\ c.op \in {"mode", "calc"} => calcType' = c.calc /\ output' = output
         /\ c.op \in {"closeall", "reset"} => output' = output /\ calcType' = calcType
    BY DEF Record, IsMode
  <1>2. /\ crossed' \in [Threads -> BOOLEAN] /\ Given(c)
        /\ \A u \in Threads \ {t} : crossed'[u] = crossed[u]
    BY <1>1 DEF IInv, ThreadsInv
  <1>3. /\ ThreadsInv' /\ pc'[t] \notin {"write", "record"}
        /\ \A u \in Threads \ {t} : pc'[u] = pc[u] /\ cmd'[u] = cmd[u]
    BY <1>1, <1>2, DoneKeeps DEF IInv, ThreadsInv
  <1>4. \A n : Recording(n) => n \in Records(c) \/ Recording(n)'
    BY <1>3 DEF Recording
  <1>5. /\ c.op \in {"data", "onchange"} =>
             /\ \A n \in FlagNames : n # c.name => (n \in output' <=> n \in output)
             /\ c.name \in FlagNames => (c.name \in output' <=> Wants(c))
             /\ calcType' = calcType
        /\ c.op \notin {"data", "onchange"} => output' = output
        /\ c.op \in {"mode", "calc"} => calcType' = c.calc
        /\ c.op \in {"closeall", "reset"} => calcType' = calcType
    <2>1. CASE c.op = "data"
      <3>1. /\ calcType' = calcType
            /\ output' = IF c.name \notin FlagNames THEN output
                           ELSE IF c.on THEN output \cup {c.name} ELSE output \ {c.name}
        BY <1>1a, <2>1 DEF CfgdataType
      <3>2. c.on \in BOOLEAN
        BY <1>2, <2>1 DEF Given
      <3>3. CASE c.on = TRUE
        BY <3>1, <3>3, <2>1 DEF Wants
      <3>4. CASE c.on = FALSE
        BY <3>1, <3>4, <2>1 DEF Wants
      <3>5. QED
        BY <3>2, <3>3, <3>4
    <2>2. CASE c.op = "onchange"
      <3>1. /\ calcType' = calcType
            /\ output' = IF c.name \notin FlagNames THEN output ELSE output \cup {c.name}
        BY <1>1a, <2>2 DEF CfgdataType
      <3>2. QED
        BY <3>1, <2>2 DEF Wants
    <2>3. CASE c.op \in {"mode", "calc"}
      BY <1>1a, <2>3
    <2>4. CASE c.op \in {"closeall", "reset"}
      BY <1>1a, <2>4
    <2>5. QED
      BY <1>2, <2>1, <2>2, <2>3, <2>4 DEF Given
  <1>6. /\ c.op \in {"data", "onchange"} => Records(c) = {c.name} /\ c.name \in Names
        /\ c.op \in {"mode", "calc"} => Records(c) = {"mode"}
        /\ c.op \in {"closeall", "reset"} => Records(c) = {}
        /\ c.op \in {"data", "onchange", "mode", "calc", "closeall", "reset"}
    BY <1>2, WhatIsRecorded DEF Given
  <1> HIDE DEF c
  <1>7. ASSUME fd # "closed", NEW n \in FlagNames
        PROVE  n \in drifted' \/ Recording(n)' \/ (n \in output' <=> n \in dev')
    <2>1. n # "mode"
      BY NamesOfMessages
    <2>2. CASE n \in Records(c)
      <3>1. n = c.name /\ (n \in output' <=> Wants(c))
        BY <2>1, <2>2, <1>5, <1>6
      <3>2. ~crossed[t] => (n \in dev <=> Wants(c))
        BY <1>1, <1>7, <2>2 DEF IInv, MatchInv, c
      <3>3. crossed[t] /\ ~(n \in output' <=> n \in dev) => n \in drifted'
        BY <1>1, <2>1, <2>2
      <3>4. QED
        BY <3>1, <3>2, <3>3, <1>1
    <2>3. CASE n \notin Records(c)
      BY <2>3, <1>1, <1>4, <1>5, <1>6, <1>7 DEF IInv, MatchInv
    <2>4. QED
      BY <2>2, <2>3
  <1>8. ASSUME fd # "closed"
        PROVE  "mode" \in drifted' \/ Recording("mode")' \/ ModeOf(calcType') = dev_mode'
    <2>1. CASE "mode" \in Records(c)
      <3>1. calcType' = c.calc
        BY <2>1, <1>5, <1>6, NamesOfMessages
      <3>2. ~crossed[t] => ModeOf(c.calc) = dev_mode
        BY <1>1, <1>8, <2>1 DEF IInv, MatchInv, c
      <3>3. QED
        BY <2>1, <3>1, <3>2, <1>1
    <2>2. CASE "mode" \notin Records(c)
      <3>1. calcType' = calcType
        BY <2>2, <1>5, <1>6
      <3>2. QED
        BY <2>2, <3>1, <1>1, <1>4, <1>8 DEF IInv, MatchInv
    <2>3. QED
      BY <2>1, <2>2
  <1>9. MatchInv'
    BY <1>1, <1>2, <1>3, <1>7, <1>8 DEF IInv, MatchInv
  <1>10. QED
    BY <1>3, <1>9 DEF IInv

(***************************************************************************)
(* The other steps                                                         *)
(***************************************************************************)
\* The gnss thread opens the port, and gives the first two commands.
LEMMA GnssKeeps ==
  ASSUME IInv, GnssNext
  PROVE  IInv'
  <1> USE DEF IInv
  <1>1. /\ Rx # Cli /\ Rx # Gnss /\ Cli # Gnss /\ Rx \in Threads /\ Gnss \in Threads
    BY GnssAssumption DEF Threads
  <1>2. CASE OpenDevice
    <2>1. pc[Gnss] = "open" /\ fd = "none" /\ UNCHANGED <<output, calcType, dev, dev_mode, step, crossed, drifted>>
      BY <1>2 DEF OpenDevice, ThreadsInv
    <2>2. CASE fd' = "open" /\ Give(Gnss, [op |-> "mode", calc |-> "fppp"])
      <3>1. Given([op |-> "mode", calc |-> "fppp"])
        BY DEF Given
      <3>2. /\ ThreadsInv'
            /\ \A u \in Threads : (pc'[u] = "record" <=> pc[u] = "record")
                                  /\ (pc[u] = "record" => cmd'[u] = cmd[u])
        BY <1>1, <2>1, <2>2, <3>1, GiveKeeps
      <3>3. QED
        BY <2>1, <3>2, NothingRecorded
    <2>3. CASE pc' = [pc EXCEPT ![Gnss] = "dead"] /\ UNCHANGED <<fd, cmd>>
      <3>1. pc'[Gnss] = "dead" /\ \A u \in Threads \ {Gnss} : pc'[u] = pc[u]
        BY <1>1, <2>3 DEF ThreadsInv
      <3>2. ThreadsInv'
        BY <1>1, <2>1, <2>3, <3>1 DEF ThreadsInv
      <3>3. QED
        BY <2>1, <2>3, <3>1, <3>2, NothingRecorded
    <2>4. QED
      BY <1>2, <2>2, <2>3 DEF OpenDevice
  <1>3. CASE OpenRmc
    <2> DEFINE c == [op |-> "data", name |-> "rmc", on |-> TRUE, rate |-> 1]
    <2>1. /\ pc[Gnss] = "rmc" /\ Give(Gnss, c)
          /\ UNCHANGED <<output, calcType, dev, dev_mode, step, crossed, drifted, fd>>
      BY <1>3 DEF OpenRmc
    <2>2. Given(c)
      BY DEF Given, Names, FlagNames
    <2> HIDE DEF c
    <2>3. /\ ThreadsInv'
          /\ \A u \in Threads : (pc'[u] = "record" <=> pc[u] = "record")
                                /\ (pc[u] = "record" => cmd'[u] = cmd[u])
      BY <1>1, <2>1, <2>2, GiveKeeps
    <2>4. QED
      BY <2>1, <2>3, NothingRecorded
  <1>4. CASE ReadError
    <2>1. /\ pc[Gnss] = "read" /\ fd' = "closed" /\ pc' = [pc EXCEPT ![Gnss] = "dead"]
          /\ UNCHANGED <<cmd, step, crossed>>
      BY <1>4 DEF ReadError
    <2>2. ThreadsInv'
      BY <1>1, <2>1 DEF ThreadsInv
    <2>3. QED
      BY <2>1, <2>2 DEF MatchInv
  <1>5. QED
    BY <1>2, <1>3, <1>4 DEF GnssNext

\* The rx thread takes a request, gives a command for each switch, and answers.
LEMMA RxKeeps ==
  ASSUME IInv, TestSwitch \/ Answer \/ \E r \in Requests : Request(r)
  PROVE  IInv'
  <1> USE DEF IInv
  <1>1. /\ Rx # Cli /\ Rx # Gnss /\ Cli # Gnss /\ Rx \in Threads /\ Gnss \in Threads
    BY GnssAssumption DEF Threads
  <1>2. CASE TestSwitch
    <2> DEFINE c == [op |-> "data", name |-> EphUpdates[step][2],
                     on |-> EphUpdates[step][1] \in eph_sw, rate |-> output_freq]
    <2>1. /\ pc[Rx] = "test" /\ Give(Rx, c)
          /\ UNCHANGED <<output, calcType, dev, dev_mode, step, crossed, drifted, fd>>
      BY <1>2 DEF TestSwitch
    <2>2. step \in 1 .. 8
      BY <1>1, <2>1 DEF ThreadsInv
    <2>3. EphUpdates[step][2] \in Names
      BY <2>2 DEF EphUpdates, Names, FlagNames
    <2>4. (EphUpdates[step][1] \in eph_sw) \in BOOLEAN
      OBVIOUS
    <2>5. c.op = "data" /\ c.name = EphUpdates[step][2] /\ c.on \in BOOLEAN
      BY <2>4, Zenon
    <2> HIDE DEF c
    <2>6. Given(c)
      BY <2>3, <2>5 DEF Given
    <2>7. /\ ThreadsInv'
          /\ \A u \in Threads : (pc'[u] = "record" <=> pc[u] = "record")
                                /\ (pc[u] = "record" => cmd'[u] = cmd[u])
      BY <1>1, <2>1, <2>2, <2>6, GiveKeeps
    <2>8. QED
      BY <2>1, <2>7, NothingRecorded
  <1>3. CASE Answer \/ \E r \in Requests : Request(r)
    <2>1. /\ pc[Rx] \in {"answer", "recv"} /\ step' = 1
          /\ \E p \in {"recv", "test", "answer"} : pc' = [pc EXCEPT ![Rx] = p]
          /\ UNCHANGED <<cmd, output, calcType, dev, dev_mode, crossed, drifted, fd>>
      BY <1>3 DEF Answer, Request
    <2>2. /\ pc'[Rx] \in {"recv", "test", "answer"}
          /\ \A u \in Threads \ {Rx} : pc'[u] = pc[u]
      BY <1>1, <2>1 DEF ThreadsInv
    <2>3. ThreadsInv'
      BY <1>1, <2>1, <2>2 DEF ThreadsInv
    <2>4. QED
      BY <2>1, <2>2, <2>3, NothingRecorded
  <1>4. QED
    BY <1>2, <1>3

\* The console takes a command, or sets a switch.
LEMMA CliKeeps ==
  ASSUME IInv, StoreSwitch \/ \E c \in Commands : Command(c)
  PROVE  IInv'
  <1> USE DEF IInv
  <1>1. /\ Rx # Cli /\ Rx # Gnss /\ Cli # Gnss
        /\ Rx \in Threads /\ Cli \in Threads /\ Gnss \in Threads
    BY GnssAssumption DEF Threads
  <1>2. CASE StoreSwitch
    <2>1. /\ pc[Cli] = "store" /\ Done(Cli)
          /\ UNCHANGED <<output, calcType, dev, dev_mode, crossed, drifted, fd>>
      BY <1>2 DEF StoreSwitch
    <2>2. /\ pc' = [pc EXCEPT ![Cli] = "idle"] /\ cmd' = [cmd EXCEPT ![Cli] = Unset]
          /\ step' = step
      BY <1>1, <2>1 DEF Done
    <2>3. /\ pc'[Cli] = "idle"
          /\ \A u \in Threads \ {Cli} : pc'[u] = pc[u] /\ cmd'[u] = cmd[u]
      BY <1>1, <2>2 DEF ThreadsInv
    <2>4. ThreadsInv'
      BY <1>1, <2>1, <2>2, <2>3 DEF ThreadsInv
    <2>5. QED
      BY <2>1, <2>3, <2>4, NothingRecorded
  <1>3. ASSUME NEW c \in Commands, Command(c)
        PROVE  IInv'
    <2>1. /\ pc[Cli] = "idle"
          /\ UNCHANGED <<output, calcType, dev, dev_mode, crossed, drifted, fd, step>>
      BY <1>3 DEF Command
    <2>2. CASE c.op = "netup"
      <3>1. pc' = [pc EXCEPT ![Cli] = "store"] /\ cmd' = [cmd EXCEPT ![Cli] = c]
        BY <1>3, <2>2 DEF Command
      <3>2. /\ pc'[Cli] = "store"
            /\ \A u \in Threads \ {Cli} : pc'[u] = pc[u] /\ cmd'[u] = cmd[u]
        BY <1>1, <3>1 DEF ThreadsInv
      <3>3. ThreadsInv'
        BY <1>1, <2>1, <3>1, <3>2 DEF ThreadsInv
      <3>4. QED
        BY <2>1, <3>2, <3>3, NothingRecorded
    <2>3. CASE c.op # "netup"
      <3>1. Give(Cli, c)
        BY <1>3, <2>3 DEF Command
      <3>2. c \in CommandType
        BY GnssAssumption
      <3>3. Given(c)
        BY <2>3, <3>2 DEF CommandType, Given, Names, Calcs
      <3>4. /\ ThreadsInv'
            /\ \A u \in Threads : (pc'[u] = "record" <=> pc[u] = "record")
                                  /\ (pc[u] = "record" => cmd'[u] = cmd[u])
        BY <1>1, <2>1, <3>1, <3>3, GiveKeeps
      <3>5. QED
        BY <2>1, <3>4, NothingRecorded
    <2>4. QED
      BY <2>2, <2>3
  <1>4. QED
    BY <1>2, <1>3

\* Every step keeps the invariant.
LEMMA StepInv == IInv /\ [Next]_vars => IInv'
  <1> SUFFICES ASSUME IInv, [Next]_vars PROVE IInv'
    OBVIOUS
  <1>1. ASSUME NEW t \in Threads, CfgNext(t)
        PROVE  IInv'
    <2>1. CASE WriteAstray(t)
      <3>1. /\ pc[t] = "write" /\ fd = "closed" /\ pc' = [pc EXCEPT ![t] = "record"]
            /\ UNCHANGED <<cmd, step, fd, crossed>>
        BY <2>1 DEF WriteAstray
      <3>2. ThreadsInv'
        BY <3>1, AboutToRecord DEF IInv, ThreadsInv
      <3>3. QED
        BY <3>1, <3>2 DEF IInv, MatchInv
    <2>2. QED
      BY <1>1, <2>1, WriteOkKeeps, WriteFailKeeps, RecordKeeps DEF CfgNext
  <1>2. CASE UNCHANGED vars
    BY <1>2 DEF vars, IInv, ThreadsInv, MatchInv, Recording
  <1>3. QED
    BY <1>1, <1>2, GnssKeeps, RxKeeps, CliKeeps DEF Next

\* While the port is open, what is recorded of a message, or of the mode, is what the
\* module does, unless a command that closes messages came later or two threads' commands
\* overlapped (gnss_thread.c:262-306, 367-463): for all requests and commands.
THEOREM RecordsFollow == Spec => []RecordsFollowModule
  <1>1. IInv => RecordsFollowModule
    BY DEF IInv, MatchInv, RecordsFollowModule, Recording
  <1>2. QED
    BY <1>1, InitInv, StepInv, PTL DEF Spec

(***************************************************************************)
(* What a request that sets the switches has done so far, if nobody else   *)
(* came between: each switch up to this one is so in the module.           *)
(***************************************************************************)
Name(i) == EphUpdates[i][2]
IsOn(i) == EphUpdates[i][1] \in eph_sw

SetInv ==
  /\ quiet \in BOOLEAN
  /\ pc[Gnss] \notin {"open", "dead"} => fd = "open"
  /\ quiet => pc[Cli] = "idle" /\ pc[Gnss] = "read"
  /\ quiet /\ req.kind = "set_sw" =>
       /\ eph_sw = req.value
       /\ pc[Rx] = "answer" => step = 9
       /\ pc[Rx] \in {"write", "record"} =>
            cmd[Rx].op = "data" /\ cmd[Rx].name = Name(step) /\ (cmd[Rx].on = TRUE <=> IsOn(step))
       /\ \A i \in 1 .. 8 : i < step \/ (i = step /\ pc[Rx] = "record") =>
            (Name(i) \in dev <=> IsOn(i))

\* Every switch is sent under a name of its own.
LEMMA NamesDiffer == \A i, j \in 1 .. 8 : i # j => Name(i) # Name(j)
  BY DEF Name, EphUpdates

LEMMA SetInitInv == Init => SetInv
  BY GnssAssumption DEF Init, SetInv, Threads

\* A command of the rx thread sets its switch, and no other.
LEMMA SwitchWritten ==
  ASSUME IInv, SetInv, WriteOk(Rx)
  PROVE  SetInv'
  <1> DEFINE c == cmd[Rx]
  <1>1. /\ Rx # Cli /\ Rx # Gnss /\ Cli # Gnss
        /\ Rx \in Threads /\ Cli \in Threads /\ Gnss \in Threads
    BY GnssAssumption DEF Threads
  <1>2. /\ pc[Rx] = "write" /\ pc' = [pc EXCEPT ![Rx] = "record"] /\ dev' = Obeyed(c, dev)
        /\ UNCHANGED <<cmd, fd, step, eph_sw, req, quiet>>
    BY DEF WriteOk
  <1>3. /\ pc'[Rx] = "record" /\ pc'[Cli] = pc[Cli] /\ pc'[Gnss] = pc[Gnss]
        /\ step \in 1 .. 8 /\ Given(c)
    BY <1>1, <1>2 DEF IInv, ThreadsInv
  <1>4. ASSUME quiet, req.kind = "set_sw", NEW i \in 1 .. 8, i <= step
        PROVE  Name(i) \in dev' <=> IsOn(i)
    <2>1. c.op = "data" /\ c.name = Name(step) /\ (c.on = TRUE <=> IsOn(step)) /\ c.on \in BOOLEAN
      BY <1>2, <1>3, <1>4 DEF SetInv, Given
    <2>2. /\ c.on = TRUE => dev' = dev \cup {Name(step)}
          /\ c.on = FALSE => dev' = dev \ {Name(step)}
      BY <1>2, <2>1 DEF Obeyed
    <2> HIDE DEF c
    <2>3. CASE i = step
      BY <2>1, <2>2, <2>3
    <2>4. CASE i # step
      <3>1. Name(i) # Name(step) /\ i < step
        BY <1>3, <1>4, <2>4, NamesDiffer
      <3>2. Name(i) \in dev <=> IsOn(i)
        BY <1>4, <3>1 DEF SetInv
      <3>3. QED
        BY <2>1, <2>2, <3>1, <3>2
    <2>5. QED
      BY <2>3, <2>4
  <1>5. QED
    BY <1>2, <1>3, <1>4 DEF SetInv, Name, IsOn

\* After the record the next switch is tested, or the request is answered.
LEMMA SwitchRecorded ==
  ASSUME IInv, SetInv, Record(Rx)
  PROVE  SetInv'
  <1>1. /\ Rx # Cli /\ Rx # Gnss /\ Cli # Gnss
        /\ Rx \in Threads /\ Cli \in Threads /\ Gnss \in Threads /\ Len(EphUpdates) = 8
    BY GnssAssumption DEF Threads, EphUpdates
  <1>2. pc[Rx] = "record" /\ Done(Rx) /\ UNCHANGED <<fd, dev, eph_sw, req, quiet>>
    BY DEF Record
  <1>3. /\ step' = step + 1
        /\ pc' = [pc EXCEPT ![Rx] = IF step = 8 THEN "answer" ELSE "test"]
    BY <1>1, <1>2 DEF Done
  <1>4. /\ pc'[Rx] = (IF step = 8 THEN "answer" ELSE "test")
        /\ pc'[Cli] = pc[Cli] /\ pc'[Gnss] = pc[Gnss] /\ step \in 1 .. 8
    BY <1>1, <1>2, <1>3 DEF IInv, ThreadsInv
  <1>5. QED
    BY <1>2, <1>3, <1>4 DEF SetInv, Name, IsOn

\* Each other step ends the quiet, or leaves it as it is.
LEMMA SetStepInv == IInv /\ SetInv /\ [Next]_vars => SetInv'
  <1> SUFFICES ASSUME IInv, SetInv, [Next]_vars PROVE SetInv'
    OBVIOUS
  <1>1. /\ Rx # Cli /\ Rx # Gnss /\ Cli # Gnss
        /\ Rx \in Threads /\ Cli \in Threads /\ Gnss \in Threads /\ Threads = {Rx, Cli, Gnss}
    BY GnssAssumption DEF Threads
  <1>2. ASSUME NEW t \in {Cli, Gnss}, CfgNext(t)
        PROVE  SetInv'
    <2>1. pc[t] \in {"write", "record"} /\ UNCHANGED fd /\ (quiet' = quiet \/ quiet' = FALSE \/ WriteFail(t))
      BY <1>2 DEF CfgNext, WriteOk, WriteAstray, WriteFail, Record
    <2>2. quiet = FALSE
      BY <2>1, <1>1 DEF SetInv
    <2>3. quiet' = FALSE
      BY <1>2, <2>2, <1>1 DEF CfgNext, WriteOk, WriteAstray, WriteFail, Record
    <2>4. pc'[Gnss] \in {"open", "dead"} => pc[Gnss] \in {"open", "dead"}
      BY <1>1, <1>2, <2>1
      DEF CfgNext, WriteOk, WriteAstray, WriteFail, Record, Done, IInv, ThreadsInv
    <2>5. pc[Gnss] \in {"open", "dead"} => pc'[Gnss] = pc[Gnss]
      BY <1>1, <1>2, <2>1
      DEF CfgNext, WriteOk, WriteAstray, WriteFail, Record, Done, IInv, ThreadsInv
    <2>6. QED
      BY <2>1, <2>3, <2>5 DEF SetInv
  <1>3. CASE WriteAstray(Rx)
    <2>1. pc[Rx] = "write" /\ fd = "closed" /\ pc' = [pc EXCEPT ![Rx] = "record"] /\ UNCHANGED <<fd, quiet>>
      BY <1>3 DEF WriteAstray
    <2>2. quiet = FALSE /\ pc'[Gnss] = pc[Gnss]
      BY <1>1, <2>1 DEF SetInv, IInv, ThreadsInv
    <2>3. QED
      BY <2>1, <2>2 DEF SetInv
  <1>4. CASE WriteFail(Rx)
    <2>1. pc[Rx] = "write" /\ UNCHANGED fd /\ quiet' = FALSE
      BY <1>4 DEF WriteFail
    <2>2. \E p : pc' = [pc EXCEPT ![Rx] = p]
      BY <1>1, <1>4 DEF WriteFail, Done
    <2>3. pc'[Gnss] = pc[Gnss]
      BY <1>1, <2>2 DEF IInv, ThreadsInv
    <2>4. QED
      BY <2>1, <2>3 DEF SetInv
  <1>5. CASE OpenDevice \/ OpenRmc
    <2>1. pc[Gnss] \in {"open", "rmc"} /\ UNCHANGED quiet
      BY <1>5 DEF OpenDevice, OpenRmc
    <2>2. quiet = FALSE
      BY <2>1 DEF SetInv
    <2>3. pc'[Gnss] = "dead" \/ fd' = "open" \/ (UNCHANGED fd /\ pc[Gnss] = "rmc")
      BY <1>1, <1>5 DEF OpenDevice, OpenRmc, IInv, ThreadsInv
    <2>4. QED
      BY <2>1, <2>2, <2>3 DEF SetInv
  <1>6. CASE ReadError
    BY <1>1, <1>6 DEF ReadError, SetInv, IInv, ThreadsInv
  <1>7. CASE TestSwitch
    <2> DEFINE c == [op |-> "data", name |-> EphUpdates[step][2],
                     on |-> EphUpdates[step][1] \in eph_sw, rate |-> output_freq]
    <2>1. /\ pc[Rx] = "test" /\ Give(Rx, c)
          /\ UNCHANGED <<fd, eph_sw, dev, req, step, quiet>>
      BY <1>7 DEF TestSwitch
    <2>2. c.op = "data" /\ c.name = Name(step) /\ (c.on = TRUE <=> IsOn(step))
      <3>1. c.on = (EphUpdates[step][1] \in eph_sw)
        OBVIOUS
      <3>2. QED
        BY <3>1 DEF Name, IsOn
    <2> HIDE DEF c
    <2>3. pc'[Rx] = "write" /\ pc'[Cli] = pc[Cli] /\ pc'[Gnss] = pc[Gnss] /\ cmd'[Rx] = c
      BY <1>1, <2>1 DEF Give, IInv, ThreadsInv
    <2>4. QED
      BY <2>1, <2>2, <2>3 DEF SetInv, Name, IsOn
  <1>8. CASE Answer
    BY <1>1, <1>8 DEF Answer, SetInv, IInv, ThreadsInv
  <1>9. ASSUME NEW r \in Requests, Request(r)
        PROVE  SetInv'
    <2>1. /\ req' = r /\ step' = 1 /\ UNCHANGED <<fd, cmd, dev>>
          /\ quiet' = (pc[Cli] = "idle" /\ pc[Gnss] = "read")
          /\ \E p \in {"test", "answer"} : pc' = [pc EXCEPT ![Rx] = p]
          /\ r.kind = "set_sw" => eph_sw' = r.value /\ pc' = [pc EXCEPT ![Rx] = "test"]
      BY <1>9 DEF Request
    <2>2. /\ pc'[Cli] = pc[Cli] /\ pc'[Gnss] = pc[Gnss]
          /\ r.kind = "set_sw" => pc'[Rx] = "test"
      BY <1>1, <2>1 DEF IInv, ThreadsInv
    <2>3. /\ quiet' \in BOOLEAN
          /\ quiet' => pc[Cli] = "idle" /\ pc[Gnss] = "read"
      BY <2>1
    <2>4. pc'[Gnss] \notin {"open", "dead"} => fd' = "open"
      BY <2>1, <2>2 DEF SetInv
    <2>5. QED
      BY <2>1, <2>2, <2>3, <2>4 DEF SetInv
  <1>10. CASE StoreSwitch
    <2>1. pc[Cli] = "store" /\ UNCHANGED <<fd, quiet>> /\ pc' = [pc EXCEPT ![Cli] = "idle"]
      BY <1>1, <1>10 DEF StoreSwitch, Done
    <2>2. quiet = FALSE /\ pc'[Gnss] = pc[Gnss]
      BY <1>1, <2>1 DEF SetInv, IInv, ThreadsInv
    <2>3. QED
      BY <2>1, <2>2 DEF SetInv
  <1>11. ASSUME NEW c \in Commands, Command(c)
         PROVE  SetInv'
    <2>1. quiet' = FALSE /\ UNCHANGED fd /\ \E p : pc' = [pc EXCEPT ![Cli] = p]
      BY <1>11 DEF Command, Give
    <2>2. pc'[Gnss] = pc[Gnss]
      BY <1>1, <2>1 DEF IInv, ThreadsInv
    <2>3. QED
      BY <2>1, <2>2 DEF SetInv
  <1>12. CASE UNCHANGED vars
    BY <1>12 DEF vars, SetInv, Name, IsOn
  <1>13. QED
    BY <1>1, <1>2, <1>3, <1>4, <1>5, <1>6, <1>7, <1>8, <1>9, <1>10, <1>11, <1>12,
       SwitchWritten, SwitchRecorded
    DEF Next, CfgNext, GnssNext

\* When a request that sets the switches is answered and nobody else commanded the module
\* meanwhile, it has open exactly the messages that were asked for, but for that of
\* bd3cnav2 (comm_service.c:179-261, 267-275): for all requests and commands.
THEOREM AnswerMeansSet == Spec => []SetApplied
  <1>1. IInv /\ SetInv => SetApplied
    <2> SUFFICES ASSUME SetInv, pc[Rx] = "answer", req.kind = "set_sw", quiet
                 PROVE  /\ eph_sw = req.value
                        /\ \A sw \in Switches \ {"bd3cnav2"} : sw \in eph_sw <=> MessageOf[sw] \in dev
      BY DEF SetApplied
    <2>1. eph_sw = req.value /\ \A i \in 1 .. 8 : Name(i) \in dev <=> IsOn(i)
      BY DEF SetInv
    <2>2. ASSUME NEW sw \in Switches \ {"bd3cnav2"}
          PROVE  \E i \in 1 .. 8 : EphUpdates[i][1] = sw /\ EphUpdates[i][2] = MessageOf[sw]
      <3>1. sw \in {"bdxw", "bd2", "bd3", "gps", "gal", "glo", "bd3cnav3"}
        BY DEF Switches
      <3>2. \E i \in 1 .. 8 : EphUpdates[i][1] = sw
        BY <3>1 DEF EphUpdates
      <3>3. \A i \in 1 .. 8 : EphUpdates[i][1] # "bd3cnav2" =>
              EphUpdates[i][2] = MessageOf[EphUpdates[i][1]]
        BY DEF EphUpdates, MessageOf
      <3>4. QED
        BY <3>1, <3>2, <3>3
    <2>3. QED
      BY <2>1, <2>2 DEF Name, IsOn
  <1>2. QED
    BY <1>1, InitInv, StepInv, SetInitInv, SetStepInv, PTL DEF Spec
==============================================================================
