---------------------------- MODULE GnssLogProofs ----------------------------
(***************************************************************************)
(* Proofs about GnssLog, for every set of types and every number of        *)
(* sentences, commands, faults and satellites.                             *)
(***************************************************************************)
EXTENDS GnssLog, TLAPS

\* The logs of sentences are logs, and the header functions know them.
LEMMA SentencesKnown ==
  /\ Sentences \subseteq Logs
  /\ \A l \in Sentences : Known(l) /\ l[1] # "ephb"
  BY DEF Sentences, Logs, Known

(***************************************************************************)
(* What follows from what was said of a log.  It is off in the             *)
(* configuration once it was said to be, so that only a piece whose test   *)
(* came before can still be written; while the console is at work on it,   *)
(* nothing is known of it.                                                 *)
(***************************************************************************)
ShapeInv == /\ config = [l \in Logs |-> config[l]]
            /\ \A l \in Logs : config[l] = [en |-> config[l].en, path |-> config[l].path]
            /\ told = [l \in Logs |-> told[l]]
            /\ late = [l \in Logs |-> late[l]]
            /\ console # "ready" =>
                 /\ command = [log |-> command.log, on |-> command.on, path |-> command.path]
                 /\ command.log \in Logs /\ command.on \in BOOLEAN

\* a test of the log found it on, and the piece is still to come
Pending(l) == gnss = "append" /\ LogOf(piece) = l

Busy(l) == console # "ready" /\ command.log = l

Silent(l) == ~config[l].en /\ (late[l] = 0 \/ (late[l] = 1 /\ ~Pending(l)))

LateInv == \A l \in Sentences : Busy(l) \/ (told[l].on /\ late[l] = 0) \/ (~told[l].on /\ Silent(l))

IInv == ShapeInv /\ LateInv

\* The invariant holds initially.
LEMMA InitInv == Init => IInv
  <1> SUFFICES ASSUME Init PROVE IInv
    OBVIOUS
  <1>1. /\ config = [l \in Logs |-> [en |-> FALSE, path |-> NoPath]]
        /\ told = [l \in Logs |-> [path |-> NoPath, on |-> FALSE]]
        /\ late = [l \in Logs |-> 0] /\ console = "ready"
    BY DEF Init, Nothing
  <1>2. ShapeInv
    BY <1>1 DEF ShapeInv
  <1>3. LateInv
    BY <1>1, SentencesKnown DEF LateInv, Silent
  <1>4. QED
    BY <1>2, <1>3 DEF IInv

\* A step of the GNSS thread that writes no piece, and begins none but one that was tested.
LEMMA NoPieceWritten ==
  ASSUME IInv, UNCHANGED <<config, consoleVars, late>>,
         \A l \in Sentences : Pending(l)' => Pending(l) \/ config[l].en
  PROVE  IInv'
  BY DEF IInv, ShapeInv, LateInv, Busy, Silent, consoleVars

\* The console says of a log that it is off, and it is.
LEMMA SaidOff ==
  ASSUME IInv, console # "ready", Say(command.log, FALSE, NoPath),
         \/ config' = [config EXCEPT ![command.log].en = FALSE]
         \/ command.log \notin Sentences /\ \E e \in BOOLEAN :
              config' = [config EXCEPT ![command.log].en = e]
         \/ command.log \notin Sentences /\ config' = config,
         UNCHANGED gnssVars
  PROVE  IInv'
  <1> DEFINE log == command.log
  <1>1. /\ console' = "ready" /\ log \in Logs
        /\ told' = [told EXCEPT ![log] = [on |-> FALSE, path |-> NoPath]]
        /\ late' = [late EXCEPT ![log] = 0]
    BY DEF Say, IInv, ShapeInv
  <1>2. /\ \A l \in Logs : /\ config'[l] = [en |-> config'[l].en, path |-> config[l].path]
                           /\ l # log => config'[l] = config[l]
        /\ config' = [l \in Logs |-> config'[l]]
        /\ log \in Sentences => ~config'[log].en
    BY <1>1 DEF IInv, ShapeInv
  <1>3. ShapeInv'
    BY <1>1, <1>2 DEF IInv, ShapeInv
  <1>4. ASSUME NEW l \in Sentences
        PROVE  Busy(l)' \/ (told'[l].on /\ late'[l] = 0) \/ (~told'[l].on /\ Silent(l)')
    <2>1. CASE l = log
      BY <1>1, <1>2, <2>1 DEF IInv, ShapeInv, Silent
    <2>2. CASE l # log
      <3>1. /\ config'[l] = config[l] /\ told'[l] = told[l] /\ late'[l] = late[l]
            /\ ~Busy(l)
        BY <1>1, <1>2, <2>2, SentencesKnown DEF IInv, ShapeInv, Busy
      <3>2. Pending(l)' = Pending(l)
        BY DEF Pending, LogOf, gnssVars
      <3>3. QED
        BY <3>1, <3>2 DEF IInv, LateInv, Silent
    <2>3. QED
      BY <2>1, <2>2
  <1>5. QED
    BY <1>3, <1>4 DEF IInv, LateInv

\* The console says of a log that it is on, and it is; or nobody writes to it.
LEMMA SaidOn ==
  ASSUME IInv, console # "ready", NEW path, Say(command.log, TRUE, path),
         \/ config' = [config EXCEPT ![command.log].en = TRUE]
         \/ config' = config,
         UNCHANGED gnssVars
  PROVE  IInv'
  <1> DEFINE log == command.log
  <1>1. /\ console' = "ready" /\ log \in Logs
        /\ told' = [told EXCEPT ![log] = [on |-> TRUE, path |-> path]]
        /\ late' = [late EXCEPT ![log] = 0]
    BY DEF Say, IInv, ShapeInv
  <1>2. /\ \A l \in Logs : /\ config'[l] = [en |-> config'[l].en, path |-> config'[l].path]
                           /\ l # log => config'[l] = config[l]
        /\ config' = [l \in Logs |-> config'[l]]
    BY <1>1 DEF IInv, ShapeInv
  <1>3. ShapeInv'
    BY <1>1, <1>2 DEF IInv, ShapeInv
  <1>4. ASSUME NEW l \in Sentences
        PROVE  Busy(l)' \/ (told'[l].on /\ late'[l] = 0) \/ (~told'[l].on /\ Silent(l)')
    <2>1. CASE l = log
      BY <1>1, <2>1 DEF IInv, ShapeInv
    <2>2. CASE l # log
      <3>1. /\ config'[l] = config[l] /\ told'[l] = told[l] /\ late'[l] = late[l]
            /\ ~Busy(l)
        BY <1>1, <1>2, <2>2, SentencesKnown DEF IInv, ShapeInv, Busy
      <3>2. Pending(l)' = Pending(l)
        BY DEF Pending, LogOf, gnssVars
      <3>3. QED
        BY <3>1, <3>2 DEF IInv, LateInv, Silent
    <2>3. QED
      BY <2>1, <2>2
  <1>5. QED
    BY <1>3, <1>4 DEF IInv, LateInv

\* A log is at work from its command on; its path is copied then.
LEMMA AtWork ==
  ASSUME IInv, UNCHANGED <<late, gnssVars>>,
         NEW log \in Logs, NEW on \in BOOLEAN, NEW path,
         console' # "ready", command' = [log |-> log, on |-> on, path |-> path],
         \/ console = "ready" /\ told' = [told EXCEPT ![log] = Nothing]
         \/ console # "ready" /\ told' = told /\ command.log = log,
         NEW there, config' = config \/ config' = [config EXCEPT ![log].path = there]
  PROVE  IInv'
  <1>1. /\ \A l \in Logs : /\ config'[l] = [en |-> config'[l].en, path |-> config'[l].path]
                           /\ l # log => config'[l] = config[l]
        /\ config' = [l \in Logs |-> config'[l]]
    BY DEF IInv, ShapeInv
  <1>2. ShapeInv'
    BY <1>1 DEF IInv, ShapeInv
  <1>3. ASSUME NEW l \in Sentences
        PROVE  Busy(l)' \/ (told'[l].on /\ late'[l] = 0) \/ (~told'[l].on /\ Silent(l)')
    <2>1. CASE l = log
      BY <2>1 DEF Busy
    <2>2. CASE l # log
      <3>1. told'[l] = told[l] /\ ~Busy(l) /\ config'[l] = config[l]
        BY <1>1, <2>2, SentencesKnown DEF IInv, ShapeInv, Busy
      <3>2. Pending(l)' = Pending(l)
        BY DEF Pending, LogOf, gnssVars
      <3>3. QED
        BY <3>1, <3>2 DEF IInv, LateInv, Silent
    <2>3. QED
      BY <2>1, <2>2
  <1>4. QED
    BY <1>2, <1>3 DEF IInv, LateInv

\* After a piece the next one has not been tested.
LEMMA PieceIsOver ==
  ASSUME NEW damage, PieceDone(damage)
  PROVE  gnss' # "append"
  BY DEF PieceDone

\* A piece is written to a log: the second since the log was said to be off would take
\* another test, which finds it off.
LEMMA PieceKeeps ==
  ASSUME IInv, AppendPiece
  PROVE  IInv'
  <1> DEFINE log == LogOf(piece)
  <1>1. /\ gnss = "append" /\ gnss' # "append" /\ UNCHANGED <<config, consoleVars>>
        /\ late' = [late EXCEPT ![log] = IF told[log].on THEN 0 ELSE @ + 1]
    BY PieceIsOver DEF AppendPiece
  <1>2. ShapeInv'
    BY <1>1 DEF IInv, ShapeInv, consoleVars
  <1>3. ASSUME NEW l \in Sentences
        PROVE  Busy(l)' \/ (told'[l].on /\ late'[l] = 0) \/ (~told'[l].on /\ Silent(l)')
    <2>1. /\ UNCHANGED <<config, told>> /\ Busy(l)' = Busy(l) /\ ~Pending(l)'
          /\ Pending(l) <=> l = log
      BY <1>1 DEF consoleVars, Busy, Pending
    <2>2. l = log => late'[l] = IF told[l].on THEN 0 ELSE late[l] + 1
      BY <1>1, SentencesKnown DEF IInv, ShapeInv
    <2>3. l # log => late'[l] = late[l]
      BY <1>1, SentencesKnown DEF IInv, ShapeInv
    <2>4. Busy(l) \/ (told[l].on /\ late[l] = 0) \/ (~told[l].on /\ Silent(l))
      BY DEF IInv, LateInv
    <2>5. CASE l = log
      BY <2>1, <2>2, <2>4, <2>5 DEF Silent
    <2>6. CASE l # log
      BY <2>1, <2>3, <2>4, <2>6 DEF Silent
    <2>7. QED
      BY <2>5, <2>6
  <1>4. QED
    BY <1>2, <1>3 DEF IInv, LateInv

\* Every step keeps the invariant.
LEMMA StepInv == IInv /\ [Next]_vars => IInv'
  <1> SUFFICES ASSUME IInv, [Next]_vars PROVE IInv'
    OBVIOUS
  <1>1. CASE Tick
    <2>1. UNCHANGED <<config, consoleVars, late, gnss, sentence, piece>>
      BY <1>1 DEF Tick, gnssVars
    <2>2. QED
      BY <2>1, NoPieceWritten DEF Pending, LogOf
  <1>2. ASSUME NEW log \in Logs, NEW on \in BOOLEAN, Command(log, on)
        PROVE  IInv'
    <2>1. /\ console = "ready" /\ console' = "sleep"
          /\ command' = [log |-> log, on |-> on, path |-> NoPath]
          /\ told' = [told EXCEPT ![log] = Nothing]
          /\ UNCHANGED <<config, late, gnssVars>>
      BY <1>2 DEF Command
    <2>2. QED
      BY ONLY IInv, <2>1, AtWork, on \in BOOLEAN, log \in Logs
  <1>3. CASE SwitchOff
    <2>1. /\ console # "ready" /\ Say(command.log, command.on, NoPath) /\ UNCHANGED gnssVars
          /\ ~command.on \/ ~Known(command.log)
          /\ config' = IF Known(command.log) THEN [config EXCEPT ![command.log].en = FALSE]
                                             ELSE config
          /\ command.on \in BOOLEAN
      BY <1>3 DEF SwitchOff, IInv, ShapeInv
    <2>2. CASE command.on = FALSE
      <3>1. Say(command.log, FALSE, NoPath)
        BY <2>1, <2>2
      <3>2. \/ config' = [config EXCEPT ![command.log].en = FALSE]
            \/ command.log \notin Sentences /\ config' = config
        BY <2>1, SentencesKnown
      <3>3. QED
        BY <2>1, <3>1, <3>2, SaidOff
    <2>3. CASE command.on = TRUE
      <3>1. Say(command.log, TRUE, NoPath)
        BY <2>1, <2>3
      <3>2. config' = config
        BY <2>1, <2>3
      <3>3. QED
        BY <2>1, <3>1, <3>2, SaidOn
    <2>4. QED
      BY <2>1, <2>2, <2>3
  <1>4. CASE CreateFails
    <2>1. /\ console # "ready" /\ Say(command.log, FALSE, NoPath) /\ UNCHANGED gnssVars
          /\ config' = [config EXCEPT ![command.log].en = (command.log[1] = "ephb")]
      BY <1>4 DEF CreateFails
    <2>2. (command.log[1] = "ephb") \in BOOLEAN
      OBVIOUS
    <2>3. \/ config' = [config EXCEPT ![command.log].en = FALSE]
          \/ command.log \notin Sentences /\ \E e \in BOOLEAN :
               config' = [config EXCEPT ![command.log].en = e]
      BY <2>1, <2>2, SentencesKnown
    <2>4. QED
      BY <2>1, <2>3, SaidOff
  <1>5. CASE CreateFile
    <2> DEFINE path == Path(command.log, clock)
    <2>1. /\ console = "sleep" /\ console' = "copy"
          /\ command' = [command EXCEPT !.path = path]
          /\ told' = told /\ UNCHANGED <<config, late, gnssVars>>
      BY <1>5 DEF CreateFile
    <2>2. /\ command.log \in Logs /\ command.on \in BOOLEAN
          /\ command' = [log |-> command.log, on |-> command.on, path |-> path]
      BY <2>1 DEF IInv, ShapeInv
    <2> HIDE DEF path
    <2>3. QED
      BY <2>1, <2>2, AtWork
  <1>6. CASE SwitchOn
    <2>1. /\ console # "ready" /\ Say(command.log, TRUE, command.path) /\ UNCHANGED gnssVars
          /\ config' = [config EXCEPT ![command.log].en = TRUE]
      BY <1>6 DEF SwitchOn
    <2>2. QED
      BY <2>1, SaidOn
  <1>7. CASE CopyPath
    <2>1. /\ console = "copy" /\ console' = "enable"
          /\ config' = [config EXCEPT ![command.log].path = command.path]
          /\ told' = told /\ UNCHANGED <<late, gnssVars>> /\ command' = command
      BY <1>7 DEF CopyPath
    <2>2. /\ command.log \in Logs /\ command.on \in BOOLEAN
          /\ command' = [log |-> command.log, on |-> command.on, path |-> command.path]
      BY <2>1 DEF IInv, ShapeInv
    <2>3. QED
      BY <2>1, <2>2, AtWork
  <1>8. ASSUME NEW s \in Sentence, HandleSentence(s)
        PROVE  IInv'
    <2>1. UNCHANGED <<config, consoleVars, late>> /\ gnss' = "test"
      BY <1>8 DEF HandleSentence
    <2>2. QED
      BY <2>1, NoPieceWritten DEF Pending
  <1>9. CASE TestLog
    <2>1. /\ UNCHANGED <<config, consoleVars, late>>
          /\ gnss' = "append" => config[LogOf(piece)].en /\ UNCHANGED <<sentence, piece>>
      BY <1>9, PieceIsOver DEF TestLog
    <2>2. \A l \in Sentences : Pending(l)' => config[l].en
      BY <2>1 DEF Pending, LogOf
    <2>3. QED
      BY <2>1, <2>2, NoPieceWritten
  <1>10. CASE AppendPiece
    BY <1>10, PieceKeeps
  <1>11. CASE AppendFails
    <2>1. UNCHANGED <<config, consoleVars, late>> /\ gnss' # "append"
      BY <1>11, PieceIsOver DEF AppendFails
    <2>2. QED
      BY <2>1, NoPieceWritten DEF Pending
  <1>12. CASE HandleRmc
    <2>1. UNCHANGED <<config, consoleVars, late>> /\ gnss' = "idle"
      BY <1>12 DEF HandleRmc
    <2>2. QED
      BY <2>1, NoPieceWritten DEF Pending
  <1>13. CASE UNCHANGED vars
    <2>1. UNCHANGED <<config, consoleVars, late, gnss, sentence, piece>>
      BY <1>13 DEF vars, gnssVars
    <2>2. QED
      BY <2>1, NoPieceWritten DEF Pending, LogOf
  <1>14. QED
    BY <1>1, <1>2, <1>3, <1>4, <1>5, <1>6, <1>7, <1>8, <1>9, <1>10, <1>11, <1>12, <1>13
    DEF Next, Console, Gnss

\* Whatever the console and the GNSS thread do, at most one piece of a sentence is written
\* to a log after the console said that it is off (gnss_nmea.c:98-109, 175-205).
THEOREM AtMostOneLatePiece == Spec => []OneLatePiece
  <1>1. IInv => OneLatePiece
    BY DEF IInv, LateInv, OneLatePiece, Busy, Silent
  <1>2. QED
    BY <1>1, InitInv, StepInv, PTL DEF Spec

(***************************************************************************)
(* What the files have.  The console says of a log that it is on when the  *)
(* path is in place and en set, so that from then on every test finds it   *)
(* on and every piece goes to the file that was named; and nobody empties  *)
(* that file before the next command for the log.                          *)
(***************************************************************************)
Entry == [line: Nat, piece: Nat, of: Nat]

Has(fs, path, n) == path \in DOMAIN fs /\ \E i \in 1 .. Len(fs[path]) : fs[path][i].line = n

\* the sentence in hand has had the first of its pieces for the log
Begun(l) == /\ gnss \in {"test", "append"} /\ l[2] = sentence.type
            /\ piece >= IF l[1] = "nmea" THEN 1 ELSE 2

FilesInv == /\ files = [p \in DOMAIN files |-> files[p]]
            /\ \A p \in DOMAIN files : files[p] \in Seq(Entry)
            /\ due = [l \in Logs |-> due[l]]
            /\ lines \in Nat /\ piece \in Nat
            /\ gnss \in {"test", "append"} => sentence \in Sentence
            /\ console \in {"copy", "enable"} => command.path[1] = command.log
            /\ console = "enable" => config[command.log].path = command.path

OnInv == \A l \in Sentences :
           /\ Busy(l) => ~told[l].on /\ due[l] = {}
           /\ told[l].on => /\ config[l].en = TRUE /\ config[l].path = told[l].path
                            /\ told[l].path[1] = l

HasInv == \A l \in Sentences : told[l].on =>
            /\ \A n \in due[l] : Has(files, told[l].path, n)
            /\ Begun(l) /\ <<l[1], lines>> \notin torn => Has(files, told[l].path, lines)

CompleteInv == FilesInv /\ OnInv /\ HasInv

\* Every sentence has a piece besides itself.
LEMMA SomePiece ==
  ASSUME NEW s \in Sentence
  PROVE  Pieces(s) \in Nat \ {0}
  <1>1. s.sats \in Nat /\ s.type \in Types
    BY LogAssumption DEF Sentence
  <1>2. s.type \in {"gbs", "gga", "gll", "gsa", "gst", "gsv", "rmc", "vtg", "zda"}
    BY <1>1, LogAssumption
  <1>3. CASE s.type \in {"rmc", "gga", "gll"}
    <2>1. s.type \in DOMAIN PositionPieces /\ PositionPieces[s.type] \in Nat \ {0}
      BY <1>3 DEF PositionPieces
    <2>2. Pieces(s) = PositionPieces[s.type]
      BY <1>3, <2>1 DEF Pieces, OtherPieces
    <2>3. QED
      BY <2>1, <2>2
  <1>4. CASE s.type \in {"gsa", "gsv"}
    <2>1. SatellitePieces(s.sats)[s.type] \in Nat \ {0}
      BY <1>1, <1>4 DEF SatellitePieces
    <2>2. Pieces(s) = SatellitePieces(s.sats)[s.type]
      BY <1>4 DEF Pieces, PositionPieces, OtherPieces
    <2>3. QED
      BY <2>1, <2>2
  <1>5. CASE s.type \in {"vtg", "zda", "gbs", "gst"}
    <2>1. s.type \in DOMAIN OtherPieces /\ OtherPieces[s.type] \in Nat \ {0}
      BY <1>5 DEF OtherPieces
    <2>2. Pieces(s) = OtherPieces[s.type]
      BY <1>5, <2>1 DEF Pieces, PositionPieces
    <2>3. QED
      BY <2>1, <2>2
  <1>6. QED
    BY <1>2, <1>3, <1>4, <1>5

\* Its pieces go to the logs of its type.
LEMMA LogOfPiece ==
  ASSUME sentence \in Sentence
  PROVE  /\ LogOf(piece) \in Sentences /\ LogOf(piece)[2] = sentence.type
         /\ LogOf(piece)[1] = IF piece = 0 THEN "nmea" ELSE "nmea_ex"
         /\ \A l \in Sentences : l[2] = sentence.type /\ l[1] = LogOf(piece)[1] => l = LogOf(piece)
         /\ \A l \in Sentences : l[1] \in {"nmea", "nmea_ex"}
  BY DEF Sentence, LogOf, Sentences

\* The invariant holds initially.
LEMMA CompleteInit == Init => CompleteInv
  <1> SUFFICES ASSUME Init PROVE CompleteInv
    OBVIOUS
  <1>1. /\ files = <<>> /\ due = [l \in Logs |-> {}] /\ lines = 0 /\ piece = 0
        /\ gnss = "idle" /\ console = "ready" /\ told = [l \in Logs |-> Nothing]
    BY DEF Init
  <1>2. DOMAIN files = {} /\ files = [p \in DOMAIN files |-> files[p]]
    BY <1>1
  <1>3. FilesInv
    BY <1>1, <1>2 DEF FilesInv
  <1>4. OnInv /\ HasInv
    BY <1>1, SentencesKnown DEF OnInv, HasInv, Busy, Nothing
  <1>5. QED
    BY <1>3, <1>4 DEF CompleteInv

\* A piece is over: if its log has it, or it was disturbed, nothing is missing.
LEMMA PieceComplete ==
  ASSUME IInv, CompleteInv, FilesInv', NEW damage, PieceDone(damage),
         gnss \in {"test", "append"}, UNCHANGED <<config, consoleVars, lines>>,
         \A path, n : Has(files, path, n) => Has(files', path, n),
         told[LogOf(piece)].on /\ <<LogOf(piece)[1], lines>> \notin torn'
           => Has(files', told[LogOf(piece)].path, lines)
  PROVE  CompleteInv'
  <1>1. /\ sentence \in Sentence /\ piece \in Nat /\ due = [l \in Logs |-> due[l]]
        /\ UNCHANGED <<told, console, command>>
    BY DEF CompleteInv, FilesInv, consoleVars
  <1>2. torn \subseteq torn'
    BY DEF PieceDone
  <1>3. \A l \in Sentences : /\ due'[l] \subseteq due[l] \cup {lines}
                             /\ ~told[l].on => due'[l] = due[l]
    BY <1>1, SentencesKnown DEF PieceDone
  <1>4. OnInv'
    BY <1>1, <1>3 DEF CompleteInv, OnInv, Busy
  <1>5. ASSUME NEW l \in Sentences, told[l].on, l[2] = sentence.type, <<l[1], lines>> \notin torn',
               l[1] = "nmea" \/ piece >= 1
        PROVE  Has(files', told[l].path, lines)
    <2>1. CASE l = LogOf(piece)
      BY <1>5, <2>1
    <2>2. CASE l # LogOf(piece)
      <3>1. Begun(l)
        BY <1>1, <1>5, <2>2, LogOfPiece DEF Begun
      <3>2. <<l[1], lines>> \notin torn
        BY <1>2, <1>5
      <3>3. QED
        BY <1>5, <3>1, <3>2 DEF CompleteInv, HasInv
    <2>3. QED
      BY <2>1, <2>2
  <1>6. ASSUME NEW l \in Sentences, told[l].on, NEW n \in due'[l]
        PROVE  Has(files', told[l].path, n)
    <2>1. CASE n \in due[l]
      BY <1>6, <2>1 DEF CompleteInv, HasInv
    <2>2. CASE n \notin due[l]
      <3>1. /\ n = lines /\ l[2] = sentence.type /\ <<l[1], lines>> \notin torn'
            /\ ~(piece < Pieces(sentence))
        BY <1>1, <1>6, <2>2, SentencesKnown DEF PieceDone
      <3>2. piece >= 1
        BY <1>1, <3>1, SomePiece
      <3>3. QED
        BY <1>5, <1>6, <3>1, <3>2
    <2>3. QED
      BY <2>1, <2>2
  <1>7. ASSUME NEW l \in Sentences, told[l].on, Begun(l)', <<l[1], lines>> \notin torn'
        PROVE  Has(files', told[l].path, lines)
    <2>1. sentence' = sentence /\ piece' = piece + 1
      BY <1>7 DEF PieceDone, Begun
    <2>2. l[2] = sentence.type /\ (l[1] = "nmea" \/ piece >= 1)
      BY <1>1, <1>7, <2>1 DEF Begun
    <2>3. QED
      BY <1>5, <1>7, <2>2
  <1>8. HasInv'
    BY <1>1, <1>6, <1>7 DEF HasInv
  <1>9. QED
    BY <1>4, <1>8 DEF CompleteInv

\* A step that begins no piece for a log, and takes nothing from its file, owes it no more.
LEMMA NothingOwed ==
  ASSUME CompleteInv, FilesInv', UNCHANGED <<config, consoleVars, due>>, torn \subseteq torn',
         \A path, n : Has(files, path, n) => Has(files', path, n),
         \A l \in Sentences : Begun(l)' => Begun(l) /\ lines' = lines
  PROVE  CompleteInv'
  <1>1. UNCHANGED <<told, console, command>>
    BY DEF consoleVars
  <1>2. OnInv'
    BY <1>1 DEF CompleteInv, OnInv, Busy
  <1>3. HasInv'
    BY <1>1 DEF CompleteInv, HasInv
  <1>4. QED
    BY <1>2, <1>3 DEF CompleteInv

\* A log is said to be off, or to be on when its path is in place and en set: then it is
\* owed nothing of the sentence in hand.
LEMMA SaidComplete ==
  ASSUME IInv, CompleteInv, FilesInv', console # "ready", NEW on \in BOOLEAN, NEW path,
         Say(command.log, on, path), torn' = torn \cup Disturbed(command.log),
         UNCHANGED <<files, gnssVars, due>>,
         \A l \in Logs \ {command.log} : config'[l] = config[l],
         on = TRUE /\ command.log \in Sentences =>
           /\ config'[command.log].en = TRUE /\ config'[command.log].path = path
           /\ path[1] = command.log
  PROVE  CompleteInv'
  <1> DEFINE log == command.log
  <1>1. /\ console' = "ready" /\ log \in Logs /\ told = [l \in Logs |-> told[l]]
        /\ told' = [told EXCEPT ![log] = [on |-> on, path |-> path]]
        /\ UNCHANGED <<gnss, sentence, piece, lines>>
    BY DEF Say, IInv, ShapeInv, gnssVars
  <1>2. /\ told'[log] = [on |-> on, path |-> path]
        /\ \A l \in Logs \ {log} : told'[l] = told[l]
    BY <1>1
  <1>3. \A l \in Sentences : ~Busy(l)'
    BY <1>1 DEF Busy
  <1>4. \A l \in Sentences \ {log} : ~Busy(l) /\ Begun(l)' = Begun(l)
    BY <1>1 DEF Busy, Begun
  <1>5. ASSUME NEW l \in Sentences, l = log, Begun(l)'
        PROVE  <<l[1], lines>> \in torn'
    <2>1. gnss # "idle" /\ sentence.type = l[2]
      BY <1>1, <1>5 DEF Begun
    <2>2. QED
      BY <1>5, <2>1 DEF Disturbed
  <1>6. log \in Sentences => due[log] = {}
    BY DEF CompleteInv, OnInv, Busy
  <1> HIDE DEF log
  <1>7. ASSUME NEW l \in Sentences
        PROVE  told'[l].on => /\ config'[l].en = TRUE /\ config'[l].path = told'[l].path
                              /\ told'[l].path[1] = l
    <2>1. CASE l = log
      BY <1>2, <2>1 DEF log
    <2>2. CASE l # log
      BY <1>2, <2>2, SentencesKnown DEF CompleteInv, OnInv, log
    <2>3. QED
      BY <2>1, <2>2
  <1>8. OnInv'
    BY <1>3, <1>7 DEF OnInv
  <1>9. ASSUME NEW l \in Sentences, told'[l].on
        PROVE  /\ \A n \in due'[l] : Has(files', told'[l].path, n)
               /\ Begun(l)' /\ <<l[1], lines'>> \notin torn' => Has(files', told'[l].path, lines')
    <2>1. CASE l = log
      BY <1>1, <1>5, <1>6, <2>1
    <2>2. CASE l # log
      <3>1. told'[l] = told[l] /\ Begun(l)' = Begun(l)
        BY <1>2, <1>4, <2>2, SentencesKnown
      <3>2. /\ \A n \in due[l] : Has(files, told[l].path, n)
            /\ Begun(l) /\ <<l[1], lines>> \notin torn => Has(files, told[l].path, lines)
        BY <1>9, <3>1 DEF CompleteInv, HasInv
      <3>3. QED
        BY <1>1, <3>1, <3>2
    <2>3. QED
      BY <2>1, <2>2
  <1>10. HasInv'
    BY <1>9 DEF HasInv
  <1>11. QED
    BY <1>8, <1>10 DEF CompleteInv

\* A log that is at work is off for the time being, whatever becomes of its file.
LEMMA WorkComplete ==
  ASSUME IInv, CompleteInv, FilesInv', NEW log \in Logs, console' # "ready",
         UNCHANGED gnssVars, torn \subseteq torn', command'.log = log,
         log \in Sentences => ~told'[log].on /\ due'[log] = {},
         \A l \in Logs \ {log} : /\ told'[l] = told[l] /\ due'[l] = due[l] /\ ~Busy(l)
                                 /\ config'[l] = config[l],
         \A fpath, n : fpath[1] # log /\ Has(files, fpath, n) => Has(files', fpath, n)
  PROVE  CompleteInv'
  <1>1. UNCHANGED <<gnss, sentence, piece, lines>>
    BY DEF gnssVars
  <1>2. \A l \in Sentences : Busy(l)' => l = log
    BY DEF Busy
  <1>3. \A l \in Sentences : Begun(l)' = Begun(l)
    BY <1>1 DEF Begun
  <1>4. OnInv'
    BY <1>2, SentencesKnown DEF CompleteInv, OnInv
  <1>5. ASSUME NEW l \in Sentences, told'[l].on
        PROVE  /\ \A n \in due'[l] : Has(files', told'[l].path, n)
               /\ Begun(l)' /\ <<l[1], lines'>> \notin torn' => Has(files', told'[l].path, lines')
    <2>1. l # log /\ told'[l] = told[l] /\ due'[l] = due[l]
      BY <1>5, SentencesKnown
    <2>2. told[l].path[1] # log
      BY <1>5, <2>1 DEF CompleteInv, OnInv
    <2>3. /\ \A n \in due[l] : Has(files, told[l].path, n)
          /\ Begun(l) /\ <<l[1], lines>> \notin torn => Has(files, told[l].path, lines)
      BY <1>5, <2>1 DEF CompleteInv, HasInv
    <2>4. QED
      BY <1>1, <1>3, <2>1, <2>2, <2>3
  <1>6. HasInv'
    BY <1>5 DEF HasInv
  <1>7. QED
    BY <1>4, <1>6 DEF CompleteInv

\* The thread stays well-formed when a piece is over.
LEMMA PieceShape ==
  ASSUME FilesInv, NEW damage, PieceDone(damage), gnss \in {"test", "append"},
         UNCHANGED <<config, consoleVars, lines>>,
         files' = [p \in DOMAIN files' |-> files'[p]],
         \A p \in DOMAIN files' : files'[p] \in Seq(Entry)
  PROVE  FilesInv'
  <1>1. due' = [l \in Logs |-> due'[l]]
    BY DEF PieceDone, FilesInv
  <1>2. piece' \in Nat /\ (gnss' \in {"test", "append"} => sentence' \in Sentence)
    BY DEF PieceDone, FilesInv
  <1>3. QED
    BY <1>1, <1>2 DEF FilesInv, consoleVars

\* A file of one piece.
LEMMA OnePiece ==
  ASSUME NEW p \in Entry
  PROVE  <<p>> \in Seq(Entry) /\ Len(<<p>>) = 1 /\ <<p>>[1] = p
  OBVIOUS

\* A piece is written at the end of its file.
LEMMA AppendComplete ==
  ASSUME IInv, CompleteInv, AppendPiece
  PROVE  CompleteInv'
  <1> DEFINE log == LogOf(piece)
             path == config[log].path
             p == [line |-> lines, piece |-> piece, of |-> Pieces(sentence)]
  <1>1. /\ gnss = "append" /\ files' = Appended(path, p) /\ PieceDone({})
        /\ UNCHANGED <<config, consoleVars, lines>>
    BY DEF AppendPiece
  <1>2. sentence \in Sentence /\ p \in Entry /\ p.line = lines
    BY <1>1, SomePiece DEF CompleteInv, FilesInv, Entry
  <1>3. log \in Sentences
    BY <1>2, LogOfPiece
  <1>4. told[log].on => path = told[log].path
    BY <1>3 DEF CompleteInv, OnInv
  <1> HIDE DEF p, path, log
  <1>5. /\ DOMAIN files' = DOMAIN files \cup {path}
        /\ files' = [q \in DOMAIN files' |-> files'[q]]
        /\ \A q \in DOMAIN files : q # path => files'[q] = files[q]
        /\ path \in DOMAIN files => files'[path] = Append(files[path], p)
        /\ path \notin DOMAIN files => files'[path] = <<p>>
    BY <1>1 DEF Appended
  <1>6. \A q \in DOMAIN files : files[q] \in Seq(Entry)
    BY DEF CompleteInv, FilesInv
  <1>7. ASSUME NEW q \in DOMAIN files'
        PROVE  files'[q] \in Seq(Entry)
    <2>1. CASE q # path
      BY <1>5, <1>6, <2>1
    <2>2. CASE q = path /\ path \in DOMAIN files
      <3>1. files[path] \in Seq(Entry) /\ files'[q] = Append(files[path], p)
        BY <1>5, <1>6, <2>2
      <3>2. QED
        BY <1>2, <3>1
    <2>3. CASE q = path /\ path \notin DOMAIN files
      BY <1>2, <1>5, <2>3, OnePiece
    <2>4. QED
      BY <2>1, <2>2, <2>3
  <1>8. Has(files', path, lines)
    <2>1. CASE path \in DOMAIN files
      <3>1. files[path] \in Seq(Entry) /\ files'[path] = Append(files[path], p)
        BY <2>1, <1>5, <1>6
      <3>2. /\ Len(files'[path]) = Len(files[path]) + 1 /\ Len(files[path]) \in Nat
            /\ files'[path][Len(files[path]) + 1] = p
        BY <3>1, <1>2
      <3>3. QED
        BY <3>2, <1>2, <1>5 DEF Has
    <2>2. CASE path \notin DOMAIN files
      <3>1. Len(files'[path]) = 1 /\ files'[path][1] = p
        BY <2>2, <1>2, <1>5, OnePiece
      <3>2. QED
        BY <3>1, <1>2, <1>5 DEF Has
    <2>3. QED
      BY <2>1, <2>2
  <1>9. ASSUME NEW q, NEW n, Has(files, q, n)
        PROVE  Has(files', q, n)
    <2>1. PICK i \in 1 .. Len(files[q]) : files[q][i].line = n
      BY <1>9 DEF Has
    <2>2. q \in DOMAIN files /\ q \in DOMAIN files'
      BY <1>9, <1>5 DEF Has
    <2>3. CASE q = path
      <3>1. files[q] \in Seq(Entry) /\ files'[q] = Append(files[q], p)
        BY <2>2, <2>3, <1>5, <1>6
      <3>2. i \in 1 .. Len(files'[q]) /\ files'[q][i] = files[q][i]
        BY <2>1, <3>1, <1>2
      <3>3. QED
        BY <2>1, <2>2, <3>2 DEF Has
    <2>4. CASE q # path
      BY <2>1, <2>2, <2>4, <1>5 DEF Has
    <2>5. QED
      BY <2>3, <2>4
  <1>10. FilesInv'
    BY <1>1, <1>5, <1>7, PieceShape DEF CompleteInv
  <1>11. told[LogOf(piece)].on => Has(files', told[LogOf(piece)].path, lines)
    BY <1>4, <1>8 DEF log
  <1>12. QED
    BY <1>1, <1>9, <1>10, <1>11, PieceComplete

\* The file of a log that is at work is created, or emptied.
LEMMA CreateComplete ==
  ASSUME IInv, CompleteInv, CreateFile
  PROVE  CompleteInv'
  <1> DEFINE log == command.log
             path == Path(log, clock)
  <1>1. /\ console = "sleep" /\ console' = "copy" /\ command' = [command EXCEPT !.path = path]
        /\ files' = [p \in DOMAIN files \cup {path} |-> IF p = path THEN <<>> ELSE files[p]]
        /\ torn \subseteq torn' /\ UNCHANGED <<config, told, gnssVars, due>>
    BY DEF CreateFile
  <1>2. /\ log \in Logs /\ command'.log = log /\ command'.path = path
    BY <1>1 DEF IInv, ShapeInv
  <1>3. path[1] = log
    BY DEF Path
  <1> HIDE DEF path
  <1>4. FilesInv'
    <2>1. \A p \in DOMAIN files' : files'[p] \in Seq(Entry)
      BY <1>1 DEF CompleteInv, FilesInv
    <2>2. /\ files' = [p \in DOMAIN files' |-> files'[p]]
          /\ DOMAIN files' = DOMAIN files \cup {path}
      BY <1>1
    <2>3. command'.path[1] = command'.log
      BY <1>2, <1>3
    <2>4. QED
      BY <1>1, <2>1, <2>2, <2>3 DEF CompleteInv, FilesInv, gnssVars
  <1>5. \A q, n : q[1] # log /\ Has(files, q, n) => Has(files', q, n)
    BY <1>1, <1>3 DEF Has
  <1>6. \A l \in Logs \ {log} : ~Busy(l)
    BY DEF Busy
  <1>7. log \in Sentences => ~told[log].on /\ due[log] = {}
    BY <1>1 DEF CompleteInv, OnInv, Busy
  <1> HIDE DEF log
  <1>8. QED
    BY <1>1, <1>2, <1>4, <1>5, <1>6, <1>7, WorkComplete

\* The path of a log that is at work is set.
LEMMA CopyComplete ==
  ASSUME IInv, CompleteInv, CopyPath
  PROVE  CompleteInv'
  <1> DEFINE log == command.log
  <1>1. /\ console = "copy" /\ console' = "enable" /\ command' = command
        /\ config' = [config EXCEPT ![log].path = command.path]
        /\ torn \subseteq torn' /\ UNCHANGED <<files, told, gnssVars, due>>
    BY DEF CopyPath
  <1>2. log \in Logs
    BY <1>1 DEF IInv, ShapeInv
  <1>3. /\ config'[log].path = command.path
        /\ \A l \in Logs \ {log} : config'[l] = config[l]
    BY <1>1, <1>2 DEF IInv, ShapeInv
  <1>4. FilesInv'
    BY <1>1, <1>3 DEF CompleteInv, FilesInv, gnssVars
  <1>5. \A l \in Logs \ {log} : ~Busy(l)
    BY DEF Busy
  <1>6. log \in Sentences => ~told[log].on /\ due[log] = {}
    BY <1>1 DEF CompleteInv, OnInv, Busy
  <1> HIDE DEF log
  <1>7. /\ \A l \in Logs \ {log} : told'[l] = told[l] /\ due'[l] = due[l] /\ config'[l] = config[l]
        /\ log \in Sentences => ~told'[log].on /\ due'[log] = {}
    BY <1>1, <1>3, <1>6
  <1>8. command'.log = log
    BY <1>1 DEF log
  <1>9. QED
    BY <1>1, <1>2, <1>4, <1>5, <1>7, <1>8, WorkComplete

\* A command for a log: until it is over nothing is said of the log.
LEMMA CommandComplete ==
  ASSUME IInv, CompleteInv, NEW log \in Logs, NEW on \in BOOLEAN, Command(log, on)
  PROVE  CompleteInv'
  <1>1. /\ console = "ready" /\ console' = "sleep"
        /\ command' = [log |-> log, on |-> on, path |-> NoPath]
        /\ told' = [told EXCEPT ![log] = Nothing] /\ due' = [due EXCEPT ![log] = {}]
        /\ UNCHANGED <<config, files, gnssVars, torn>>
    BY DEF Command
  <1>2. /\ told'[log] = Nothing /\ due'[log] = {}
        /\ \A l \in Logs \ {log} : told'[l] = told[l] /\ due'[l] = due[l]
        /\ due' = [l \in Logs |-> due'[l]]
    BY <1>1 DEF IInv, ShapeInv, CompleteInv, FilesInv
  <1>3. FilesInv'
    BY <1>1, <1>2 DEF CompleteInv, FilesInv, gnssVars
  <1>4. \A l \in Logs : ~Busy(l)
    BY <1>1 DEF Busy
  <1>5. QED
    BY <1>1, <1>2, <1>3, <1>4, WorkComplete DEF Nothing

\* The end of a command.
LEMMA SayComplete ==
  ASSUME IInv, CompleteInv, SwitchOff \/ CreateFails \/ SwitchOn
  PROVE  CompleteInv'
  <1>1. /\ console # "ready" /\ torn' = torn \cup Disturbed(command.log)
        /\ UNCHANGED <<files, gnssVars, due>>
    BY DEF SwitchOff, CreateFails, SwitchOn
  <1>2. console' = "ready"
    BY DEF SwitchOff, CreateFails, SwitchOn, Say
  <1>3. FilesInv'
    BY <1>1, <1>2 DEF CompleteInv, FilesInv, gnssVars
  <1>4. \A l \in Logs \ {command.log} : config'[l] = config[l]
    BY DEF SwitchOff, CreateFails, SwitchOn, IInv, ShapeInv
  <1>5. command.log \in Logs /\ command.on \in BOOLEAN
    BY <1>1 DEF IInv, ShapeInv
  <1>6. CASE SwitchOff
    <2>1. Say(command.log, command.on, NoPath) /\ (~command.on \/ ~Known(command.log))
      BY <1>6 DEF SwitchOff
    <2>2. ~(command.on = TRUE /\ command.log \in Sentences)
      BY <2>1, SentencesKnown
    <2>3. QED
      BY <1>1, <1>3, <1>4, <1>5, <2>1, <2>2, SaidComplete
  <1>7. CASE CreateFails
    <2>1. Say(command.log, FALSE, NoPath)
      BY <1>7 DEF CreateFails
    <2>2. QED
      BY <1>1, <1>3, <1>4, <2>1, SaidComplete
  <1>8. CASE SwitchOn
    <2>1. /\ console = "enable" /\ Say(command.log, TRUE, command.path)
          /\ config' = [config EXCEPT ![command.log].en = TRUE]
      BY <1>8 DEF SwitchOn
    <2>2. config[command.log].path = command.path
      BY <2>1 DEF CompleteInv, FilesInv
    <2>3. config'[command.log].en = TRUE /\ config'[command.log].path = command.path
      <3>1. /\ config = [l \in Logs |-> config[l]]
            /\ \A l \in Logs : config[l] = [en |-> config[l].en, path |-> config[l].path]
        BY DEF IInv, ShapeInv
      <3>2. config'[command.log].en = TRUE
        BY <1>5, <2>1, <3>1
      <3>3. config'[command.log].path = config[command.log].path
        BY <1>5, <2>1, <3>1
      <3>4. QED
        BY <2>2, <3>2, <3>3
    <2>4. command.path[1] = command.log
      BY <2>1 DEF CompleteInv, FilesInv
    <2>5. QED
      BY <1>1, <1>3, <1>4, <2>1, <2>3, <2>4, SaidComplete
  <1>9. QED
    BY <1>6, <1>7, <1>8

\* A log that is off gets no piece, and one that is on does.
LEMMA TestComplete ==
  ASSUME IInv, CompleteInv, TestLog
  PROVE  CompleteInv'
  <1>1. gnss = "test" /\ UNCHANGED <<config, files, consoleVars, lines>>
    BY DEF TestLog
  <1>2. CASE config[LogOf(piece)].en
    <2>1. gnss' = "append" /\ UNCHANGED <<sentence, piece, due, torn>>
      BY <1>2 DEF TestLog
    <2>2. FilesInv'
      BY <1>1, <2>1 DEF CompleteInv, FilesInv, consoleVars
    <2>3. QED
      BY <1>1, <2>1, <2>2, NothingOwed DEF Begun
  <1>3. CASE ~config[LogOf(piece)].en
    <2>1. PieceDone({})
      BY <1>3 DEF TestLog
    <2>2. FilesInv'
      BY <1>1, <2>1, PieceShape DEF CompleteInv, FilesInv
    <2>3. LogOf(piece) \in Sentences
      BY <1>1, LogOfPiece DEF CompleteInv, FilesInv
    <2>4. ~told[LogOf(piece)].on
      BY <1>3, <2>3 DEF CompleteInv, OnInv
    <2>5. QED
      BY <1>1, <2>1, <2>2, <2>4, PieceComplete
  <1>4. QED
    BY <1>2, <1>3

\* Every step keeps the invariant.
LEMMA CompleteStep == IInv /\ CompleteInv /\ [Next]_vars => CompleteInv'
  <1> SUFFICES ASSUME IInv, CompleteInv, [Next]_vars PROVE CompleteInv'
    OBVIOUS
  <1>1. CASE Tick \/ UNCHANGED vars
    <2>1. UNCHANGED <<config, files, consoleVars, gnssVars, due, torn>>
      BY <1>1 DEF Tick, vars
    <2>2. FilesInv'
      BY <2>1 DEF CompleteInv, FilesInv, consoleVars, gnssVars
    <2>3. \A l \in Sentences : Begun(l)' = Begun(l)
      BY <2>1 DEF Begun, gnssVars
    <2>4. QED
      BY <2>1, <2>2, <2>3, NothingOwed DEF gnssVars
  <1>2. ASSUME NEW s \in Sentence, HandleSentence(s)
        PROVE  CompleteInv'
    <2>1. /\ sentence' = s /\ piece' = 0 /\ lines' = lines + 1
          /\ UNCHANGED <<config, files, consoleVars, due, torn>>
      BY <1>2 DEF HandleSentence
    <2>2. FilesInv'
      BY <2>1 DEF CompleteInv, FilesInv, consoleVars
    <2>3. \A l \in Sentences : ~Begun(l)'
      BY <2>1 DEF Begun
    <2>4. QED
      BY <2>1, <2>2, <2>3, NothingOwed
  <1>3. CASE HandleRmc
    <2>1. gnss' = "idle" /\ piece' = 0 /\ UNCHANGED <<config, files, consoleVars, lines, due, torn>>
      BY <1>3 DEF HandleRmc
    <2>2. FilesInv'
      BY <2>1 DEF CompleteInv, FilesInv, consoleVars
    <2>3. \A l \in Sentences : ~Begun(l)'
      BY <2>1 DEF Begun
    <2>4. QED
      BY <2>1, <2>2, <2>3, NothingOwed
  <1>4. CASE AppendFails
    <2>1. /\ gnss = "append" /\ PieceDone({<<LogOf(piece)[1], lines>>})
          /\ UNCHANGED <<config, files, consoleVars, lines>>
      BY <1>4 DEF AppendFails
    <2>2. <<LogOf(piece)[1], lines>> \in torn'
      BY <2>1 DEF PieceDone
    <2>3. FilesInv'
      BY <2>1, PieceShape DEF CompleteInv, FilesInv
    <2>4. QED
      BY <2>1, <2>2, <2>3, PieceComplete
  <1>5. QED
    BY <1>1, <1>2, <1>3, <1>4, CommandComplete, SayComplete, CreateComplete, CopyComplete,
       TestComplete, AppendComplete
    DEF Next, Console, Gnss

\* Nothing is meant for a log without a file: a log that is on, or a piece of which is under
\* way, has a path of its own.
NamedInv == /\ NoPath \notin DOMAIN files
            /\ \A l \in Sentences : config[l].en = TRUE \/ Pending(l) => config[l].path[1] = l

\* What is no path is no log's.
LEMMA NoPathIsNoLogs == \A l \in Logs : l # NoPath[1]
  BY DEF NoPath, Logs, Sentences

\* A command takes no path away, and sets en of a log with a path only.
LEMMA CommandNamed ==
  ASSUME IInv, CompleteInv, NamedInv, SwitchOff \/ CreateFails \/ CreateFile \/ CopyPath \/ SwitchOn
  PROVE  NamedInv'
  <1> DEFINE log == command.log
  <1>1. /\ console # "ready" /\ log \in Logs /\ UNCHANGED gnssVars
        /\ config = [l \in Logs |-> config[l]]
        /\ \A l \in Logs : config[l] = [en |-> config[l].en, path |-> config[l].path]
    BY DEF SwitchOff, CreateFails, CreateFile, CopyPath, SwitchOn, IInv, ShapeInv
  <1>2. \A l \in Sentences : Pending(l)' = Pending(l)
    BY <1>1 DEF Pending, LogOf, gnssVars
  <1>3. NoPath \notin DOMAIN files'
    <2>1. files' = files \/ DOMAIN files' = DOMAIN files \cup {Path(log, clock)}
      BY DEF SwitchOff, CreateFails, CreateFile, CopyPath, SwitchOn
    <2>2. Path(log, clock) # NoPath
      BY <1>1, NoPathIsNoLogs DEF Path
    <2>3. QED
      BY <2>1, <2>2 DEF NamedInv
  <1>4. /\ \A l \in Logs \ {log} : config'[l] = config[l]
        /\ \/ config'[log] = config[log]
           \/ config'[log].en # TRUE /\ config'[log].path = config[log].path
           \/ log \notin Sentences
           \/ config'[log].path = command.path /\ command.path[1] = log
    <2>1. CASE SwitchOff \/ CreateFails \/ CreateFile
      BY <1>1, <2>1, SentencesKnown DEF SwitchOff, CreateFails, CreateFile
    <2>2. CASE CopyPath
      BY <1>1, <2>2 DEF CopyPath, CompleteInv, FilesInv
    <2>3. CASE SwitchOn
      <3>1. config' = [config EXCEPT ![log].en = TRUE] /\ console = "enable"
        BY <2>3 DEF SwitchOn
      <3>2. config[log].path = command.path /\ command.path[1] = log
        BY <3>1 DEF CompleteInv, FilesInv
      <3>3. /\ \A l \in Logs \ {log} : config'[l] = config[l]
            /\ config'[log].path = config[log].path
        BY <1>1, <3>1
      <3>4. QED
        BY <3>2, <3>3
    <2>4. QED
      BY <2>1, <2>2, <2>3
  <1>5. ASSUME NEW l \in Sentences, config'[l].en = TRUE \/ Pending(l)'
        PROVE  config'[l].path[1] = l
    BY <1>2, <1>4, <1>5, SentencesKnown DEF NamedInv
  <1>6. QED
    BY <1>3, <1>5 DEF NamedInv

\* NamedInv is inductive.
LEMMA NamedStep == IInv /\ CompleteInv /\ NamedInv /\ [Next]_vars => NamedInv'
  <1> SUFFICES ASSUME IInv, CompleteInv, NamedInv, [Next]_vars PROVE NamedInv'
    OBVIOUS
  <1>1. CASE SwitchOff \/ CreateFails \/ CreateFile \/ CopyPath \/ SwitchOn
    BY <1>1, CommandNamed
  <1>2. ASSUME UNCHANGED <<config, files>>,
               \A l \in Sentences : Pending(l)' => Pending(l) \/ config[l].en = TRUE
        PROVE  NamedInv'
    BY <1>2 DEF NamedInv
  <1>3. CASE Tick \/ (\E log \in Logs, on \in BOOLEAN : Command(log, on)) \/ UNCHANGED vars
    <2>1. UNCHANGED <<config, files, gnss, sentence, piece>>
      BY <1>3 DEF Tick, Command, vars, gnssVars
    <2>2. QED
      BY <1>2, <2>1 DEF Pending, LogOf
  <1>4. CASE HandleRmc \/ \E s \in Sentence : HandleSentence(s)
    <2>1. UNCHANGED <<config, files>> /\ gnss' # "append"
      BY <1>4 DEF HandleRmc, HandleSentence
    <2>2. QED
      BY <1>2, <2>1 DEF Pending
  <1>5. CASE AppendFails
    <2>1. UNCHANGED <<config, files>> /\ gnss' # "append"
      BY <1>5, PieceIsOver DEF AppendFails
    <2>2. QED
      BY <1>2, <2>1 DEF Pending
  <1>6. CASE TestLog
    <2>1. /\ UNCHANGED <<config, files>>
          /\ gnss' = "append" => config[LogOf(piece)].en = TRUE /\ UNCHANGED <<sentence, piece>>
      BY <1>6, PieceIsOver DEF TestLog
    <2>2. QED
      BY <1>2, <2>1 DEF Pending, LogOf
  <1>7. CASE AppendPiece
    <2>1. /\ config' = config /\ gnss = "append" /\ gnss' # "append"
          /\ DOMAIN files' = DOMAIN files \cup {config[LogOf(piece)].path}
      BY <1>7, PieceIsOver DEF AppendPiece, Appended
    <2>2. LogOf(piece) \in Sentences
      BY <2>1, LogOfPiece DEF CompleteInv, FilesInv
    <2>3. config[LogOf(piece)].path[1] = LogOf(piece)
      BY <2>1, <2>2 DEF NamedInv, Pending
    <2>4. NoPath \notin DOMAIN files'
      BY <2>1, <2>2, <2>3, NoPathIsNoLogs, SentencesKnown DEF NamedInv
    <2>5. QED
      BY <2>1, <2>4 DEF NamedInv, Pending
  <1>8. QED
    BY <1>1, <1>3, <1>4, <1>5, <1>6, <1>7 DEF Next, Console, Gnss

\* A log that the console said is on gets every sentence of its type in the file that was
\* named, and no piece is meant for a log without a file, unless the file cannot be opened or the log is switched while the sentence is
\* written (tty.c:230-260, gnss_nmea.c:98-147): for any sentences, commands and faults.
THEOREM LogsComplete == Spec => []ReportedComplete
  <1>1. CompleteInv /\ NamedInv => ReportedComplete
    BY DEF CompleteInv, HasInv, NamedInv, ReportedComplete, Has
  <1>2. Init => NamedInv
    <2>1. SUFFICES ASSUME Init PROVE NamedInv
      OBVIOUS
    <2>2. /\ config = [l \in Logs |-> [en |-> FALSE, path |-> NoPath]]
          /\ DOMAIN files = {} /\ gnss = "idle"
      BY <2>1 DEF Init
    <2>3. QED
      BY <2>2, SentencesKnown DEF NamedInv, Pending
  <1>3. QED
    BY <1>1, <1>2, InitInv, StepInv, CompleteInit, CompleteStep, NamedStep, PTL DEF Spec

(***************************************************************************)
(* Lines are whole.  While a sentence is written to a log that is not      *)
(* switched, its last piece is the last item of the log's file, so that    *)
(* the next one goes behind it.                                            *)
(***************************************************************************)
\* the log of the decoded sentence in hand
ExLog == <<"nmea_ex", sentence.type>>
InLine == gnss \in {"test", "append"}
Untorn(n) == <<"nmea_ex", n>> \notin torn

HasPrevious(fpath, i) ==
  LET p == files[fpath][i]
  IN  p.piece > 1 => /\ i - 1 \in 1 .. Len(files[fpath])
                     /\ files[fpath][i - 1] = [p EXCEPT !.piece = p.piece - 1]

HasNext(fpath, i) ==
  LET p == files[fpath][i]
  IN  /\ i + 1 \in 1 .. Len(files[fpath])
      /\ files[fpath][i + 1] = [p EXCEPT !.piece = p.piece + 1]

\* item i of the file is the last one, and the piece in hand goes behind it
Awaits(fpath, i) ==
  /\ InLine /\ files[fpath][i].line = lines /\ files[fpath][i].piece = piece - 1
  /\ i = Len(files[fpath]) /\ fpath = config[ExLog].path

PieceWhole(fpath, i) ==
  LET p == files[fpath][i]
  IN  Untorn(p.line) =>
        /\ HasPrevious(fpath, i)
        /\ p.piece < p.of => HasNext(fpath, i) \/ Awaits(fpath, i)
        /\ InLine /\ p.line = lines => p.of = Pieces(sentence) /\ config[ExLog].en

FilesWhole ==
  \A fpath \in DOMAIN files : fpath[1][1] = "nmea_ex" =>
    \A i \in 1 .. Len(files[fpath]) :
      /\ files[fpath][i].line <= lines /\ files[fpath][i].piece >= 1
      /\ PieceWhole(fpath, i)

\* the piece before the one in hand is the last item of the file
PieceBefore ==
  LET path == config[ExLog].path
  IN  /\ path \in DOMAIN files /\ files[path] # <<>>
      /\ files[path][Len(files[path])] =
           [line |-> lines, piece |-> piece - 1, of |-> Pieces(sentence)]

InHandInv ==
  InLine /\ Untorn(lines) =>
    /\ gnss = "append" /\ piece >= 1 => config[ExLog].en
    /\ config[ExLog].en /\ piece >= 2 => PieceBefore

PathInv == \A l \in Sentences : config[l].path = NoPath \/ config[l].path[1] = l

WholeInv == PathInv /\ InHandInv /\ FilesWhole

\* A step that writes no piece of a decoded sentence: the files are as before, or emptied.
LEMMA FilesKept ==
  ASSUME FilesInv, FilesInv', FilesWhole, torn \subseteq torn', lines <= lines',
         \A q \in DOMAIN files' : q[1][1] = "nmea_ex" =>
           files'[q] = <<>> \/ (q \in DOMAIN files /\ files'[q] = files[q]),
         \A q \in DOMAIN files : \A i \in 1 .. Len(files[q]) :
           /\ Awaits(q, i) /\ <<"nmea_ex", lines>> \notin torn' /\ config[ExLog].en
           /\ files[q][i].piece >= 1
           /\ q \in DOMAIN files'
           => Awaits(q, i)',
         InLine' /\ <<"nmea_ex", lines'>> \notin torn' =>
           \/ lines < lines'
           \/ /\ InLine /\ lines' = lines /\ sentence' = sentence
              /\ config[ExLog].en => config'[ExLog].en
  PROVE  FilesWhole'
  <1> SUFFICES ASSUME NEW q \in DOMAIN files', q[1][1] = "nmea_ex", NEW i \in 1 .. Len(files'[q])
               PROVE  /\ files'[q][i].line <= lines' /\ files'[q][i].piece >= 1
                      /\ PieceWhole(q, i)'
    BY DEF FilesWhole
  <1>1. q \in DOMAIN files /\ files'[q] = files[q]
    <2>1. files'[q] # <<>>
      OBVIOUS
    <2>2. QED
      BY <2>1
  <1> DEFINE p == files[q][i]
  <1>2. /\ p \in Entry /\ p.line <= lines /\ p.piece >= 1 /\ PieceWhole(q, i)
    <2>1. i \in 1 .. Len(files[q]) /\ files[q] \in Seq(Entry)
      BY <1>1 DEF FilesInv
    <2>2. p \in Entry
      BY <2>1
    <2>3. p.line <= lines /\ p.piece >= 1 /\ PieceWhole(q, i)
      BY <1>1, <2>1 DEF FilesWhole
    <2>4. QED
      BY <2>2, <2>3
  <1>3. p.line <= lines'
    <2>1. p.line \in Nat /\ lines \in Nat /\ lines' \in Nat
      BY <1>2 DEF Entry, FilesInv
    <2> HIDE DEF p
    <2>2. QED
      BY <1>2, <2>1
  <1>4. ASSUME <<"nmea_ex", p.line>> \notin torn'
        PROVE  /\ HasPrevious(q, i)'
               /\ p.piece < p.of => HasNext(q, i)' \/ Awaits(q, i)'
               /\ InLine' /\ p.line = lines' => p.of = Pieces(sentence') /\ config'[ExLog'].en
    <2>1. Untorn(p.line)
      BY <1>4 DEF Untorn
    <2>2. /\ HasPrevious(q, i)
          /\ p.piece < p.of => HasNext(q, i) \/ Awaits(q, i)
          /\ InLine /\ p.line = lines => p.of = Pieces(sentence) /\ config[ExLog].en
      BY <1>2, <2>1 DEF PieceWhole
    <2>3. HasPrevious(q, i)' /\ (HasNext(q, i) => HasNext(q, i)')
      BY <1>1, <2>2 DEF HasPrevious, HasNext
    <2>4. Awaits(q, i) => Awaits(q, i)'
      <3>1. Awaits(q, i) => config[ExLog].en /\ p.line = lines
        BY <2>2 DEF Awaits
      <3>2. QED
        BY <1>1, <1>2, <1>4, <3>1
    <2>5. ASSUME InLine', p.line = lines'
          PROVE  p.of = Pieces(sentence') /\ config'[ExLog'].en
      <3>1. p.line <= lines /\ lines \in Nat /\ lines' \in Nat
        BY <1>2 DEF FilesInv
      <3>2. /\ InLine /\ lines' = lines /\ sentence' = sentence
            /\ config[ExLog].en => config'[ExLog].en
        BY <1>4, <2>5, <3>1
      <3>3. ExLog' = ExLog
        BY <3>2 DEF ExLog
      <3>4. QED
        BY <2>2, <2>5, <3>2, <3>3
    <2>6. QED
      BY <2>2, <2>3, <2>4, <2>5
  <1>5. PieceWhole(q, i)'
    BY <1>1, <1>4 DEF PieceWhole, Untorn
  <1>6. QED
    BY <1>1, <1>2, <1>3, <1>5
\* The sentence in hand has its own log.
LEMMA ExLogIs ==
  ASSUME FilesInv, InLine
  PROVE  /\ ExLog \in Sentences /\ ExLog \in Logs /\ ExLog[1] = "nmea_ex"
         /\ piece # 0 => LogOf(piece) = ExLog
         /\ piece = 0 => LogOf(piece)[1] = "nmea"
         /\ sentence \in Sentence /\ piece \in Nat /\ Pieces(sentence) \in Nat \ {0}
  <1>1. sentence \in Sentence /\ piece \in Nat
    BY DEF FilesInv, InLine
  <1>2. sentence.type \in Types
    BY <1>1 DEF Sentence
  <1>3. QED
    BY <1>1, <1>2, SomePiece, SentencesKnown DEF ExLog, Sentences, LogOf

\* A log that is switched is not that of the sentence in hand, or else tears it.
LEMMA SwitchTears ==
  ASSUME InLine, torn' = torn \cup Disturbed(command.log), <<"nmea_ex", lines>> \notin torn'
  PROVE  command.log # ExLog /\ Untorn(lines)
  <1>1. ASSUME command.log = ExLog
        PROVE  FALSE
    BY <1>1 DEF InLine, Disturbed, ExLog
  <1>2. QED
    BY <1>1 DEF Untorn

\* A command of the console for a log: its file may be emptied, its path set.
LEMMA SwitchWhole ==
  ASSUME FilesInv, FilesInv', WholeInv, UNCHANGED gnssVars, command.log \in Logs,
         torn' = torn \cup Disturbed(command.log),
         \A l \in Logs \ {command.log} : config'[l] = config[l],
         \/ config'[command.log].path = config[command.log].path
         \/ config'[command.log].path[1] = command.log,
         DOMAIN files \subseteq DOMAIN files',
         \A q \in DOMAIN files' : \/ q \in DOMAIN files /\ files'[q] = files[q]
                                  \/ q[1] = command.log /\ files'[q] = <<>>
  PROVE  WholeInv'
  <1>1. UNCHANGED <<gnss, sentence, piece, lines>> /\ InLine' = InLine /\ ExLog' = ExLog
    BY DEF gnssVars, InLine, ExLog
  <1>2. PathInv'
    BY SentencesKnown DEF WholeInv, PathInv
  <1>3. ASSUME InLine, <<"nmea_ex", lines>> \notin torn'
        PROVE  /\ config'[ExLog] = config[ExLog] /\ Untorn(lines)
               /\ \A q \in DOMAIN files : q = config[ExLog].path => files'[q] = files[q]
    <2>1. command.log # ExLog /\ Untorn(lines)
      BY <1>3, SwitchTears
    <2>2. ExLog \in Sentences /\ ExLog \in Logs
      BY <1>3, ExLogIs
    <2>3. config'[ExLog] = config[ExLog]
      BY <2>1, <2>2
    <2>4. ASSUME NEW q \in DOMAIN files, q = config[ExLog].path
          PROVE  q[1] # command.log
      <3>1. q = NoPath \/ q[1] = ExLog
        BY <2>2, <2>4 DEF WholeInv, PathInv
      <3>2. <<"none", "none">> \notin Logs
        BY DEF Logs, Sentences
      <3>3. q # NoPath \/ q[1] = <<"none", "none">>
        BY DEF NoPath
      <3>4. QED
        BY <2>1, <3>1, <3>2, <3>3
    <2>5. QED
      BY <2>1, <2>3, <2>4
  <1>4. InHandInv'
    <2>1. SUFFICES ASSUME InLine, <<"nmea_ex", lines>> \notin torn'
                   PROVE  /\ gnss = "append" /\ piece >= 1 => config'[ExLog].en
                          /\ config'[ExLog].en /\ piece >= 2 => PieceBefore'
      BY <1>1 DEF InHandInv, Untorn
    <2>2. /\ gnss = "append" /\ piece >= 1 => config[ExLog].en
          /\ config[ExLog].en /\ piece >= 2 => PieceBefore
      BY <1>3, <2>1 DEF WholeInv, InHandInv
    <2>3. PieceBefore => PieceBefore'
      BY <1>1, <1>3, <2>1 DEF PieceBefore
    <2>4. QED
      BY <1>3, <2>1, <2>2, <2>3
  <1>5. \A q \in DOMAIN files : \A i \in 1 .. Len(files[q]) :
          Awaits(q, i) /\ <<"nmea_ex", lines>> \notin torn' => Awaits(q, i)'
    BY <1>1, <1>3 DEF Awaits
  <1>6. FilesWhole'
    <2>1. /\ lines <= lines' /\ torn \subseteq torn' /\ FilesWhole
          /\ \A q \in DOMAIN files' : files'[q] = <<>> \/ (q \in DOMAIN files /\ files'[q] = files[q])
      BY <1>1 DEF WholeInv, FilesInv
    <2>2. InLine' /\ <<"nmea_ex", lines'>> \notin torn' =>
            \/ lines < lines'
            \/ /\ InLine /\ lines' = lines /\ sentence' = sentence
               /\ config[ExLog].en => config'[ExLog].en
      BY <1>1, <1>3
    <2>3. QED
      BY <1>5, <2>1, <2>2, FilesKept
  <1>7. QED
    BY <1>2, <1>4, <1>6 DEF WholeInv
\* What follows a piece: the next one, or the end of the sentence.
LEMMA NextPiece ==
  ASSUME FilesInv, InLine, NEW damage, PieceDone(damage)
  PROVE  /\ torn' = torn \cup damage /\ gnss' # "append"
         /\ InLine' <=> piece < Pieces(sentence)
         /\ InLine' => sentence' = sentence /\ piece' = piece + 1 /\ ExLog' = ExLog
  <1>1. CASE piece < Pieces(sentence)
    BY <1>1 DEF PieceDone, InLine, ExLog
  <1>2. CASE ~(piece < Pieces(sentence))
    BY <1>2 DEF PieceDone, InLine
  <1>3. QED
    BY <1>1, <1>2

\* A piece that is not written was not owed, or the sentence counts as torn.
LEMMA NotWritten ==
  ASSUME FilesInv, FilesInv', WholeInv, InLine, UNCHANGED <<config, files, lines>>,
         NEW damage, PieceDone(damage),
         piece >= 1 => <<"nmea_ex", lines>> \in torn' \/ ~config[ExLog].en
  PROVE  WholeInv'
  <1>1. /\ torn \subseteq torn' /\ gnss' # "append" /\ piece \in Nat
        /\ InLine' => sentence' = sentence /\ piece' = piece + 1 /\ ExLog' = ExLog
    BY NextPiece, ExLogIs
  <1>2. PathInv'
    BY DEF WholeInv, PathInv
  <1>3. InHandInv'
    BY <1>1 DEF InHandInv, Untorn
  <1>4. ASSUME NEW q \in DOMAIN files, NEW i \in 1 .. Len(files[q]), Awaits(q, i),
               <<"nmea_ex", lines>> \notin torn', config[ExLog].en, files[q][i].piece >= 1
        PROVE  FALSE
    BY <1>1, <1>4 DEF Awaits
  <1>5. FilesWhole'
    <2>1. lines <= lines' /\ FilesWhole
      BY DEF WholeInv, FilesInv
    <2>2. QED
      BY <1>1, <1>4, <2>1, FilesKept
  <1>6. QED
    BY <1>2, <1>3, <1>5 DEF WholeInv

\* p is the last item of the file, behind those there were; the other files are as before
PutLast(path, p) ==
  /\ DOMAIN files' = DOMAIN files \cup {path}
  /\ \A q \in DOMAIN files \ {path} : files'[q] = files[q]
  /\ files'[path] # <<>>
  /\ \E n \in Nat :
       /\ Len(files'[path]) = n + 1 /\ files'[path][n + 1] = p
       /\ path \notin DOMAIN files => n = 0
       /\ path \in DOMAIN files =>
            n = Len(files[path]) /\ \A i \in 1 .. n : files'[path][i] = files[path][i]

\* A piece goes to the end of its file.
LEMMA PieceAppended ==
  ASSUME FilesInv, NEW path, NEW p \in Entry, files' = Appended(path, p)
  PROVE  PutLast(path, p)
  <1>1. /\ DOMAIN files' = DOMAIN files \cup {path}
        /\ \A q \in DOMAIN files \ {path} : files'[q] = files[q]
        /\ path \in DOMAIN files => files'[path] = Append(files[path], p)
        /\ path \notin DOMAIN files => files'[path] = <<p>>
    BY DEF Appended
  <1>2. CASE path \in DOMAIN files
    <2>1. files[path] \in Seq(Entry) /\ files'[path] = Append(files[path], p)
      BY <1>1, <1>2 DEF FilesInv
    <2>2. /\ Len(files[path]) \in Nat /\ Len(files'[path]) = Len(files[path]) + 1
          /\ files'[path][Len(files[path]) + 1] = p
          /\ \A i \in 1 .. Len(files[path]) : files'[path][i] = files[path][i]
          /\ files'[path] # <<>>
      BY <2>1
    <2>3. QED
      BY <1>1, <1>2, <2>2 DEF PutLast
  <1>3. CASE path \notin DOMAIN files
    <2>1. Len(files'[path]) = 1 /\ files'[path][1] = p
      BY <1>1, <1>3, OnePiece
    <2>2. files'[path] # <<>>
      BY <2>1
    <2>3. 0 \in Nat /\ Len(files'[path]) = 0 + 1 /\ files'[path][0 + 1] = p
      BY <2>1
    <2>4. QED
      BY <1>1, <1>3, <2>2, <2>3 DEF PutLast
  <1>4. QED
    BY <1>2, <1>3
\* An item that was in a file keeps its neighbours, and the last one gets the next.
LEMMA OldPieces ==
  ASSUME FilesInv, WholeInv, AppendPiece, piece >= 1,
         NEW q \in DOMAIN files, q[1][1] = "nmea_ex", NEW i \in 1 .. Len(files[q])
  PROVE  /\ files'[q][i] = files[q][i] /\ files[q][i].line <= lines'
         /\ files[q][i].piece >= 1 /\ PieceWhole(q, i)'
  <1> DEFINE path == config[ExLog].path
             new == [line |-> lines, piece |-> piece, of |-> Pieces(sentence)]
             p == files[q][i]
  <1>1. /\ InLine /\ PieceDone({}) /\ UNCHANGED <<config, lines>> /\ LogOf(piece) = ExLog
        /\ files' = Appended(path, new) /\ new \in Entry
    <2>1. gnss = "append" /\ InLine
      BY DEF AppendPiece, InLine
    <2>2. LogOf(piece) = ExLog /\ new \in Entry
      BY <2>1, ExLogIs DEF Entry, FilesInv
    <2>3. QED
      BY <2>1, <2>2 DEF AppendPiece
  <1>2. /\ torn' = torn /\ (InLine' => sentence' = sentence /\ ExLog' = ExLog)
    BY <1>1, NextPiece
  <1>3. /\ p \in Entry /\ files[q] \in Seq(Entry) /\ p.line <= lines /\ p.piece >= 1
        /\ PieceWhole(q, i)
    <2>1. files[q] \in Seq(Entry)
      BY DEF FilesInv
    <2>2. QED
      BY <2>1 DEF WholeInv, FilesWhole
  <1> HIDE DEF path, new
  <1>4. /\ \A j \in 1 .. Len(files[q]) : files'[q][j] = files[q][j]
        /\ Len(files'[q]) \in Nat /\ Len(files[q]) \in Nat /\ Len(files[q]) <= Len(files'[q])
        /\ q = path => /\ Len(files'[q]) = Len(files[q]) + 1
                       /\ files'[q][Len(files[q]) + 1] = new
    <2> PutLast(path, new)
      BY <1>1, PieceAppended
    <2>1. CASE q = path
      <3>1. \E n \in Nat :
              /\ Len(files'[path]) = n + 1 /\ files'[path][n + 1] = new
              /\ n = Len(files[path]) /\ \A j \in 1 .. n : files'[path][j] = files[path][j]
        BY <2>1 DEF PutLast
      <3>2. QED
        BY <2>1, <3>1
    <2>2. CASE q # path
      <3>1. files'[q] = files[q]
        BY <2>2 DEF PutLast
      <3>2. QED
        BY <1>3, <2>2, <3>1
    <2>3. QED
      BY <2>1, <2>2
  <1>5. ASSUME Untorn(p.line)
        PROVE  /\ HasPrevious(q, i)'
               /\ p.piece < p.of => HasNext(q, i)'
               /\ InLine' /\ p.line = lines => p.of = Pieces(sentence)' /\ config[ExLog'].en
    <2>1. /\ HasPrevious(q, i)
          /\ p.piece < p.of => HasNext(q, i) \/ Awaits(q, i)
          /\ p.line = lines => p.of = Pieces(sentence) /\ config[ExLog].en
      BY <1>1, <1>3, <1>5 DEF PieceWhole
    <2>2. HasPrevious(q, i)'
      BY <1>4, <2>1 DEF HasPrevious
    <2>3. HasNext(q, i) => HasNext(q, i)'
      BY <1>4 DEF HasNext
    <2>4. Awaits(q, i) => HasNext(q, i)'
      <3>1. SUFFICES ASSUME Awaits(q, i) PROVE HasNext(q, i)'
        OBVIOUS
      <3>2. /\ p.line = lines /\ p.piece = piece - 1 /\ i = Len(files[q]) /\ q = path
            /\ piece \in Nat
        BY <3>1, <1>1, ExLogIs DEF Awaits, path
      <3>3. p.of = Pieces(sentence)
        BY <2>1, <3>2
      <3>4. new = [p EXCEPT !.piece = p.piece + 1]
        BY <1>3, <3>2, <3>3 DEF Entry, new
      <3>5. i + 1 \in 1 .. Len(files'[q]) /\ files'[q][i + 1] = new
        BY <1>4, <3>2
      <3>6. files'[q][i] = p
        BY <1>4
      <3>7. QED
        BY <3>4, <3>5, <3>6 DEF HasNext
    <2>5. InLine' => Pieces(sentence)' = Pieces(sentence) /\ ExLog' = ExLog
      BY <1>2
    <2>6. QED
      BY <2>1, <2>2, <2>3, <2>4, <2>5
  <1>6. PieceWhole(q, i)'
    BY <1>1, <1>2, <1>4, <1>5 DEF PieceWhole, Untorn
  <1>7. QED
    BY <1>1, <1>3, <1>4, <1>6
\* The new item has the piece before it.
LEMMA NewPiece ==
  ASSUME FilesInv, WholeInv, AppendPiece, piece >= 1,
         NEW path, path = config[ExLog].path, NEW i \in 1 .. Len(files'[path]),
         path \in DOMAIN files => i \notin 1 .. Len(files[path])
  PROVE  files'[path][i].line <= lines' /\ files'[path][i].piece >= 1 /\ PieceWhole(path, i)'
  <1> DEFINE new == [line |-> lines, piece |-> piece, of |-> Pieces(sentence)]
  <1>1. /\ InLine /\ gnss = "append" /\ PieceDone({}) /\ UNCHANGED <<config, lines>>
        /\ files' = Appended(path, new) /\ new \in Entry /\ piece \in Nat /\ lines \in Nat
    <2>1. gnss = "append" /\ InLine
      BY DEF AppendPiece, InLine
    <2>2. LogOf(piece) = ExLog /\ new \in Entry /\ piece \in Nat /\ lines \in Nat
      BY <2>1, ExLogIs DEF Entry, FilesInv
    <2>3. QED
      BY <2>1, <2>2 DEF AppendPiece
  <1>2. /\ torn' = torn
        /\ InLine' <=> piece < Pieces(sentence)
        /\ InLine' => sentence' = sentence /\ piece' = piece + 1 /\ ExLog' = ExLog
    <2>1. InLine /\ PieceDone({})
      BY <1>1
    <2>2. /\ torn' = torn
          /\ InLine' => sentence' = sentence /\ piece' = piece + 1 /\ ExLog' = ExLog
      BY ONLY FilesInv, <2>1, NextPiece
    <2>3. InLine' <=> piece < Pieces(sentence)
      BY ONLY FilesInv, <2>1, NextPiece, Zenon
    <2>4. QED
      BY <2>2, <2>3
  <1>3. new.line = lines /\ new.piece = piece /\ new.of = Pieces(sentence)
    OBVIOUS
  <1>4. \A n : [new EXCEPT !.piece = n] = [line |-> lines, piece |-> n, of |-> Pieces(sentence)]
    OBVIOUS
  <1>5. Untorn(lines) => /\ config[ExLog].en
                         /\ piece >= 2 => PieceBefore
    BY <1>1 DEF WholeInv, InHandInv
  <1> HIDE DEF new
  <1>6. PutLast(path, new)
    BY <1>1, PieceAppended
  <1>7. i = Len(files'[path]) /\ files'[path][i] = new /\ i \in Nat
    BY <1>6 DEF PutLast
  <1>8. ASSUME Untorn(lines)
        PROVE  /\ HasPrevious(path, i)'
               /\ piece < Pieces(sentence) => Awaits(path, i)'
               /\ InLine' => new.of = Pieces(sentence)' /\ config[ExLog'].en
    <2>1. ASSUME piece > 1
          PROVE  i - 1 \in 1 .. Len(files'[path]) /\ files'[path][i - 1] = [new EXCEPT !.piece = piece - 1]
      <3>1. /\ path \in DOMAIN files /\ files[path] # <<>>
            /\ files[path][Len(files[path])] = [new EXCEPT !.piece = piece - 1]
        BY <1>1, <1>4, <1>5, <1>8, <2>1 DEF PieceBefore
      <3>2. files[path] \in Seq(Entry) /\ Len(files[path]) \in Nat /\ Len(files[path]) # 0
        BY <3>1 DEF FilesInv
      <3>3. /\ i = Len(files[path]) + 1
            /\ \A j \in 1 .. Len(files[path]) : files'[path][j] = files[path][j]
        BY <1>6, <1>7, <3>1 DEF PutLast
      <3>4. QED
        BY <1>7, <3>1, <3>2, <3>3
    <2>2. HasPrevious(path, i)'
      BY <1>3, <1>7, <2>1 DEF HasPrevious
    <2>3. ASSUME piece < Pieces(sentence)
          PROVE  Awaits(path, i)'
      <3>1. /\ InLine' /\ piece' - 1 = piece /\ config'[ExLog'].path = path /\ lines' = lines
        BY <1>1, <1>2, <2>3
      <3>2. QED
        BY <1>1, <1>3, <1>7, <3>1 DEF Awaits
    <2>4. InLine' => new.of = Pieces(sentence)' /\ config[ExLog'].en
      BY <1>2, <1>3, <1>5, <1>8
    <2>5. QED
      BY <2>2, <2>3, <2>4
  <1>9. PieceWhole(path, i)'
    BY <1>1, <1>2, <1>3, <1>7, <1>8 DEF PieceWhole, Untorn
  <1>10. QED
    BY <1>1, <1>3, <1>7, <1>9

\* A piece that is written goes behind the one before it.
LEMMA PieceWritten ==
  ASSUME FilesInv, FilesInv', WholeInv, AppendPiece
  PROVE  WholeInv'
  <1>1. gnss = "append" /\ InLine /\ UNCHANGED <<config, lines>> /\ PieceDone({})
    BY DEF AppendPiece, InLine
  <1>2. PathInv'
    BY <1>1 DEF WholeInv, PathInv
  <1>3. /\ torn' = torn /\ gnss' # "append"
        /\ InLine' => sentence' = sentence /\ piece' = piece + 1 /\ ExLog' = ExLog
    BY <1>1, NextPiece
  <1>4. /\ ExLog \in Sentences /\ piece \in Nat /\ sentence \in Sentence
        /\ Pieces(sentence) \in Nat /\ lines \in Nat
        /\ piece # 0 => LogOf(piece) = ExLog
        /\ piece = 0 => LogOf(piece)[1] = "nmea" /\ LogOf(piece) \in Sentences
    BY <1>1, ExLogIs, LogOfPiece DEF FilesInv
  <1> DEFINE new == [line |-> lines, piece |-> piece, of |-> Pieces(sentence)]
             path == config[LogOf(piece)].path
  <1>5. PutLast(path, new)
    <2>1. new \in Entry
      BY <1>4 DEF Entry
    <2>2. files' = Appended(path, new)
      BY DEF AppendPiece
    <2> HIDE DEF new, path
    <2>3. QED
      BY <2>1, <2>2, PieceAppended
  <1> HIDE DEF new
  <1>6. CASE piece = 0
    <2>1. path[1][1] # "nmea_ex"
      <3>1. path = NoPath \/ path[1] = LogOf(piece)
        BY <1>4, <1>6 DEF WholeInv, PathInv
      <3>2. QED
        BY <1>4, <1>6, <3>1 DEF NoPath
    <2> HIDE DEF path
    <2>2. \A q \in DOMAIN files' : q[1][1] = "nmea_ex" =>
            files'[q] = <<>> \/ (q \in DOMAIN files /\ files'[q] = files[q])
      BY <1>5, <2>1 DEF PutLast
    <2>3. \A q \in DOMAIN files : \A i \in 1 .. Len(files[q]) :
            Awaits(q, i) => ~(files[q][i].piece >= 1)
      BY <1>6 DEF Awaits
    <2>4. lines <= lines' /\ torn \subseteq torn' /\ FilesWhole
      BY <1>1, <1>3, <1>4 DEF WholeInv
    <2>5. InLine' /\ <<"nmea_ex", lines'>> \notin torn' =>
            \/ lines < lines'
            \/ /\ InLine /\ lines' = lines /\ sentence' = sentence
               /\ config[ExLog].en => config'[ExLog].en
      BY <1>1, <1>3
    <2>6. FilesWhole'
      BY <2>2, <2>3, <2>4, <2>5, FilesKept
    <2>7. InHandInv'
      BY <1>3, <1>6 DEF InHandInv
    <2>8. QED
      BY <1>2, <2>6, <2>7 DEF WholeInv
  <1>7. CASE piece # 0
    <2>1. path = config[ExLog].path /\ piece >= 1
      BY <1>4, <1>7
    <2> HIDE DEF path
    <2>2. ASSUME NEW q \in DOMAIN files', q[1][1] = "nmea_ex", NEW i \in 1 .. Len(files'[q])
          PROVE  /\ files'[q][i].line <= lines' /\ files'[q][i].piece >= 1
                 /\ PieceWhole(q, i)'
      <3>1. CASE q \in DOMAIN files /\ i \in 1 .. Len(files[q])
        <4>1. /\ files'[q][i] = files[q][i] /\ files[q][i].line <= lines'
              /\ files[q][i].piece >= 1 /\ PieceWhole(q, i)'
          BY <2>1, <2>2, <3>1, OldPieces
        <4>2. QED
          BY <4>1
      <3>2. CASE ~(q \in DOMAIN files /\ i \in 1 .. Len(files[q]))
        <4>1. q = path
          BY <1>5, <2>2, <3>2 DEF PutLast
        <4>2. /\ i \in 1 .. Len(files'[config[ExLog].path])
              /\ config[ExLog].path \in DOMAIN files => i \notin 1 .. Len(files[config[ExLog].path])
          BY <2>1, <2>2, <3>2, <4>1
        <4>3. QED
          BY <2>1, <4>1, <4>2, NewPiece
      <3>3. QED
        BY <3>1, <3>2
    <2>3. FilesWhole'
      BY <2>2 DEF FilesWhole
    <2>4. ASSUME InLine'
          PROVE  PieceBefore'
      <3>1. /\ path \in DOMAIN files' /\ files'[path] # <<>>
            /\ files'[path][Len(files'[path])] = new
        BY <1>5 DEF PutLast
      <3>2. /\ config'[ExLog'].path = path /\ lines' = lines /\ piece' - 1 = piece
            /\ sentence' = sentence
        BY <1>1, <1>3, <1>4, <2>1, <2>4
      <3>3. QED
        BY <3>1, <3>2 DEF PieceBefore, new
    <2>5. InHandInv'
      BY <1>3, <2>4 DEF InHandInv
    <2>6. QED
      BY <1>2, <2>3, <2>5 DEF WholeInv
  <1>8. QED
    BY <1>6, <1>7
\* What the console does tears the sentence in hand, if it is to the same log.
LEMMA ConsoleWhole ==
  ASSUME IInv, FilesInv, FilesInv', WholeInv, console # "ready",
         SwitchOff \/ CreateFails \/ CreateFile \/ CopyPath \/ SwitchOn,
         console = "copy" => command.path[1] = command.log
  PROVE  WholeInv'
  <1>1. /\ UNCHANGED gnssVars /\ torn' = torn \cup Disturbed(command.log) /\ command.log \in Logs
        /\ config = [l \in Logs |-> config[l]]
        /\ \A l \in Logs : config[l] = [en |-> config[l].en, path |-> config[l].path]
    BY DEF SwitchOff, CreateFails, CreateFile, CopyPath, SwitchOn, IInv, ShapeInv
  <1>2. CASE SwitchOff \/ CreateFails \/ CopyPath \/ SwitchOn
    <2>1. files' = files
      BY <1>2 DEF SwitchOff, CreateFails, CopyPath, SwitchOn
    <2>2. \/ config' = config
          \/ \E en : config' = [config EXCEPT ![command.log].en = en]
          \/ /\ config' = [config EXCEPT ![command.log].path = command.path]
             /\ command.path[1] = command.log
      BY <1>2 DEF SwitchOff, CreateFails, CopyPath, SwitchOn
    <2>3. /\ \A l \in Logs \ {command.log} : config'[l] = config[l]
          /\ \/ config'[command.log].path = config[command.log].path
             \/ config'[command.log].path[1] = command.log
      <3>1. CASE config' = config
        BY <3>1
      <3>2. ASSUME NEW en, config' = [config EXCEPT ![command.log].en = en]
            PROVE  /\ \A l \in Logs \ {command.log} : config'[l] = config[l]
                   /\ config'[command.log].path = config[command.log].path
        BY <1>1, <3>2
      <3>3. CASE /\ config' = [config EXCEPT ![command.log].path = command.path]
                 /\ command.path[1] = command.log
        BY <1>1, <3>3
      <3>4. QED
        BY <2>2, <3>1, <3>2, <3>3
    <2>4. QED
      BY <1>1, <2>1, <2>3, SwitchWhole
  <1>3. CASE CreateFile
    <2> DEFINE path == Path(command.log, clock)
    <2>1. /\ config' = config
          /\ files' = [p \in DOMAIN files \cup {path} |-> IF p = path THEN <<>> ELSE files[p]]
      BY <1>3 DEF CreateFile
    <2>2. path[1] = command.log
      BY DEF Path
    <2> HIDE DEF path
    <2>3. /\ DOMAIN files \subseteq DOMAIN files'
          /\ \A q \in DOMAIN files' : \/ q \in DOMAIN files /\ files'[q] = files[q]
                                      \/ q[1] = command.log /\ files'[q] = <<>>
      BY <2>1, <2>2
    <2>4. QED
      BY <1>1, <2>1, <2>3, SwitchWhole
  <1>4. QED
    BY <1>2, <1>3

\* A step in which nothing of this changes.
LEMMA WholeUnchanged ==
  ASSUME FilesInv, FilesInv', WholeInv, UNCHANGED <<config, files, gnssVars, torn>>
  PROVE  WholeInv'
  <1>1. UNCHANGED <<gnss, sentence, piece, lines>>
    BY DEF gnssVars
  <1>2. PathInv'
    BY DEF WholeInv, PathInv
  <1>3. InHandInv'
    BY <1>1 DEF WholeInv, InHandInv, InLine, Untorn, ExLog, PieceBefore
  <1>4. FilesWhole'
    <2>1. /\ \A q \in DOMAIN files : \A i \in 1 .. Len(files[q]) : Awaits(q, i) => Awaits(q, i)'
          /\ InLine' = InLine
      BY <1>1 DEF Awaits, InLine, ExLog
    <2>2. lines <= lines' /\ FilesWhole
      BY <1>1 DEF FilesInv, WholeInv
    <2>3. ExLog' = ExLog
      BY <1>1 DEF ExLog
    <2>4. QED
      BY <1>1, <2>1, <2>2, <2>3, FilesKept
  <1>5. QED
    BY <1>2, <1>3, <1>4 DEF WholeInv

\* The thread takes a sentence, or is done with one.
LEMMA OtherLine ==
  ASSUME FilesInv, FilesInv', WholeInv, ~InLine, UNCHANGED <<config, files, torn>>,
         \/ InLine' /\ gnss' = "test" /\ piece' = 0 /\ lines' = lines + 1
         \/ ~InLine' /\ lines' = lines
  PROVE  WholeInv'
  <1>1. PathInv'
    BY DEF WholeInv, PathInv
  <1>2. InHandInv'
    BY DEF InHandInv
  <1>3. \A q \in DOMAIN files : \A i \in 1 .. Len(files[q]) : ~Awaits(q, i)
    BY DEF Awaits
  <1>4. lines <= lines' /\ (InLine' => lines < lines') /\ FilesWhole
    BY DEF FilesInv, WholeInv
  <1>5. FilesWhole'
    BY <1>3, <1>4, FilesKept
  <1>6. QED
    BY <1>1, <1>2, <1>5 DEF WholeInv

\* The log of a piece is looked up.
LEMMA TestWhole ==
  ASSUME FilesInv, FilesInv', WholeInv, TestLog
  PROVE  WholeInv'
  <1>1. gnss = "test" /\ InLine /\ UNCHANGED <<config, files, lines>>
    BY DEF TestLog, InLine
  <1>2. piece \in Nat /\ (piece >= 1 => LogOf(piece) = ExLog)
    BY <1>1, ExLogIs
  <1>3. CASE config[LogOf(piece)].en
    <2>1. gnss' = "append" /\ InLine' /\ UNCHANGED <<sentence, piece, torn>>
      BY <1>3 DEF TestLog, InLine
    <2>2. PathInv'
      BY <1>1 DEF WholeInv, PathInv
    <2>3. InHandInv'
      BY <1>1, <1>2, <1>3, <2>1 DEF WholeInv, InHandInv, Untorn, ExLog, PieceBefore
    <2>4. FilesWhole'
      <3>1. /\ \A q \in DOMAIN files : \A i \in 1 .. Len(files[q]) : Awaits(q, i) => Awaits(q, i)'
            /\ ExLog' = ExLog
        BY <1>1, <2>1 DEF Awaits, ExLog
      <3>2. lines <= lines' /\ FilesWhole
        BY <1>1 DEF FilesInv, WholeInv
      <3>3. QED
        BY <1>1, <2>1, <3>1, <3>2, FilesKept
    <2>5. QED
      BY <2>2, <2>3, <2>4 DEF WholeInv
  <1>4. CASE ~config[LogOf(piece)].en
    <2>1. PieceDone({})
      BY <1>4 DEF TestLog
    <2>2. QED
      BY <1>1, <1>2, <1>4, <2>1, NotWritten
  <1>5. QED
    BY <1>3, <1>4

\* WholeInv holds initially.
LEMMA WholeInit == Init => WholeInv
  <1> SUFFICES ASSUME Init PROVE WholeInv
    OBVIOUS
  <1>1. /\ config = [l \in Logs |-> [en |-> FALSE, path |-> NoPath]]
        /\ DOMAIN files = {} /\ gnss = "idle"
    BY DEF Init
  <1>2. QED
    BY <1>1, SentencesKnown DEF WholeInv, PathInv, InHandInv, InLine, FilesWhole

\* WholeInv is inductive.
LEMMA WholeStep == IInv /\ CompleteInv /\ CompleteInv' /\ WholeInv /\ [Next]_vars => WholeInv'
  <1> SUFFICES ASSUME IInv, FilesInv, FilesInv', WholeInv, [Next]_vars PROVE WholeInv'
    BY DEF CompleteInv
  <1>1. CASE Tick \/ UNCHANGED vars
    BY <1>1, WholeUnchanged DEF Tick, vars
  <1>2. ASSUME NEW log \in Logs, NEW on \in BOOLEAN, Command(log, on)
        PROVE  WholeInv'
    BY <1>2, WholeUnchanged DEF Command
  <1>3. CASE SwitchOff \/ CreateFails \/ CreateFile \/ CopyPath \/ SwitchOn
    <2>1. console # "ready"
      BY <1>3 DEF SwitchOff, CreateFails, CreateFile, CopyPath, SwitchOn
    <2>2. console = "copy" => command.path[1] = command.log
      BY DEF FilesInv
    <2>3. QED
      BY <1>3, <2>1, <2>2, ConsoleWhole
  <1>4. ASSUME NEW s \in Sentence, HandleSentence(s)
        PROVE  WholeInv'
    <2>1. /\ ~InLine /\ UNCHANGED <<config, files, torn>>
          /\ InLine' /\ gnss' = "test" /\ piece' = 0 /\ lines' = lines + 1
      BY <1>4 DEF HandleSentence, InLine
    <2>2. QED
      BY <2>1, OtherLine
  <1>5. CASE HandleRmc
    <2>1. ~InLine /\ ~InLine' /\ UNCHANGED <<config, files, torn, lines>>
      BY <1>5 DEF HandleRmc, InLine
    <2>2. QED
      BY <2>1, OtherLine
  <1>6. CASE AppendFails
    <2>1. /\ InLine /\ PieceDone({<<LogOf(piece)[1], lines>>})
          /\ UNCHANGED <<config, files, lines>>
      BY <1>6 DEF AppendFails, InLine
    <2>2. <<LogOf(piece)[1], lines>> \in torn'
      BY <2>1 DEF PieceDone
    <2>3. piece >= 1 => LogOf(piece)[1] = "nmea_ex"
      BY <2>1, ExLogIs
    <2>4. QED
      BY <2>1, <2>2, <2>3, NotWritten
  <1>7. QED
    BY <1>1, <1>2, <1>3, <1>4, <1>5, <1>6, TestWhole, PieceWritten DEF Next, Console, Gnss

\* Every decoded sentence in a file is there whole, its pieces together and in order, although
\* the file is opened again for each, unless its log was switched or its file could not be
\* opened meanwhile (gnss_nmea.c:85-112): for any sentences, commands and faults.
THEOREM SentencesInOrder == Spec => []LinesWhole
  <1>1. FilesInv /\ WholeInv => LinesWhole
    <2> SUFFICES ASSUME FilesInv, WholeInv, NEW path \in DOMAIN files,
                        NEW i \in 1 .. Len(files[path]),
                        path[1][1] = "nmea_ex", Untorn(files[path][i].line)
                 PROVE  LET p == files[path][i]
                            Next1(j, n) == /\ j \in 1 .. Len(files[path])
                                           /\ files[path][j] = [p EXCEPT !.piece = n]
                        IN  /\ p.piece > 1 => Next1(i - 1, p.piece - 1)
                            /\ p.piece < p.of => \/ Next1(i + 1, p.piece + 1)
                                                 \/ gnss # "idle" /\ p.line = lines
      BY DEF LinesWhole, Untorn
    <2>1. PieceWhole(path, i)
      BY DEF WholeInv, FilesWhole
    <2>2. /\ HasPrevious(path, i)
          /\ files[path][i].piece < files[path][i].of => HasNext(path, i) \/ Awaits(path, i)
      BY <2>1 DEF PieceWhole
    <2>3. QED
      BY <2>2 DEF HasPrevious, HasNext, Awaits, InLine
  <1>2. CompleteInv => FilesInv
    BY DEF CompleteInv
  <1>3. QED
    BY <1>1, <1>2, InitInv, StepInv, CompleteInit, CompleteStep, WholeInit, WholeStep, PTL DEF Spec
(***************************************************************************)
(* The clock.  It and the age of the last position advance together, and   *)
(* only a sentence in hand brings another one.                             *)
(***************************************************************************)
ClockInv == /\ clock \in Int /\ age \in Int /\ position.moment \in Int
            /\ gnss = "rmc" => sentence \in Sentence
            /\ ClockFollows

\* The moment of a sentence is a number of seconds.
LEMMA MomentIsInt ==
  ASSUME NEW s \in Sentence
  PROVE  s.moment \in Int
  <1>1. s.moment \in Moments \cup {Blank}
    BY DEF Sentence
  <1>2. QED
    BY <1>1, LogAssumption

\* An RMC sentence sets a clock that is more than ten seconds off.
LEMMA RmcFollows ==
  ASSUME ClockInv, HandleRmc
  PROVE  ClockInv'
  <1>1. /\ gnss = "rmc" /\ gnss' = "idle" /\ age' = 0 /\ sentence.moment \in Int
        /\ position' = [moment |-> sentence.moment, valid |-> sentence.valid]
    BY MomentIsInt DEF HandleRmc, ClockInv
  <1>2. clock \in Int /\ Zone \in Int
    BY LogAssumption DEF ClockInv
  <1>3. CASE /\ clock' = IF SetsClock(sentence) THEN Mktime(sentence.moment) ELSE clock
             /\ stuck' = FALSE
    <2>1. clock' \in Int
      BY <1>1, <1>2, <1>3 DEF Mktime
    <2>2. ASSUME sentence.valid
          PROVE  Apart(clock', sentence.moment - Zone + 0) <= 10
      <3>1. CASE SetsClock(sentence)
        BY <1>1, <1>2, <1>3, <3>1 DEF Mktime, Apart
      <3>2. CASE ~SetsClock(sentence)
        BY <1>1, <1>2, <1>3, <2>2, <3>2 DEF SetsClock, Mktime, Apart
      <3>3. QED
        BY <3>1, <3>2
    <2>3. QED
      BY <1>1, <2>1, <2>2 DEF ClockInv, ClockFollows
  <1>4. CASE stuck' = TRUE /\ UNCHANGED clock
    BY <1>1, <1>2, <1>4 DEF ClockInv, ClockFollows
  <1>5. QED
    BY <1>3, <1>4 DEF HandleRmc

\* Nothing else touches the clock, and a second passes for all alike.
LEMMA ClockStep == FilesInv /\ ClockInv /\ [Next]_vars => ClockInv'
  <1> SUFFICES ASSUME FilesInv, ClockInv, [Next]_vars PROVE ClockInv'
    OBVIOUS
  <1>1. CASE Tick
    <2>1. /\ clock' = clock + 1 /\ age' = age + 1 /\ UNCHANGED <<stuck, position, gnss, sentence>>
      BY <1>1 DEF Tick, gnssVars
    <2>2. clock \in Int /\ age \in Int /\ position.moment \in Int /\ Zone \in Int
      BY LogAssumption DEF ClockInv
    <2>3. position.valid /\ ~stuck => Apart(clock', position.moment - Zone + age') <= 10
      BY <2>1, <2>2 DEF ClockInv, ClockFollows, Apart
    <2>4. QED
      BY <2>1, <2>2, <2>3 DEF ClockInv, ClockFollows
  <1>2. CASE HandleRmc
    BY <1>2, RmcFollows
  <1>3. ASSUME UNCHANGED <<clock, age, stuck, position>>,
               gnss' = "rmc" => sentence' = sentence /\ gnss \in {"test", "append", "rmc"}
        PROVE  ClockInv'
    BY <1>3 DEF FilesInv, ClockInv, ClockFollows
  <1>4. CASE Console \/ UNCHANGED vars
    <2>1. UNCHANGED <<clock, age, stuck, position, gnss, sentence>>
      BY <1>4 DEF Console, Command, SwitchOff, CreateFails, CreateFile, CopyPath, SwitchOn,
                  vars, clockVars, gnssVars
    <2>2. gnss = "rmc" => sentence \in Sentence
      BY DEF ClockInv
    <2>3. QED
      BY <1>3, <2>1
  <1>5. ASSUME NEW s \in Sentence, HandleSentence(s)
        PROVE  ClockInv'
    BY <1>3, <1>5 DEF HandleSentence, clockVars
  <1>6. CASE TestLog \/ AppendPiece \/ AppendFails
    <2>1. UNCHANGED <<clock, age, stuck, position>> /\ gnss \in {"test", "append"}
      BY <1>6 DEF TestLog, AppendPiece, AppendFails, clockVars
    <2>2. gnss' = "append" \/ \E damage : PieceDone(damage)
      BY <1>6 DEF TestLog, AppendPiece, AppendFails
    <2>3. gnss' = "rmc" => sentence' = sentence
      BY <2>2 DEF PieceDone
    <2>4. QED
      BY <1>3, <2>1, <2>3
  <1>7. QED
    BY <1>1, <1>2, <1>4, <1>5, <1>6 DEF Next, Gnss

\* After a sentence with a fix the clock is within ten seconds of it, with the zone taken
\* off, as long as no other position is sent, unless it could not be set
\* (gnss_nmea.c:427-466): for all moments, clocks and zones.
THEOREM ClockIsSet == Spec => []ClockFollows
  <1>1. Init => ClockInv
    BY LogAssumption DEF Init, ClockInv, ClockFollows
  <1>2. CompleteInv => FilesInv
    BY DEF CompleteInv
  <1>3. ClockInv => ClockFollows
    BY DEF ClockInv
  <1>4. QED
    BY <1>1, <1>2, <1>3, InitInv, StepInv, CompleteInit, CompleteStep, ClockStep, PTL DEF Spec
==============================================================================
