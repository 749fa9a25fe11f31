------------------------------- MODULE GnssLog -------------------------------
(***************************************************************************)
(* The files the console has GNSS data written to, and what becomes of an  *)
(* RMC sentence (core/src/gnss_nmea.c, core/src/gnss_ephb_info.c:627-740,  *)
(* core/console/tty.c:230-286).  The console thread gives a log its file   *)
(* while the GNSS thread appends to it: nothing orders the two.  A decoded *)
(* sentence is written in pieces, and for every one of them the GNSS       *)
(* thread looks the log up again, opens its file, appends and closes it.   *)
(*                                                                         *)
(* RMC sentences also set the system clock, whose seconds name the files,  *)
(* and give the positions that are sent to the network.  A log is a kind   *)
(* of file and a type of sentence, or of record.                           *)
(***************************************************************************)
EXTENDS Integers, Sequences, FiniteSets, SequencesExt

CONSTANTS Types,       \* types of sentences the module sends
          Words,       \* types of ephemerides the console has a word for
          Moments,     \* the date and time of sentences, in seconds as UTC
          Blank,       \* what an empty date and time count as: 1998 (tm_year 99)
          Zone,        \* seconds local time is ahead of UTC
          Clocks,      \* the time at the start
          MaxSats,     \* bound: satellites in a GSA or GSV sentence (the code's are 12 and 4)
          MaxLines,    \* bound: sentences handled
          MaxCommands, \* bound: commands given
          MaxTicks,    \* bound: seconds that pass
          MaxFaults    \* bound: files that cannot be opened

ASSUME LogAssumption ==
  /\ Types \subseteq {"gbs", "gga", "gll", "gsa", "gst", "gsv", "rmc", "vtg", "zda"}
  /\ Words \subseteq {"bdxw", "gps", "bd2", "bd3", "bd3cnav2", "bd3cnav3", "glo", "gal"}
  /\ Moments \subseteq Int /\ Blank \in Int /\ Zone \in Int /\ Clocks \subseteq Int
  /\ MaxSats \in 0 .. 4 /\ {MaxLines, MaxCommands, MaxTicks, MaxFaults} \subseteq Nat

Sentences == {"nmea", "nmea_ex"} \X Types
Logs == Sentences \cup ({"ephb"} \X Words)

\* gnss_ephb_info_file_header knows other names than the console gives it
EphbNames == {"gpsephb", "gloephb", "galephb", "bd2ephb", "bd3ephb", "bdxwephb",
              "bd3cnav2ephb", "bd3cnav3ephb"}

Known(log) == log[1] = "ephb" => log[2] \in EphbNames

\* A path is the log and the second it was enabled at.
Path(log, now) == <<log, now>>
NoPath == <<<<"none", "none">>, 0>>

Line == 1 .. MaxLines
Piece == [line: Line, piece: Nat, of: Nat]

VARIABLES config,   \* File_cfg_t of every log: en, path
          files,    \* contents of the files there are
          clock,    \* the system time
          ticks,    \* bound: seconds passed
          faults,   \* bound: files that could not be opened
          console,  \* "ready", "sleep", "copy", "enable"
          command,  \* log and on, and the path of the file once it is created
          commands, \* bound: commands given so far
          gnss,     \* "idle", "test", "append", "rmc"
          sentence, \* the sentence being handled
          piece,    \* its next piece; 0 is the sentence itself
          lines,    \* sentences handled so far, this one included
          position, \* timestamp of the last position sent, whether it was a fix
          age,      \* history: seconds since then
          stuck,    \* history: the clock could not be set then
          told,     \* history: what the console said last of a log, if its file was created
          due,      \* history: sentences handled since a log was said to be on
          late,     \* history: pieces written since it was said to be off
          torn      \* history: kinds and sentences whose log was switched meanwhile

clockVars   == <<clock, ticks, age, stuck>>
consoleVars == <<console, command, commands, told>>
gnssVars    == <<gnss, sentence, piece, lines, position>>
vars == <<config, files, faults, clockVars, consoleVars, gnssVars, due, late, torn>>

Nothing == [path |-> NoPath, on |-> FALSE]

Init == /\ config = [l \in Logs |-> [en |-> FALSE, path |-> NoPath]]
        /\ files = <<>> /\ faults = 0
        /\ clock \in Clocks /\ ticks = 0
        /\ age = 0 /\ stuck = FALSE
        /\ console = "ready" /\ command = <<>> /\ commands = 0
        /\ told = [l \in Logs |-> Nothing]
        /\ gnss = "idle" /\ sentence = <<>> /\ piece = 0 /\ lines = 0
        /\ position = [moment |-> Blank, valid |-> FALSE]
        /\ due = [l \in Logs |-> {}]
        /\ late = [l \in Logs |-> 0]
        /\ torn = {}

\* A second passes.  Bound: not while a sentence is written, which would change only the
\* name of a file that is created meanwhile.
Tick == /\ ticks < MaxTicks /\ gnss \in {"idle", "rmc"}
        /\ ticks' = ticks + 1 /\ clock' = clock + 1
        /\ age' = age + 1
        /\ UNCHANGED <<config, files, faults, stuck, consoleVars, gnssVars, due, late, torn>>

-----------------------------------------------------------------------------
(* The console thread *)

\* gnss_file_nmea_cfg, gnss_file_ephb_cfg, up to the usleep
Command(log, on) ==
  /\ console = "ready" /\ commands < MaxCommands
  /\ console' = "sleep" /\ commands' = commands + 1
  /\ command' = [log |-> log, on |-> on, path |-> NoPath]
  /\ told' = [told EXCEPT ![log] = Nothing]
  /\ due' = [due EXCEPT ![log] = {}]
  /\ UNCHANGED <<config, files, faults, clockVars, gnssVars, late, torn>>

\* the sentence that is being handled while a log of its type is switched
Disturbed(log) == IF gnss # "idle" /\ sentence.type = log[2] THEN {<<log[1], lines>>} ELSE {}

\* the command is over: what vty_out says
Say(log, on, path) ==
  /\ console' = "ready" /\ command' = <<>>
  /\ told' = [told EXCEPT ![log] = [on |-> on, path |-> path]]
  /\ late' = [late EXCEPT ![log] = 0]

\* Mutant of SwitchOff: the command only says it.
SwitchOff_said ==
  /\ console = "sleep"
  /\ ~command.on \/ ~Known(command.log)
  /\ Say(command.log, command.on, NoPath)
  /\ torn' = torn \cup Disturbed(command.log)
  /\ UNCHANGED <<config, files, faults, clockVars, commands, gnssVars, due>>

\* the header functions when the log is switched off, or they do not know its name
SwitchOff ==
  /\ console = "sleep"
  /\ ~command.on \/ ~Known(command.log)
  /\ config' = IF Known(command.log) THEN [config EXCEPT ![command.log].en = FALSE] ELSE config
  /\ Say(command.log, command.on, NoPath)
  /\ torn' = torn \cup Disturbed(command.log)
  /\ UNCHANGED <<files, faults, clockVars, commands, gnssVars, due>>

\* fopen(file_path, "w") fails.  The console says the same as if it had not.
CreateFails ==
  /\ console = "sleep" /\ command.on /\ Known(command.log) /\ faults < MaxFaults
  /\ faults' = faults + 1
  /\ config' = [config EXCEPT ![command.log].en = (command.log[1] = "ephb")]
  /\ Say(command.log, FALSE, NoPath)
  /\ torn' = torn \cup Disturbed(command.log)
  /\ UNCHANGED <<files, clockVars, commands, gnssVars, due>>

\* Mutant of CreateFile: en is set at once, before the path is copied.
CreateFile_enables ==
  /\ console = "sleep" /\ command.on /\ Known(command.log)
  /\ LET path == Path(command.log, clock)
     IN  /\ command' = [command EXCEPT !.path = path]
         /\ files' = [p \in DOMAIN files \cup {path} |-> IF p = path THEN <<>> ELSE files[p]]
  /\ console' = "copy"
  /\ config' = [config EXCEPT ![command.log].en = TRUE]
  /\ torn' = torn \cup Disturbed(command.log)
  /\ UNCHANGED <<faults, clockVars, commands, told, gnssVars, due, late>>

\* and when it does not: a file of the same second is emptied
CreateFile ==
  /\ console = "sleep" /\ command.on /\ Known(command.log)
  /\ LET path == Path(command.log, clock)
     IN  /\ command' = [command EXCEPT !.path = path]
         /\ files' = [p \in DOMAIN files \cup {path} |-> IF p = path THEN <<>> ELSE files[p]]
  /\ console' = "copy"
  /\ torn' = torn \cup Disturbed(command.log)
  /\ UNCHANGED <<config, faults, clockVars, commands, told, gnssVars, due, late>>

\* the path is copied: a log that is still on goes on in the new file
CopyPath ==
  /\ console = "copy"
  /\ config' = [config EXCEPT ![command.log].path = command.path]
  /\ console' = "enable"
  /\ torn' = torn \cup Disturbed(command.log)
  /\ UNCHANGED <<files, faults, clockVars, command, commands, told, gnssVars, due, late>>

\* and then en is set
SwitchOn ==
  /\ console = "enable"
  /\ config' = [config EXCEPT ![command.log].en = TRUE]
  /\ Say(command.log, TRUE, command.path)
  /\ torn' = torn \cup Disturbed(command.log)
  /\ UNCHANGED <<files, faults, clockVars, commands, gnssVars, due>>

-----------------------------------------------------------------------------
(* The GNSS thread: handle_gnss_nmea *)

\* Calls of GNSS_NMEA_EX_LOG for a sentence; a field printed by a function counts as one.
\* For positions: the time, the fields and the blanks between them, the rest.
PositionPieces == [rmc |-> 5, gga |-> 11, gll |-> 7]

\* for satellites: the beginning, each satellite, and its parts in gsv, and the end
SatellitePieces(sats) == [gsa |-> 8 + sats, gsv |-> 2 + 3 * sats]

\* for speed, time and errors
OtherPieces == [vtg |-> 9, zda |-> 5, gbs |-> 9, gst |-> 16]

Pieces(s) == CASE s.type \in DOMAIN PositionPieces -> PositionPieces[s.type]
               [] s.type \in {"gsa", "gsv"} -> SatellitePieces(s.sats)[s.type]
               [] s.type \in DOMAIN OtherPieces -> OtherPieces[s.type]

\* A sentence whose check sum is right and which parses.  Without a fix the date and the
\* time of an RMC sentence are empty (bound: they need not be).
Sentence == {s \in [type: Types, sats: 0 .. MaxSats, valid: BOOLEAN, moment: Moments \cup {Blank}] :
               /\ s.type \notin {"gsa", "gsv"} => s.sats = 0
               /\ s.type # "rmc" => ~s.valid
               /\ s.valid <=> s.moment # Blank}

HandleSentence(s) ==
  /\ gnss = "idle" /\ lines < MaxLines
  /\ gnss' = "test" /\ sentence' = s /\ piece' = 0 /\ lines' = lines + 1
  /\ UNCHANGED <<config, files, faults, clockVars, consoleVars, position, due, late, torn>>

\* nmea_file_config, nmea_ex_file_config
LogOf(i) == <<IF i = 0 THEN "nmea" ELSE "nmea_ex", sentence.type>>

\* one piece is over.  A sentence is owed to the logs that were on all the time.
PieceDone(damage) ==
  /\ torn' = torn \cup damage
  /\ IF piece < Pieces(sentence)
       THEN /\ gnss' = "test" /\ piece' = piece + 1
            /\ UNCHANGED <<sentence, due>>
       ELSE /\ due' = [l \in Logs |->
                         IF l[2] = sentence.type /\ l \in Sentences /\ told[l].on
                            /\ <<l[1], lines>> \notin torn'
                           THEN due[l] \cup {lines} ELSE due[l]]
            /\ IF sentence.type = "rmc" THEN gnss' = "rmc" /\ UNCHANGED <<sentence, piece>>
                                        ELSE gnss' = "idle" /\ sentence' = <<>> /\ piece' = 0

\* file_config->en
TestLog ==
  /\ gnss = "test"
  /\ IF config[LogOf(piece)].en
       THEN gnss' = "append" /\ UNCHANGED <<sentence, piece, due, torn>>
       ELSE PieceDone({})
  /\ UNCHANGED <<config, files, faults, clockVars, consoleVars, lines, position, late>>

\* Mutant of Appended: the file is opened with "w".
Appended_emptied(path, p) ==
  [q \in DOMAIN files \cup {path} |-> IF q = path THEN <<p>> ELSE files[q]]

Appended(path, p) ==
  [q \in DOMAIN files \cup {path} |->
     IF q # path THEN files[q] ELSE IF q \in DOMAIN files THEN Append(files[q], p) ELSE <<p>>]

\* fopen(path, "a"), the piece, fclose
AppendPiece ==
  /\ gnss = "append"
  /\ LET log == LogOf(piece)
     IN  /\ files' = Appended(config[log].path,
                             [line |-> lines, piece |-> piece, of |-> Pieces(sentence)])
         /\ late' = [late EXCEPT ![log] = IF told[log].on THEN 0 ELSE @ + 1]
         /\ PieceDone({})
  /\ UNCHANGED <<config, faults, clockVars, consoleVars, lines, position>>

\* The file is not opened; or the path was read while the console wrote it, and the piece
\* went to a file that no log has.
AppendFails ==
  /\ gnss = "append" /\ faults < MaxFaults
  /\ faults' = faults + 1
  /\ PieceDone({<<LogOf(piece)[1], lines>>})
  /\ UNCHANGED <<config, files, clockVars, consoleVars, lines, position, late>>

-----------------------------------------------------------------------------
(* The GNSS thread: the clock and the position of an RMC sentence *)

\* mktime: the sentence's time, which is UTC, taken as local time
Mktime(moment) == moment - Zone

Apart(a, b) == IF a > b THEN a - b ELSE b - a

\* Mutant of SetsClock: only a clock that is behind is set.
SetsClock_behind(s) == s.valid /\ Mktime(s.moment) - clock > 10

SetsClock(s) == s.valid /\ Apart(clock, Mktime(s.moment)) > 10

\* settimeofday or date -s, unless both fail, and net_send(SEND_CMD_POS), fix or no fix
HandleRmc ==
  /\ gnss = "rmc"
  /\ \/ /\ clock' = IF SetsClock(sentence) THEN Mktime(sentence.moment) ELSE clock
        /\ stuck' = FALSE
     \/ SetsClock(sentence) /\ stuck' = TRUE /\ UNCHANGED clock
  /\ position' = [moment |-> sentence.moment, valid |-> sentence.valid]
  /\ age' = 0
  /\ gnss' = "idle" /\ sentence' = <<>> /\ piece' = 0
  /\ UNCHANGED <<config, files, faults, ticks, consoleVars, lines, due, late, torn>>

-----------------------------------------------------------------------------
Console == \/ \E log \in Logs, on \in BOOLEAN : Command(log, on)
           \/ SwitchOff \/ CreateFails \/ CreateFile \/ CopyPath \/ SwitchOn

Gnss == \/ \E s \in Sentence : HandleSentence(s)
        \/ TestLog \/ AppendPiece \/ AppendFails \/ HandleRmc

Next == Tick \/ Console \/ Gnss

Spec == Init /\ [][Next]_vars

-----------------------------------------------------------------------------
(* Properties *)

\* Every sentence in a file of decoded sentences is there whole, its pieces together and
\* in order, unless its log was switched or its file could not be opened while it was
\* written (gnss_nmea.c:85-112).
LinesWhole ==
  \A path \in DOMAIN files : \A i \in 1 .. Len(files[path]) :
    LET p == files[path][i]
        Next1(j, n) == j \in 1 .. Len(files[path]) /\ files[path][j] = [p EXCEPT !.piece = n]
        InHand == gnss # "idle" /\ p.line = lines
    IN  path[1][1] = "nmea_ex" /\ <<"nmea_ex", p.line>> \notin torn =>
          /\ p.piece > 1 => Next1(i - 1, p.piece - 1)
          /\ p.piece < p.of => Next1(i + 1, p.piece + 1) \/ InHand

\* A log that the console said is on, with a file that could be created, has got every
\* sentence of its type since, in the file the console named (tty.c:230-260); and no piece
\* was ever meant for a log without a file, as en is set after the path is there
\* (gnss_nmea.c:200-203).
ReportedComplete ==
  /\ \A log \in Sentences : told[log].on =>
       \A n \in due[log] : \E i \in 1 .. Len(files[told[log].path]) :
         files[told[log].path][i].line = n
  /\ NoPath \notin DOMAIN files

\* After the console said that a log is off one piece may still be written to it, as en
\* is read before the file is opened, but no more (gnss_nmea.c:98-109, 175-205).
OneLatePiece ==
  \A log \in Sentences : console = "ready" => late[log] <= 1

\* After a sentence with a fix the clock is at most ten seconds from the moment stamped
\* on its position, less the zone, as UTC is set as local time (gnss_nmea.c:427-466).
ClockFollows ==
  position.valid /\ ~stuck => Apart(clock, position.moment - Zone + age) <= 10
==============================================================================
