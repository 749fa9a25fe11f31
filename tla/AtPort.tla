-------------------------------- MODULE AtPort --------------------------------
(***************************************************************************)
(* The serial line between the program and a radio module that takes AT    *)
(* commands.  eth_4g.c and dbb_at_response.c use it in the same way: write *)
(* a command, then capture whatever bytes arrive until nothing came for    *)
(* 400 ms, or nothing at all within the timeout.  Nothing relates a        *)
(* response to the command it answers, and what a capture leaves on the    *)
(* line is found by the next one: the line is flushed only when opened.    *)
(*                                                                         *)
(* The module answers its commands one by one, in order, as late as it     *)
(* likes.  A response is searched with strstr, so the line is the set of   *)
(* the answers on it, and an answer the set of the texts the program looks *)
(* for that occur in it.                                                   *)
(***************************************************************************)
EXTENDS Naturals, Sequences

CONSTANT MaxLate   \* bound: commands the module may not have answered yet

ASSUME AtAssumption == MaxLate \in Nat \ {0}

VARIABLES asked,   \* external: the commands the module has not answered, in order
          line     \* what the module sent and no capture has read

atVars == <<asked, line>>

AtInit == asked = <<>> /\ line = {}

\* the command is written
Ask(cmd) ==
  /\ Len(asked) < MaxLate
  /\ asked' = Append(asked, cmd)
  /\ UNCHANGED line

\* a capture returns with everything that has arrived: the response is "line"
Hear == line # {} /\ line' = {} /\ UNCHANGED asked

\* strstr(response, text) != NULL
Says(response, text) == \E answer \in response : text \in answer

\* the module answers its oldest command
Reply(says) ==
  /\ asked # <<>>
  /\ asked' = Tail(asked)
  /\ line' = line \cup {says}
==============================================================================
