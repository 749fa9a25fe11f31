------------------------------ MODULE MCNetSend ------------------------------
(* NetSend with frames of one to four payload bytes. *)
EXTENDS NetSend

\* The switches (a uint16_t) and the output frequency (a uint8_t).
MCAnswers == {[cmd |-> SEND_CMD_EPH_SW, payload |-> <<3, 0>>],
              [cmd |-> SEND_CMD_OUTPUT_FREQ, payload |-> <<5>>]}

\* A position is longer than any answer; its bytes overflow the check sum.
MCPositions == {<<255, 200, 7>>}

MCEphemerides == {<<2, 9, 1>>, <<6, 170>>}
==============================================================================
