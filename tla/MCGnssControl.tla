--------------------------- MODULE MCGnssControl -----------------------------
(* GnssControl with a few requests and console commands. *)
EXTENDS GnssControl

\* A request that sets switches, and one that does not.
MCRequests == {[kind |-> "set_sw", value |-> {"glo", "bd3cnav2"}],
               [kind |-> "set_freq", value |-> 1]}

\* Console commands that race the request, one of each effect: on the message gloephb it
\* switches too, on all messages, on the mode, and on the switches themselves.
MCCommands == {[op |-> "data", name |-> "gloephb", on |-> FALSE, rate |-> 0],
               [op |-> "closeall"],
               [op |-> "calc", calc |-> "bds_rtk"],
               [op |-> "netup", sw |-> "bd2", on |-> TRUE]}
==============================================================================
