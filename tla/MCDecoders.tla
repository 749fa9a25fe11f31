------------------------------ MODULE MCDecoders ------------------------------
(* The decoders of the two receivers for TLC, in one run: they share nothing, *)
(* and a behaviour is one of either (bound).                                   *)
EXTENDS GnssDecode, DbbCodec

\* every number of up to four characters, and a few longer ones around the length at which
\* 86 makes one international
SomeNumbers ==
  {n \in BoundedSeq({0, 9, Plus}, 4) : \E i \in 1 .. Len(n) : n[i] # Plus}
    \cup {<<8, 6, 1, 0, 2, 3, 4, 5, 6, 7>>, <<8, 6, 1, 0, 2, 3, 4, 5, 6, 7, 8>>,
          <<1, 3, 0, 0, 2, 3, 4, 5, 6, 7, 8>>, [i \in 1 .. 31 |-> i % 10]}

SomeTexts == {<<>>, <<65>>, <<20013, 65>>, <<65, 65, 65>>}
SomeCentres == {<<>>, <<145, 104>>}

DecodersInit == DecodeInit /\ CodecInit

\* what follows a report of more than two bytes is whole and unbroken (bound)
AfterLong == /\ \E chset \in Charsets, bytes \in Payloads : WholeReport(chset, bytes)
             /\ UNCHANGED smsVars

DecodersNext == \/ CodecInit /\ DecodeNext /\ UNCHANGED codecVars
                \/ DecodeInit /\ Len(latest) <= 2 /\ CodecNext /\ UNCHANGED decodeVars
                \/ DecodeInit /\ Len(latest) > 2 /\ AfterLong /\ UNCHANGED decodeVars

DecodersSpec == DecodersInit /\ [][DecodersNext]_<<decodeVars, codecVars>>
==============================================================================
