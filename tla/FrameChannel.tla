---------------------------- MODULE FrameChannel -----------------------------
(***************************************************************************)
(* What the transmit side of a comm_* service promises the threads that    *)
(* call its send function, whatever the interleaving: an accepted frame    *)
(* stays in flight until the transmit thread has tried to send it exactly  *)
(* once; the tries happen in the order of acceptance; a frame leaves       *)
(* unchanged, or is lost in the try, and nothing else is ever sent; and no *)
(* more than Capacity + 1 frames are in flight, Capacity queued and one in *)
(* the hands of the transmit thread.                                       *)
(***************************************************************************)
EXTENDS Naturals, Sequences

CONSTANTS Frame, Capacity

VARIABLES inflight,  \* accepted and not yet tried, oldest first
          out        \* handed to the network, in order

chanVars == <<inflight, out>>

ChanInit == inflight = <<>> /\ out = <<>>

Accept == /\ Len(inflight) <= Capacity
          /\ \E f \in Frame : inflight' = Append(inflight, f)
          /\ UNCHANGED out

Send == /\ inflight # <<>>
        /\ inflight' = Tail(inflight)
        /\ out' = Append(out, Head(inflight))

Lose == /\ inflight # <<>>
        /\ inflight' = Tail(inflight)
        /\ UNCHANGED out

ChanNext == Accept \/ Send \/ Lose

ChanSpec == ChanInit /\ [][ChanNext]_chanVars
==============================================================================
