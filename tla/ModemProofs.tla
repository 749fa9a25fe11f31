----------------------------- MODULE ModemProofs -----------------------------
(***************************************************************************)
(* Proofs about the two services that speak to a modem through AtPort, and *)
(* about the encoding of short messages.                                   *)
(*                                                                         *)
(* Dbb, for every number of reports, of messages and of setbacks: what     *)
(* becomes of the module's reports, of the message, and what was accepted  *)
(* before the service is online.                                           *)
(*                                                                         *)
(* Eth4g, from EthRanks on, for every number of answers that are late.     *)
(*                                                                         *)
(* DbbCodec: a message is read as it was written, for every number, text   *)
(* and centre.                                                             *)
(*                                                                         *)
(* Each specification speaks of the variables of its own module, and of a  *)
(* port, which has the same name in both.                                  *)
(***************************************************************************)
EXTENDS Dbb, Eth4g, DbbCodec, SequenceTheorems, WellFoundedInduction, TLAPS

\* A set of naturals that is not empty has a least member.
LEMMA LeastMember ==
  ASSUME NEW T \in SUBSET Nat, T # {}
  PROVE  \E i \in T : \A j \in T : i <= j
  <1>1. PICK i \in T : \A j \in T : ~(<<j, i>> \in OpToRel(<, Nat))
    BY NatLessThanWellFounded, WFMin
  <1>2. ASSUME NEW j \in T PROVE i <= j
    <2>1. <<j, i>> \in Nat \X Nat /\ ~(<<j, i>> \in OpToRel(<, Nat))
      BY <1>1
    <2>2. ~(j < i)
      BY <2>1, Zenon DEF OpToRel
    <2>3. QED
      BY <2>2
  <1>3. QED
    BY <1>2

\* One that has a bound has a greatest member, too.
LEMMA GreatestMember ==
  ASSUME NEW n \in Nat, NEW T \in SUBSET (1 .. n), T # {}
  PROVE  \E i \in T : \A j \in T : j <= i
  <1> DEFINE Below == {n - i : i \in T}
  <1>1. \A i \in T : i \in Nat /\ n - i \in Nat /\ n - i \in Below
    OBVIOUS
  <1>1a. Below \in SUBSET Nat /\ Below # {}
    BY <1>1, Zenon
  <1>2. PICK k \in Below : \A m \in Below : k <= m
    BY <1>1a, LeastMember
  <1>3. PICK i \in T : k = n - i
    BY <1>2
  <1>4. ASSUME NEW j \in T PROVE j <= i
    <2>1. n - i <= n - j
      BY <1>2, <1>3
    <2>2. i \in Nat /\ j \in Nat
      OBVIOUS
    <2>3. QED
      BY <2>1, <2>2
  <1>5. QED
    BY <1>4

(***************************************************************************)
(* The reports on the line, and what was taken from it before.  Headers    *)
(* are numbered in the order they were sent, so that each is newer than    *)
(* everything a capture took before; only the last may lack its rest.      *)
(***************************************************************************)
Report == [kind: {"ssr", "dl"}, id: Nat, part: {"head", "rest"}]

IsHead(i) == i \in 1 .. Len(urcs) /\ urcs[i].part = "head"

ReportsInv ==
  /\ urcs \in Seq(Report) /\ reports \in Nat
  /\ sending # NoPart => sending \in Report /\ sending.part = "rest"
  /\ sending = NoPart => \A i \in 1 .. Len(urcs) : IsHead(i) => i < Len(urcs)
  /\ \A i \in 1 .. Len(urcs) : IsHead(i) =>
       urcs[i].id <= reports /\ (i < Len(urcs) => urcs[i + 1].part = "rest")
  /\ \A i, j \in 1 .. Len(urcs) : IsHead(i) /\ IsHead(j) /\ i < j => urcs[i].id < urcs[j].id

\* a correction is forwarded while dppp is on, or once after it went off
ForwardInv ==
  /\ forwarded \in Seq(Nat) /\ hand \in Nat /\ stray \in {0, 1} /\ dppp \in BOOLEAN
  /\ \A i, j \in 1 .. Len(forwarded) : i < j => forwarded[i] < forwarded[j]
  /\ \A i \in 1 .. Len(forwarded) :
       /\ forwarded[i] <= reports
       /\ pc = "forward" => forwarded[i] < hand
       /\ \A j \in 1 .. Len(urcs) : IsHead(j) => forwarded[i] < urcs[j].id
  /\ pc = "forward" => hand <= reports /\ \A j \in 1 .. Len(urcs) : IsHead(j) => hand < urcs[j].id
  /\ dppp \/ pc = "forward" => stray = 0

\* what is stored is newer than what was captured whole, and older than what is on the line
IsDownlink ==
  /\ downlink = [id |-> downlink.id, whole |-> downlink.whole, over |-> downlink.over]
  /\ downlink.id \in Nat /\ downlink.whole \in BOOLEAN /\ downlink.over \in Nat

DownlinkInv ==
  /\ heard \in Nat /\ heard <= reports
  /\ IsDownlink /\ downlink.id <= reports /\ downlink.over <= reports
  /\ DownlinkIsLatest
  /\ \A j \in 1 .. Len(urcs) : IsHead(j) =>
       heard < urcs[j].id /\ downlink.id < urcs[j].id /\ downlink.over < urcs[j].id

IInv == ReportsInv /\ ForwardInv /\ DownlinkInv

\* The invariant holds initially.
LEMMA InitInv == Init => IInv
  <1> SUFFICES ASSUME Init PROVE IInv
    OBVIOUS
  <1>1. /\ urcs = <<>> /\ sending = NoPart /\ reports = 0 /\ pc = "start" /\ dppp = FALSE
        /\ hand = 0 /\ forwarded = <<>> /\ stray = 0 /\ downlink = NoData /\ heard = 0
    BY DEF Init
  <1>2. ReportsInv
    BY <1>1 DEF ReportsInv
  <1>3. ForwardInv
    <2>1. /\ Len(forwarded) = 0 /\ Len(urcs) = 0 /\ forwarded \in Seq(Nat)
          /\ hand \in Nat /\ pc # "forward" /\ stray = 0
      BY <1>1
    <2>2. dppp \in BOOLEAN
      BY <1>1, Zenon
    <2>3. QED
      BY <2>1, <2>2 DEF ForwardInv
  <1>4. DownlinkInv
    BY <1>1 DEF DownlinkInv, IsDownlink, DownlinkIsLatest, NoData
  <1>5. QED
    BY <1>2, <1>3, <1>4 DEF IInv

\* A step that takes nothing from the reports keeps it, even if it empties the line.
LEMMA NoReportTaken ==
  ASSUME IInv, urcs' = urcs \/ urcs' = <<>>,
         UNCHANGED <<sending, reports, onlineVars, dppp>>, pc' = pc \/ pc' # "forward"
  PROVE  IInv'
  <1> USE DEF onlineVars
  <1>1. ReportsInv'
    <2>1. CASE urcs' = urcs
      BY <2>1 DEF IInv, ReportsInv, IsHead
    <2>2. CASE urcs' = <<>>
      <3>1. Len(urcs') = 0 /\ urcs' \in Seq(Report)
        BY <2>2
      <3>2. QED
        BY <3>1 DEF IInv, ReportsInv
    <2>3. QED
      BY <2>1, <2>2
  <1>2. ForwardInv'
    BY DEF IInv, ForwardInv, IsHead
  <1>3. DownlinkInv'
    BY DEF IInv, DownlinkInv, IsDownlink, IsHead, DownlinkIsLatest
  <1>4. QED
    BY <1>1, <1>2, <1>3 DEF IInv

\* The module begins a report: it is the newest.
LEMMA HeadKeeps ==
  ASSUME IInv, NEW kind \in {"ssr", "dl"}, ReportHead(kind)
  PROVE  IInv'
  <1> DEFINE head == [kind |-> kind, id |-> reports + 1, part |-> "head"]
             n == Len(urcs)
  <1>1. /\ sending = NoPart /\ reports' = reports + 1
        /\ sending' = [kind |-> kind, id |-> reports + 1, part |-> "rest"]
        /\ urcs' = Append(urcs, head) /\ UNCHANGED <<pc, dppp, onlineVars>>
    BY DEF ReportHead, threadVars
  <1>2. head \in Report /\ reports \in Nat /\ urcs \in Seq(Report) /\ n \in Nat
    BY DEF IInv, ReportsInv, Report
  <1>3. /\ urcs' \in Seq(Report) /\ Len(urcs') = n + 1 /\ urcs'[n + 1] = head
        /\ \A i \in 1 .. n : urcs'[i] = urcs[i]
    BY <1>1, <1>2
  <1> HIDE DEF head, n
  <1>4. head.id = reports + 1 /\ head.part = "head"
    BY DEF head
  <1>5. \A i : IsHead(i)' <=> IsHead(i) \/ i = n + 1
    BY <1>2, <1>3, <1>4 DEF IsHead, n
  <1>6. ReportsInv'
    <2>1. sending' \in Report /\ sending'.part = "rest" /\ sending' # NoPart
      BY <1>1, <1>2 DEF Report, NoPart
    <2>2. ASSUME NEW i \in 1 .. Len(urcs'), IsHead(i)'
          PROVE  /\ urcs'[i].id <= reports' /\ (i < Len(urcs') => urcs'[i + 1].part = "rest")
                 /\ \A j \in 1 .. Len(urcs') : IsHead(j)' /\ i < j => urcs'[i].id < urcs'[j].id
      <3>1. CASE i = n + 1
        BY <3>1, <1>1, <1>2, <1>3, <1>4
      <3>2. CASE i # n + 1
        <4>1. i \in 1 .. n /\ IsHead(i) /\ urcs'[i] = urcs[i]
          BY <3>2, <2>2, <1>2, <1>3, <1>5
        <4>1a. i < n
          BY <4>1, <1>1 DEF IInv, ReportsInv, n
        <4>2. urcs[i].id <= reports /\ urcs[i + 1].part = "rest"
          BY <4>1, <4>1a, <1>2 DEF IInv, ReportsInv, n
        <4>2a. urcs[i] \in Report
          BY <4>1, <1>2 DEF n
        <4>2b. urcs[i].id \in Nat
          BY <4>2a DEF Report
        <4>3. urcs'[i + 1] = urcs[i + 1]
          BY <4>1, <4>1a, <1>2, <1>3
        <4>4. ASSUME NEW j \in 1 .. Len(urcs'), IsHead(j)', i < j
              PROVE  urcs'[i].id < urcs'[j].id
          <5>1. CASE j = n + 1
            <6>1. urcs'[j].id = reports + 1 /\ urcs'[i].id = urcs[i].id
              BY <5>1, <4>1, <1>3, <1>4
            <6>2. QED
              BY <6>1, <4>2, <4>2b, <1>2
          <5>2. CASE j # n + 1
            BY <5>2, <4>1, <4>4, <1>2, <1>3, <1>5 DEF IInv, ReportsInv, n
          <5>3. QED
            BY <5>1, <5>2
        <4>5. QED
          BY <4>1, <4>1a, <4>2, <4>2b, <4>3, <4>4, <1>1, <1>2
      <3>3. QED
        BY <3>1, <3>2
    <2>3. urcs' \in Seq(Report) /\ reports' \in Nat
      BY <1>1, <1>2, <1>3
    <2>4. \A i \in 1 .. Len(urcs') : IsHead(i)' => \A j \in 1 .. Len(urcs') :
            IsHead(j)' /\ i < j => urcs'[i].id < urcs'[j].id
      BY <2>2
    <2>5. QED
      BY <2>1, <2>2, <2>3, <2>4, Zenon DEF ReportsInv
  <1>7. ForwardInv'
    BY <1>1, <1>2, <1>3, <1>4, <1>5 DEF IInv, ForwardInv, onlineVars, n
  <1>8. DownlinkInv'
    BY <1>1, <1>2, <1>3, <1>4, <1>5 DEF IInv, DownlinkInv, IsDownlink, DownlinkIsLatest, onlineVars, n
  <1>9. QED
    BY <1>6, <1>7, <1>8 DEF IInv

\* The module ends the report: the headers stay where they were.
LEMMA RestKeeps ==
  ASSUME IInv, ReportRest
  PROVE  IInv'
  <1> DEFINE n == Len(urcs)
  <1>1. /\ sending # NoPart /\ sending' = NoPart /\ reports' = reports
        /\ urcs' = Append(urcs, sending) /\ UNCHANGED <<pc, dppp, onlineVars>>
    BY DEF ReportRest, threadVars
  <1>2. /\ sending \in Report /\ sending.part = "rest"
        /\ reports \in Nat /\ urcs \in Seq(Report) /\ n \in Nat
    BY <1>1 DEF IInv, ReportsInv
  <1>3. /\ urcs' \in Seq(Report) /\ Len(urcs') = n + 1 /\ urcs'[n + 1] = sending
        /\ \A i \in 1 .. n : urcs'[i] = urcs[i]
    BY <1>1, <1>2
  <1> HIDE DEF n
  <1>4. \A i : /\ IsHead(i)' <=> IsHead(i)
               /\ IsHead(i) => i \in 1 .. n /\ urcs'[i] = urcs[i]
    BY <1>2, <1>3 DEF IsHead, n
  <1>5. ReportsInv'
    <2>1. ASSUME NEW i \in 1 .. Len(urcs'), IsHead(i)'
          PROVE  /\ i < Len(urcs') /\ urcs'[i].id <= reports' /\ urcs'[i + 1].part = "rest"
                 /\ \A j \in 1 .. Len(urcs') : IsHead(j)' /\ i < j => urcs'[i].id < urcs'[j].id
      <3>1. IsHead(i) /\ i \in 1 .. n /\ urcs'[i] = urcs[i]
        BY <2>1, <1>4
      <3>2. urcs[i].id <= reports /\ (i < n => urcs[i + 1].part = "rest")
        BY <3>1 DEF IInv, ReportsInv, n
      <3>3. urcs'[i + 1].part = "rest"
        <4>1. CASE i = n
          BY <4>1, <1>2, <1>3
        <4>2. CASE i # n
          BY <4>2, <3>1, <3>2, <1>2, <1>3
        <4>3. QED
          BY <4>1, <4>2
      <3>4. \A j \in 1 .. Len(urcs') : IsHead(j)' /\ i < j => urcs'[i].id < urcs'[j].id
        BY <3>1, <1>4 DEF IInv, ReportsInv, n
      <3>5. QED
        BY <3>1, <3>2, <3>3, <3>4, <1>1, <1>2, <1>3
    <2>2. QED
      BY <2>1, <1>1, <1>2, <1>3 DEF ReportsInv
  <1>6. ForwardInv'
    BY <1>1, <1>4 DEF IInv, ForwardInv, onlineVars, n
  <1>7. DownlinkInv'
    BY <1>1, <1>4 DEF IInv, DownlinkInv, IsDownlink, DownlinkIsLatest, onlineVars, n
  <1>8. QED
    BY <1>5, <1>6, <1>7 DEF IInv

\* A correction goes out, or the write fails.
LEMMA ForwardKeeps ==
  ASSUME IInv, Forward
  PROVE  IInv'
  <1>1. /\ pc = "forward" /\ pc' = "call" /\ hand' = 0
        /\ UNCHANGED <<urcs, sending, reports, dppp, downlink, heard>>
        /\ \/ /\ forwarded' = Append(forwarded, hand)
              /\ stray' = IF dppp THEN 0 ELSE stray + 1
           \/ UNCHANGED <<forwarded, stray>>
    BY DEF Forward, reportVars
  <1>2. ReportsInv' /\ DownlinkInv'
    BY <1>1 DEF IInv, ReportsInv, DownlinkInv, IsDownlink, DownlinkIsLatest, IsHead
  <1>3. ForwardInv'
    <2>1. CASE UNCHANGED <<forwarded, stray>>
      BY <1>1, <2>1 DEF IInv, ForwardInv, IsHead
    <2>2. CASE /\ forwarded' = Append(forwarded, hand)
               /\ stray' = IF dppp THEN 0 ELSE stray + 1
      <3> DEFINE n == Len(forwarded)
      <3>1. forwarded \in Seq(Nat) /\ hand \in Nat /\ n \in Nat /\ stray = 0 /\ dppp \in BOOLEAN
        BY <1>1 DEF IInv, ForwardInv
      <3>2. /\ forwarded' \in Seq(Nat) /\ Len(forwarded') = n + 1 /\ forwarded'[n + 1] = hand
            /\ \A i \in 1 .. n : forwarded'[i] = forwarded[i]
        BY <2>2, <3>1
      <3>3. stray' \in {0, 1} /\ (dppp => stray' = 0)
        BY <2>2, <3>1
      <3> HIDE DEF n
      <3>4. ASSUME NEW i \in 1 .. Len(forwarded')
            PROVE  /\ \A j \in 1 .. Len(forwarded') : i < j => forwarded'[i] < forwarded'[j]
                   /\ forwarded'[i] <= reports
                   /\ \A j \in 1 .. Len(urcs) : IsHead(j) => forwarded'[i] < urcs[j].id
        <4>1. CASE i = n + 1
          BY <4>1, <3>1, <3>2, <1>1 DEF IInv, ForwardInv
        <4>2. CASE i # n + 1
          <5>1. i \in 1 .. n /\ forwarded'[i] = forwarded[i]
            BY <4>2, <3>1, <3>2
          <5>2. /\ forwarded[i] < hand /\ forwarded[i] <= reports
                /\ \A j \in 1 .. Len(urcs) : IsHead(j) => forwarded[i] < urcs[j].id
                /\ \A j \in 1 .. n : i < j => forwarded[i] < forwarded[j]
            BY <5>1, <1>1 DEF IInv, ForwardInv, n
          <5>3. ASSUME NEW j \in 1 .. Len(forwarded'), i < j
                PROVE  forwarded'[i] < forwarded'[j]
            <6>1. CASE j = n + 1
              BY <6>1, <5>1, <5>2, <3>2
            <6>2. CASE j # n + 1
              <7>1. j \in 1 .. n
                BY <6>2, <3>1, <3>2
              <7>2. QED
                BY <7>1, <5>1, <5>2, <5>3, <3>2
            <6>3. QED
              BY <6>1, <6>2
          <5>4. QED
            BY <5>1, <5>2, <5>3
        <4>3. QED
          BY <4>1, <4>2
      <3>5. QED
        BY <3>1, <3>2, <3>3, <3>4, <1>1 DEF ForwardInv, IsHead
    <2>3. QED
      BY <1>1, <2>1, <2>2
  <1>4. QED
    BY <1>2, <1>3 DEF IInv

\* The headers of a kind, and the report they begin.
LEMMA HeadsOfLine ==
  ASSUME IInv, NEW kind
  PROVE  /\ Heads(kind, urcs) \in SUBSET (1 .. Len(urcs))
         /\ \A i \in Heads(kind, urcs) :
              /\ IsHead(i) /\ urcs[i].id \in Nat /\ urcs[i].id <= reports
              /\ Whole(urcs, i) <=> i < Len(urcs)
  <1>1. Heads(kind, urcs) \in SUBSET (1 .. Len(urcs))
    BY DEF Heads
  <1>2. ASSUME NEW i \in Heads(kind, urcs)
        PROVE  /\ IsHead(i) /\ urcs[i].id \in Nat /\ urcs[i].id <= reports
               /\ Whole(urcs, i) <=> i < Len(urcs)
    <2>1. i \in 1 .. Len(urcs) /\ IsHead(i)
      BY DEF Heads, IsHead
    <2>2. urcs[i].id <= reports /\ (i < Len(urcs) => urcs[i + 1].part = "rest")
      BY <2>1 DEF IInv, ReportsInv
    <2>3. urcs[i] \in Report
      BY <2>1 DEF IInv, ReportsInv
    <2>4. QED
      BY <2>1, <2>2, <2>3 DEF Report, Whole
  <1>3. QED
    BY <1>1, <1>2

\* A correction that is taken is one of the line's, and dppp is on.
LEMMA TakenIsNew ==
  ASSUME IInv, TakeSsr(urcs)
  PROVE  \/ UNCHANGED <<hand, pc>>
         \/ /\ pc' = "forward" /\ dppp
            /\ \E i \in 1 .. Len(urcs) : IsHead(i) /\ hand' = urcs[i].id /\ urcs[i].id \in Nat
                                         /\ urcs[i].id <= reports
  <1> DEFINE heads == Heads("ssr", urcs)
             first == CHOOSE i \in heads : \A j \in heads : i <= j
  <1>1. CASE heads # {} /\ Whole(urcs, first) /\ dppp
    <2>1. heads \in SUBSET Nat
      BY HeadsOfLine
    <2>2. first \in heads
      BY <1>1, <2>1, LeastMember
    <2>3. pc' = "forward" /\ hand' = urcs[first].id
      BY <1>1 DEF TakeSsr
    <2> HIDE DEF first
    <2>4. QED
      BY <1>1, <2>2, <2>3, HeadsOfLine
  <1>2. CASE ~(heads # {} /\ Whole(urcs, first) /\ dppp)
    BY <1>2 DEF TakeSsr
  <1>3. QED
    BY <1>1, <1>2

\* A downlink that is stored is the newest that is whole, or a cut one behind it.
LEMMA StoredIsLatest ==
  ASSUME IInv, StoreDownlink(urcs)
  PROVE  /\ heard' \in Nat /\ heard' <= reports /\ DownlinkIsLatest'
         /\ IsDownlink' /\ downlink'.id <= reports /\ downlink'.over <= reports
  <1> DEFINE heads  == Heads("dl", urcs)
             entire == {i \in heads : Whole(urcs, i)}
             last   == CHOOSE i \in entire : \A j \in entire : j <= i
             cut    == heads \ entire
             kept   == IF entire = {} THEN downlink
                                      ELSE [id |-> urcs[last].id, whole |-> TRUE, over |-> 0]
  <1>1. /\ heard' = IF entire = {} THEN heard ELSE urcs[last].id
        /\ \/ downlink' = kept
           \/ \E i \in cut : \/ downlink' = [id |-> urcs[i].id, whole |-> FALSE, over |-> 0]
                             \/ downlink' = [kept EXCEPT !.over = urcs[i].id]
    BY DEF StoreDownlink
  <1>2. /\ heads \in SUBSET (1 .. Len(urcs)) /\ Len(urcs) \in Nat
        /\ \A i \in heads : /\ IsHead(i) /\ urcs[i].id \in Nat /\ urcs[i].id <= reports
                            /\ Whole(urcs, i) <=> i < Len(urcs)
                            /\ heard < urcs[i].id /\ downlink.id < urcs[i].id
    BY HeadsOfLine DEF IInv, ReportsInv, DownlinkInv
  <1>3. entire # {} => last \in entire
    BY <1>2, GreatestMember
  <1> HIDE DEF last
  <1>4. heard' \in Nat /\ heard' <= reports
    BY <1>1, <1>2, <1>3 DEF IInv, DownlinkInv
  <1>5. ASSUME NEW i \in cut PROVE heard' < urcs[i].id
    <2>1. CASE entire = {}
      BY <1>1, <1>2, <2>1
    <2>2. CASE entire # {}
      <3>1. last \in heads /\ last < Len(urcs) /\ i \in heads /\ ~(i < Len(urcs))
        BY <1>2, <1>3, <2>2
      <3>2. last < i /\ IsHead(last) /\ IsHead(i) /\ last \in 1 .. Len(urcs) /\ i \in 1 .. Len(urcs)
        BY <1>2, <3>1
      <3>3. QED
        BY <1>1, <2>2, <3>2 DEF IInv, ReportsInv
    <2>3. QED
      BY <2>1, <2>2
  <1> DEFINE Stored(d) == /\ d = [id |-> d.id, whole |-> d.whole, over |-> d.over]
                          /\ d.id \in Nat /\ d.whole \in BOOLEAN /\ d.over \in Nat
                          /\ d.id <= reports /\ d.over <= reports
                          /\ d.id = heard' \/ (~d.whole /\ d.id > heard')
  <1>6. Stored(kept) /\ (kept.over # 0 => kept.over > kept.id)
    <2>1. CASE entire = {}
      BY <1>1, <2>1 DEF IInv, DownlinkInv, IsDownlink, DownlinkIsLatest
    <2>2. CASE entire # {}
      <3>1. /\ kept = [id |-> urcs[last].id, whole |-> TRUE, over |-> 0] /\ heard' = urcs[last].id
            /\ urcs[last].id \in Nat /\ urcs[last].id <= reports
        BY <1>1, <1>2, <1>3, <2>2
      <3>2. 0 <= reports
        BY DEF IInv, ReportsInv
      <3> HIDE DEF kept
      <3>3. QED
        BY <3>1, <3>2
    <2>3. QED
      BY <2>1, <2>2
  <1>7. \A i \in cut : kept.id < urcs[i].id
    <2>1. CASE entire = {}
      BY <1>2, <2>1
    <2>2. CASE entire # {}
      <3>1. kept.id = heard'
        BY <1>1, <2>2
      <3>2. QED
        BY <1>5, <3>1
    <2>3. QED
      BY <2>1, <2>2
  <1> HIDE DEF kept
  <1>8. Stored(downlink') /\ (downlink'.over # 0 => downlink'.over > downlink'.id)
    <2>1. CASE downlink' = kept
      BY <1>6, <2>1, Zenon
    <2>2. ASSUME NEW i \in cut, downlink' = [id |-> urcs[i].id, whole |-> FALSE, over |-> 0]
          PROVE  Stored(downlink') /\ downlink'.over = 0
      <3>1. urcs[i].id \in Nat /\ urcs[i].id <= reports /\ urcs[i].id > heard' /\ 0 <= reports
        BY <1>2, <1>4, <1>5 DEF IInv, ReportsInv
      <3>2. QED
        BY <2>2, <3>1
    <2>3. ASSUME NEW i \in cut, downlink' = [kept EXCEPT !.over = urcs[i].id]
          PROVE  Stored(downlink') /\ downlink'.over > downlink'.id
      <3>1. /\ downlink' = [id |-> kept.id, whole |-> kept.whole, over |-> urcs[i].id]
            /\ kept.id < urcs[i].id /\ urcs[i].id \in Nat /\ urcs[i].id <= reports
        BY <1>2, <1>6, <1>7, <2>3
      <3>2. QED
        BY <1>6, <3>1
    <2>4. QED
      BY <1>1, <2>1, <2>2, <2>3, Zenon
  <1>9. QED
    BY <1>4, <1>8 DEF IsDownlink, DownlinkIsLatest

\* A capture online takes all there is on the line.
LEMMA CaptureKeeps ==
  ASSUME IInv, CaptureReports
  PROVE  IInv'
  <1>1. /\ pc = "call" /\ StoreDownlink(urcs) /\ TakeSsr(urcs)
        /\ urcs' = <<>> /\ UNCHANGED <<sending, reports, dppp, forwarded, stray>>
    BY DEF CaptureReports, Emptied
  <1>2. Len(urcs') = 0 /\ urcs' \in Seq(Report)
    BY <1>1
  <1>3. ReportsInv'
    BY <1>1, <1>2 DEF IInv, ReportsInv
  <1>4. DownlinkInv'
    BY <1>1, <1>2, StoredIsLatest DEF DownlinkInv
  <1>5. ForwardInv'
    <2>1. CASE UNCHANGED <<hand, pc>>
      BY <1>1, <1>2, <2>1 DEF IInv, ForwardInv
    <2>2. CASE /\ pc' = "forward" /\ dppp
               /\ \E i \in 1 .. Len(urcs) : IsHead(i) /\ hand' = urcs[i].id
                                            /\ urcs[i].id \in Nat /\ urcs[i].id <= reports
      BY <1>1, <1>2, <2>2 DEF IInv, ForwardInv
    <2>3. QED
      BY <1>1, <2>1, <2>2, TakenIsNew
  <1>6. QED
    BY <1>3, <1>4, <1>5 DEF IInv

\* The GNSS module changes its mode: what is on its way may be the one stray correction.
LEMMA ModeKeeps ==
  ASSUME IInv, ModeChange
  PROVE  IInv'
  <1>1. /\ dppp' = ~dppp /\ stray' = 0
        /\ UNCHANGED <<urcs, sending, reports, pc, hand, forwarded, downlink, heard>>
    BY DEF ModeChange, threadVars, reportVars
  <1>2. ReportsInv' /\ DownlinkInv'
    BY <1>1 DEF IInv, ReportsInv, DownlinkInv, IsDownlink, DownlinkIsLatest, IsHead
  <1>3. dppp' \in BOOLEAN
    BY <1>1 DEF IInv, ForwardInv
  <1>4. ForwardInv'
    BY <1>1, <1>3 DEF IInv, ForwardInv, IsHead
  <1>5. QED
    BY <1>2, <1>4 DEF IInv

(***************************************************************************)
(* All else the thread, the module and the rest of the program do takes no *)
(* report, and sends none on.                                              *)
(***************************************************************************)
NoneTaken == /\ urcs' = urcs \/ urcs' = <<>>
             /\ UNCHANGED <<sending, reports, onlineVars, dppp>>
             /\ pc' = pc \/ pc' # "forward"

\* Between captures.
LEMMA QuietSteps ==
  ASSUME \/ OpenDevice \/ PowerOn \/ WriteCommand \/ WriteFails \/ CaptureNothing
         \/ UplinkNotDue \/ NoSms \/ AskPrompt
  PROVE  NoneTaken
  <1> USE DEF NoneTaken, reportVars
  <1>1. CASE OpenDevice
    BY <1>1 DEF OpenDevice
  <1>2. CASE PowerOn
    BY <1>2 DEF PowerOn
  <1>3. CASE WriteCommand
    BY <1>3 DEF WriteCommand
  <1>4. CASE WriteFails
    BY <1>4 DEF WriteFails, StepDone
  <1>5. CASE CaptureNothing
    BY <1>5 DEF CaptureNothing
  <1>6. CASE UplinkNotDue
    BY <1>6 DEF UplinkNotDue
  <1>7. CASE NoSms
    BY <1>7 DEF NoSms
  <1>8. CASE AskPrompt
    BY <1>8 DEF AskPrompt
  <1>9. QED
    BY <1>1, <1>2, <1>3, <1>4, <1>5, <1>6, <1>7, <1>8

\* A capture that is after something else drops the reports it meets.
LEMMA OtherCaptures ==
  ASSUME \/ CaptureResponse \/ CaptureTimeout \/ CaptureError \/ AwaitActivation
         \/ CapturePrompt \/ CaptureResult \/ SmsTimeout \/ SmsError
  PROVE  NoneTaken
  <1> USE DEF NoneTaken, reportVars, Emptied
  <1>1. CASE CaptureResponse
    BY <1>1 DEF CaptureResponse, StepDone
  <1>2. CASE CaptureTimeout
    BY <1>2 DEF CaptureTimeout, StepDone
  <1>3. CASE CaptureError
    BY <1>3 DEF CaptureError, StepDone
  <1>4. CASE AwaitActivation
    BY <1>4 DEF AwaitActivation
  <1>5. CASE CapturePrompt
    BY <1>5 DEF CapturePrompt, SmsVars
  <1>6. CASE CaptureResult
    BY <1>6 DEF CaptureResult, SmsVars
  <1>7. CASE SmsTimeout
    BY <1>7 DEF SmsTimeout, GiveUpSms, SmsVars
  <1>8. CASE SmsError
    BY <1>8 DEF SmsError, GiveUpSms, SmsVars
  <1>9. QED
    BY <1>1, <1>2, <1>3, <1>4, <1>5, <1>6, <1>7, <1>8

\* What is not the thread, reports nothing and leaves the GNSS module's mode.
LEMMA Environment ==
  ASSUME \/ Comply \/ Refuse \/ Activate \/ IntervalPasses \/ ChangeMode \/ WantSms
         \/ UNCHANGED vars
  PROVE  NoneTaken
  <1> USE DEF NoneTaken, reportVars, threadVars
  <1>1. CASE Comply
    BY <1>1 DEF Comply
  <1>2. CASE Refuse
    BY <1>2 DEF Refuse
  <1>3. CASE Activate
    BY <1>3 DEF Activate
  <1>4. CASE IntervalPasses
    BY <1>4 DEF IntervalPasses
  <1>5. CASE ChangeMode
    BY <1>5 DEF ChangeMode
  <1>6. CASE WantSms
    BY <1>6 DEF WantSms
  <1>7. CASE UNCHANGED vars
    BY <1>7 DEF vars
  <1>8. QED
    BY <1>1, <1>2, <1>3, <1>4, <1>5, <1>6, <1>7

\* Every step keeps the invariant.
LEMMA StepInv == IInv /\ [Next]_vars => IInv'
  <1> SUFFICES ASSUME IInv, [Next]_vars PROVE IInv'
    OBVIOUS
  <1>1. CASE NoneTaken
    BY <1>1, NoReportTaken DEF NoneTaken
  <1>2. CASE CaptureReports
    BY <1>2, CaptureKeeps
  <1>3. CASE Forward
    BY <1>3, ForwardKeeps
  <1>4. ASSUME NEW kind \in {"ssr", "dl"}, ReportHead(kind)
        PROVE  IInv'
    BY <1>4, HeadKeeps
  <1>5. CASE ReportRest
    BY <1>5, RestKeeps
  <1>6. CASE ModeChange
    BY <1>6, ModeKeeps
  <1>7. QED
    BY <1>1, <1>2, <1>3, <1>4, <1>5, <1>6, QuietSteps, OtherCaptures, Environment
    DEF Next, Thread, Module, Setback

\* The invariant holds throughout.
LEMMA Invariant == Spec => []IInv
  BY InitInv, StepInv, PTL DEF Spec

\* Corrections are forwarded in the order they were sent, none twice, and at most one after
\* the GNSS module has left mode dppp, wherever captures cut the stream (dbb_handle.c:859-918).
THEOREM CorrectionsInOrder == Spec => []ForwardedInOrder
  <1>1. IInv => ForwardedInOrder
    <2>1. ForwardInv => ForwardedInOrder
      BY DEF ForwardInv, ForwardedInOrder
    <2>2. QED
      BY <2>1, Zenon DEF IInv
  <1>2. QED
    BY <1>1, Invariant, PTL

\* The downlink whose length and text are kept is the newest that was captured whole, or a
\* cut one that came after it, and nothing but a beginning of a cut one that came later still
\* is mixed with its bytes (dbb_handle.c:160-188, 801-857).
THEOREM NewestDownlinkKept == Spec => []DownlinkIsLatest
  <1>1. IInv => DownlinkIsLatest
    BY DEF IInv, DownlinkInv
  <1>2. QED
    BY <1>1, Invariant, PTL

(***************************************************************************)
(* The message.  It is sent again only when its result was missed, and     *)
(* that only after a setback: a prompt, and the text that answers it, are  *)
(* never under way twice, so that the result of a text that is accepted    *)
(* comes when the thread waits for it, or late.                            *)
(***************************************************************************)
\* where the thread is
PlaceInv ==
  /\ pc \in {"start", "call", "wait", "forward", "prompt", "result"}
  /\ turn \in {"capture", "uplink", "sms"} /\ step \in Nat \ {0} /\ modes \in Nat
  /\ turn # "capture" => mode = "NORMAL" /\ status = "ONLINE" /\ step = 1
  /\ pc \in {"prompt", "result"} => turn = "sms" /\ sms = "wanted"
  /\ pc = "wait" => /\ task \in DOMAIN Scripts /\ step \in 1 .. Len(Scripts[task])
                    /\ turn # "sms" /\ (turn = "uplink" <=> task = "uplink")
                    /\ task \in Registration => task = status
  /\ pc # "wait" /\ step > 1 => task \in {"broadcast", "normal"} /\ step \in 1 .. Len(Scripts[task])
  /\ mode = "NORMAL" => modes > 0

\* the status on the way
ActiveInv == /\ status \in {"WAIT_CIREG", "ONLINE"} => active = TRUE
             /\ "+CREV" \in Texts(line) => active = TRUE

Pdu(i) == i \in 1 .. Len(asked) /\ asked[i][1] = "PDU"

\* what the thread writes
Commands == {<<"CMGS", 0>>, <<"PDU", 0>>}
              \cup UNION {{Scripts[t][i].ask : i \in 1 .. Len(Scripts[t])} : t \in DOMAIN Scripts}

\* a prompt on its way to the thread, or a text on its way to the module
PromptInv ==
  /\ asked \in Seq(Commands) /\ entry \in {"command", "empty", "spoilt"}
  /\ ">" \in Texts(line) => entry # "command" /\ \A i \in 1 .. Len(asked) : ~Pdu(i)
  /\ \A i \in 1 .. Len(asked) : Pdu(i) => entry # "command"
  /\ \A i, j \in 1 .. Len(asked) : Pdu(i) /\ Pdu(j) => i = j

Accepting == entry = "empty" /\ Pdu(1)
Owed == IF Accepting THEN sent + 1 ELSE sent

SentInv ==
  /\ sent \in Nat /\ setbacks \in Nat /\ sms \in {"none", "wanted", "done"}
  /\ Owed <= setbacks + 1
  /\ sms # "done" /\ pc # "result" => Owed <= setbacks
  /\ pc = "result" => \/ Owed <= setbacks
                      \/ Accepting
                      \/ {"OK", "+CMGS:"} \in line
  /\ "+CMGS:" \in Texts(line) \/ sms = "done" => sent > 0

MessageInv == PlaceInv /\ ActiveInv /\ PromptInv /\ SentInv

\* the scripts of the registration have one step each, and none writes a text
LEMMA ScriptFacts ==
  ASSUME NEW t \in DOMAIN Scripts
  PROVE  /\ Len(Scripts[t]) \in Nat \ {0}
         /\ t \notin {"broadcast", "normal"} => Len(Scripts[t]) = 1
         /\ \A i \in 1 .. Len(Scripts[t]) : Scripts[t][i].ask[1] # "PDU"
         /\ t = "WAIT_CIREG" => Scripts[t][1].must # {}
  <1>1. t \in {"broadcast", "normal", "POWER_ON", "SIM_READY", "CFUN_OK", "CREG_OK", "CNMI_OK",
               "DSCI_OK", "CGDCONT_OK", "WAIT_CREGXW", "WAIT_CIREG", "uplink"}
    BY DEF Scripts
  <1> DEFINE One(cmd) == cmd.ask[1] # "PDU"
  <1>2. CASE t = "broadcast"
    <2>1. Scripts[t] = <<Ok("MISWITCH", 0), Ok("BMCARDSWITCH", 0), Ok("DUMMYUSIM", 1),
                         Cmd("BBICRSTSW", 1, {}), Ok("SSRINFOXW", 1), Ok("CFUN", 1)>>
      BY <1>2 DEF Scripts
    <2>2. Len(Scripts[t]) = 6
      BY <2>1
    <2>3. \A i \in 1 .. 6 : One(Scripts[t][i])
      <3>1. /\ One(Ok("MISWITCH", 0)) /\ One(Ok("BMCARDSWITCH", 0)) /\ One(Ok("DUMMYUSIM", 1))
            /\ One(Cmd("BBICRSTSW", 1, {})) /\ One(Ok("SSRINFOXW", 1)) /\ One(Ok("CFUN", 1))
        BY DEF Ok, Cmd
      <3> HIDE DEF One
      <3>2. QED
        BY <2>1, <3>1
    <2>4. QED
      BY <1>2, <2>2, <2>3
  <1>3. CASE t = "normal"
    <2>1. Scripts[t] = <<Ok("MISWITCH", 1), Ok("BMCARDSWITCH", 1), Cmd("BBICRSTSW", 0, {})>>
      BY <1>3 DEF Scripts
    <2>2. Len(Scripts[t]) = 3
      BY <2>1
    <2>3. \A i \in 1 .. 3 : One(Scripts[t][i])
      <3>1. One(Ok("MISWITCH", 1)) /\ One(Ok("BMCARDSWITCH", 1)) /\ One(Cmd("BBICRSTSW", 0, {}))
        BY DEF Ok, Cmd
      <3> HIDE DEF One
      <3>2. QED
        BY <2>1, <3>1
    <2>4. QED
      BY <1>3, <2>2, <2>3
  <1>4. CASE t \notin {"broadcast", "normal"}
    <2>1. Scripts[t] \in {<<Ok("CIMI", 0)>>, <<Ok("CFUN", 5)>>, <<Ok("CREG", 1)>>, <<Ok("CNMI", 2)>>,
                          <<Ok("DSCI", 1)>>, <<Ok("CGDCONT", 1)>>, <<Ok("PSDATA", 2)>>,
                          <<Cmd("CREGXW", 0, {"OK", "+CREGXW:1"})>>,
                          <<Cmd("CIREG", 0, {"OK", "+CIREG:1"})>>, <<Ok("ULNETDATA", 0)>>}
      BY <1>1, <1>4 DEF Scripts
    <2>2. Len(Scripts[t]) = 1 /\ One(Scripts[t][1])
      BY <2>1 DEF Ok, Cmd
    <2>3. t = "WAIT_CIREG" => Scripts[t][1].must # {}
      BY DEF Scripts, Cmd
    <2>4. QED
      BY <1>4, <2>2, <2>3
  <1>5. QED
    BY <1>2, <1>3, <1>4

\* A bound that is raised still is one.
LEMMA StillBelow ==
  ASSUME NEW n \in Nat, NEW b \in Nat, NEW c \in Nat, b <= c
  PROVE  (n <= b => n <= c /\ n <= c + 1) /\ (n <= b + 1 => n <= c + 1)
  OBVIOUS

\* A step that begins no text, and does not wait for the result of one.
LEMMA NoText ==
  ASSUME PromptInv, SentInv, UNCHANGED <<entry, sent>>, setbacks' \in Nat, setbacks <= setbacks',
         asked' = asked \/ \E c \in Commands : c[1] # "PDU" /\ asked' = Append(asked, c),
         line' = line \/ line' = {},
         sms' = sms \/ (sms = "none" /\ sms' = "wanted"),
         \/ pc # "result" /\ pc' # "result"
         \/ UNCHANGED <<pc, asked, line, sms>>
  PROVE  PromptInv' /\ SentInv'
  <1>1. /\ asked' \in Seq(Commands) /\ Len(asked) <= Len(asked')
        /\ \A i \in 1 .. Len(asked') : Pdu(i)' => Pdu(i)
        /\ \A i \in 1 .. Len(asked) : Pdu(i) => Pdu(i)'
    <2>1. CASE asked' = asked
      BY <2>1 DEF PromptInv, Pdu
    <2>2. ASSUME NEW c \in Commands, c[1] # "PDU", asked' = Append(asked, c)
          PROVE  <1>1!:
      <3>1. /\ asked \in Seq(Commands) /\ asked' \in Seq(Commands) /\ Len(asked') = Len(asked) + 1
            /\ \A i \in 1 .. Len(asked) : asked'[i] = asked[i]
            /\ asked'[Len(asked) + 1] = c /\ Len(asked) \in Nat
        BY <2>2 DEF PromptInv
      <3> HIDE DEF Commands
      <3>2. QED
        BY <2>2, <3>1 DEF Pdu
    <2>3. QED
      BY <2>1, <2>2
  <1>2. Texts(line') \subseteq Texts(line)
    BY DEF Texts
  <1>3. PromptInv'
    BY <1>1, <1>2 DEF PromptInv, Pdu
  <1>4. Accepting' <=> Accepting
    <2>1. Len(asked) \in Nat /\ Len(asked') \in Nat
      BY <1>1 DEF PromptInv
    <2>2. Pdu(1)' <=> Pdu(1)
      BY <1>1, <2>1 DEF Pdu
    <2>3. QED
      BY <2>2 DEF Accepting
  <1>5. Owed' = Owed /\ Owed \in Nat
    BY <1>4 DEF Owed, SentInv
  <1>6. /\ setbacks \in Nat
        /\ Owed <= setbacks + 1 => Owed' <= setbacks' + 1
        /\ Owed <= setbacks => Owed' <= setbacks'
    <2>1. setbacks \in Nat
      BY DEF SentInv
    <2>2. /\ Owed <= setbacks => Owed <= setbacks'
          /\ Owed <= setbacks + 1 => Owed <= setbacks' + 1
      BY ONLY <1>5, <2>1, setbacks' \in Nat, setbacks <= setbacks', StillBelow
    <2>3. QED
      BY ONLY <1>5, <2>1, <2>2
  <1>7. SentInv'
    <2>1. /\ sent' \in Nat /\ sms' \in {"none", "wanted", "done"} /\ setbacks \in Nat
          /\ sms' # "done" <=> sms # "done"
          /\ "+CMGS:" \in Texts(line') \/ sms' = "done" => sent' > 0
      BY <1>2 DEF SentInv
    <2>2. Owed' <= setbacks' + 1
      <3>1. Owed <= setbacks + 1
        BY DEF SentInv
      <3>2. QED
        BY ONLY <1>6, <2>1, <3>1
    <2>3. sms' # "done" /\ pc' # "result" => Owed' <= setbacks'
      <3>1. sms # "done" /\ pc # "result" => Owed <= setbacks
        BY DEF SentInv
      <3>2. pc' # "result" => pc # "result"
        OBVIOUS
      <3>3. QED
        BY ONLY <1>6, <2>1, <3>1, <3>2
    <2>4. pc' = "result" => \/ Owed' <= setbacks'
                            \/ Accepting'
                            \/ {"OK", "+CMGS:"} \in line'
      <3>1. SUFFICES ASSUME pc' = "result", UNCHANGED <<pc, line>>
                     PROVE  \/ Owed' <= setbacks'
                            \/ Accepting'
                            \/ {"OK", "+CMGS:"} \in line'
        OBVIOUS
      <3>2. \/ Owed <= setbacks
            \/ Accepting
            \/ {"OK", "+CMGS:"} \in line
        BY ONLY SentInv, <3>1 DEF SentInv
      <3>3. CASE Owed <= setbacks
        BY ONLY <1>6, <3>3
      <3>4. QED
        BY <1>4, <3>1, <3>2, <3>3
    <2>5. QED
      BY <2>1, <2>2, <2>3, <2>4 DEF SentInv
  <1>8. QED
    BY <1>3, <1>7

\* The text that answers a prompt: it is accepted when the module waits for it.
LEMMA TextBegun ==
  ASSUME PlaceInv, PromptInv, SentInv, CapturePrompt
  PROVE  PromptInv' /\ SentInv'
  <1>1. /\ pc = "prompt" /\ sms = "wanted" /\ line' = {} /\ urcs' = <<>>
        /\ UNCHANGED <<entry, sent, setbacks, sms>>
    BY DEF CapturePrompt, PlaceInv, SmsVars, cellVars
  <1>2. CASE ">" \notin Texts(line)
    <2>1. pc' = "call" /\ asked' = asked
      BY <1>2 DEF CapturePrompt
    <2>2. setbacks' \in Nat /\ setbacks <= setbacks'
      BY <1>1 DEF SentInv
    <2>3. QED
      BY <1>1, <2>1, <2>2, NoText
  <1>3. CASE ">" \in Texts(line)
    <2>1. pc' = "result" /\ asked' = Append(asked, <<"PDU", 0>>)
      BY <1>3 DEF CapturePrompt
    <2>2. /\ asked \in Seq(Commands) /\ entry \in {"empty", "spoilt"}
          /\ \A i \in 1 .. Len(asked) : ~Pdu(i)
      BY <1>3 DEF PromptInv
    <2>3. /\ asked' \in Seq(Commands) /\ Len(asked) \in Nat /\ Len(asked') = Len(asked) + 1
          /\ \A i \in 1 .. Len(asked) : asked'[i] = asked[i]
      <3>1. <<"PDU", 0>> \in Commands
        BY DEF Commands
      <3>2. QED
        BY <2>1, <2>2, <3>1
    <2>4. \A i \in 1 .. Len(asked') : Pdu(i)' => i = Len(asked')
      BY <2>2, <2>3 DEF Pdu
    <2>5. Texts(line') = {}
      BY <1>1 DEF Texts
    <2>6. PromptInv'
      BY <1>1, <2>2, <2>3, <2>4, <2>5 DEF PromptInv
    <2>7. ~Accepting /\ Owed = sent /\ sent <= setbacks /\ sent \in Nat /\ setbacks \in Nat
      <3>1. ~Accepting
        BY <2>2 DEF Accepting, Pdu
      <3>2. Owed = sent
        BY <3>1 DEF Owed
      <3>3. QED
        BY <1>1, <3>1, <3>2 DEF SentInv
    <2>8. SentInv'
      <3>1. CASE Accepting'
        <4>1. Owed' = sent + 1
          BY <1>1, <3>1 DEF Owed
        <4>2. QED
          BY <1>1, <2>1, <2>5, <2>7, <3>1, <4>1 DEF SentInv
      <3>2. CASE ~Accepting'
        <4>1. Owed' = sent
          BY <1>1, <3>2 DEF Owed
        <4>2. QED
          BY <1>1, <2>1, <2>5, <2>7, <4>1 DEF SentInv
      <3>3. QED
        BY <3>1, <3>2
    <2>9. QED
      BY <2>6, <2>8
  <1>4. QED
    BY <1>2, <1>3

\* A setback in normal mode is counted.
LEMMA Spent ==
  ASSUME NEW wrong \in BOOLEAN, Spend(wrong), setbacks \in Nat
  PROVE  /\ setbacks' \in Nat /\ setbacks <= setbacks'
         /\ wrong /\ mode = "NORMAL" => setbacks' = setbacks + 1
  BY DEF Spend

\* The result of a text is taken, or missed.
LEMMA ResultTaken ==
  ASSUME PlaceInv, PromptInv, SentInv, CaptureResult \/ SmsTimeout \/ SmsError
  PROVE  PromptInv' /\ SentInv'
  <1>1. /\ pc' = "call" /\ UNCHANGED <<entry, sent, asked>> /\ (line' = line \/ line' = {})
        /\ turn = "sms" /\ mode = "NORMAL" /\ sms = "wanted"
    BY DEF CaptureResult, SmsTimeout, SmsError, GiveUpSms, SmsVars, cellVars, atVars, Emptied, PlaceInv
  <1>2. PromptInv'
    <2>1. Texts(line') \subseteq Texts(line)
      BY <1>1 DEF Texts
    <2>2. \A i : Pdu(i)' <=> Pdu(i)
      BY <1>1 DEF Pdu
    <2>3. QED
      BY <1>1, <2>1, <2>2 DEF PromptInv
  <1>3. Owed' = Owed /\ Owed \in Nat /\ sent \in Nat /\ setbacks \in Nat /\ Owed <= setbacks + 1
    <2>1. Accepting' <=> Accepting
      BY <1>1 DEF Accepting, Pdu
    <2>2. QED
      BY <1>1, <2>1 DEF Owed, SentInv
  <1>4. "+CMGS:" \in Texts(line') => sent' > 0
    BY <1>1 DEF SentInv, Texts
  <1>5. CASE CaptureResult
    <2> DEFINE missed == asked # <<>> /\ sms' # "done"
    <2>1. /\ pc = "result" /\ Spend(missed) /\ (line # {} \/ urcs # <<>>)
          /\ sms' = IF {"OK", "+CMGS:"} \subseteq Texts(line) THEN "done" ELSE sms
      BY <1>5 DEF CaptureResult
    <2>2. setbacks' \in Nat /\ setbacks <= setbacks' /\ (missed => setbacks' = setbacks + 1)
      BY <1>1, <1>3, <2>1, Spent
    <2>3. sms' \in {"none", "wanted", "done"} /\ (sms' = "done" => sent > 0)
      BY <1>1, <2>1 DEF SentInv
    <2>4. Owed <= setbacks' + 1
      BY ONLY <1>3, <2>2, StillBelow
    <2>5. sms' # "done" => Owed <= setbacks'
      <3>1. SUFFICES ASSUME sms' # "done" PROVE Owed <= setbacks'
        BY Zenon
      <3>2. CASE Owed <= setbacks
        BY ONLY <1>3, <2>2, <3>2, StillBelow
      <3>3. CASE Accepting
        <4>1. asked # <<>>
          BY <3>3 DEF Accepting, Pdu
        <4>2. setbacks' = setbacks + 1
          BY <2>2, <3>1, <4>1
        <4>3. QED
          BY <1>3, <4>2
      <3>4. CASE {"OK", "+CMGS:"} \in line
        <4>1. {"OK", "+CMGS:"} \subseteq Texts(line)
          BY <3>4 DEF Texts
        <4>2. QED
          BY <2>1, <3>1, <4>1, Zenon
      <3>5. QED
        BY <2>1, <3>2, <3>3, <3>4, Zenon DEF SentInv
    <2>6. Owed' <= setbacks' + 1 /\ (sms' # "done" => Owed' <= setbacks') /\ sent' \in Nat
      BY ONLY <1>1, <1>3, <2>4, <2>5
    <2>7. SentInv'
      BY ONLY <1>1, <1>4, <2>2, <2>3, <2>6 DEF SentInv
    <2>8. QED
      BY <1>2, <2>7
  <1>6. CASE SmsTimeout \/ SmsError
    <2>1. sms' = sms
      BY <1>6 DEF SmsTimeout, SmsError, GiveUpSms
    <2>2. setbacks' \in Nat /\ Owed <= setbacks'
      <3>1. CASE SmsError
        BY <1>1, <1>3, <3>1, Spent DEF SmsError
      <3>2. CASE SmsTimeout
        <4>1. line = {} /\ Spend(asked # <<>>) /\ pc \in {"prompt", "result"}
          BY <3>2 DEF SmsTimeout
        <4>2. CASE Owed <= setbacks
          <5>1. setbacks' \in Nat /\ setbacks <= setbacks'
            BY <1>3, <4>1 DEF Spend
          <5>2. QED
            BY ONLY <1>3, <4>2, <5>1, StillBelow
        <4>3. CASE ~(Owed <= setbacks)
          <5>1. Accepting
            BY <1>1, <4>1, <4>3 DEF SentInv
          <5>2. asked # <<>>
            BY <5>1 DEF Accepting, Pdu
          <5>3. Spend(TRUE)
            BY <4>1, <5>2
          <5>4. QED
            BY <1>1, <1>3, <5>3, Spent
        <4>4. QED
          BY <4>2, <4>3
      <3>3. QED
        BY <1>6, <3>1, <3>2
    <2>3. Owed' <= setbacks' /\ Owed' <= setbacks' + 1 /\ sent' \in Nat
      <3>1. setbacks' <= setbacks'
        BY <2>2
      <3>2. Owed <= setbacks' + 1
        BY ONLY <1>3, <2>2, <3>1, StillBelow
      <3>3. QED
        BY ONLY <1>1, <1>3, <2>2, <3>2
    <2>4. sms' = "wanted" /\ pc' = "call"
      BY <1>1, <2>1
    <2>5. SentInv'
      BY ONLY <1>4, <2>2, <2>3, <2>4 DEF SentInv
    <2>6. QED
      BY <1>2, <2>5
  <1>7. QED
    BY <1>5, <1>6

\* The module takes its oldest command.
LEMMA OldestTaken ==
  ASSUME PromptInv, asked # <<>>, asked' = Tail(asked)
  PROVE  /\ asked' \in Seq(Commands) /\ Len(asked) \in Nat \ {0} /\ Len(asked') = Len(asked) - 1
         /\ \A i \in 1 .. Len(asked') : Pdu(i)' => Pdu(i + 1)
  <1>1. asked \in Seq(Commands)
    BY DEF PromptInv
  <1>2. /\ asked' \in Seq(Commands) /\ Len(asked) \in Nat \ {0} /\ Len(asked') = Len(asked) - 1
        /\ \A i \in 1 .. Len(asked') : asked'[i] = asked[i + 1]
    BY <1>1
  <1>3. QED
    BY <1>2 DEF Pdu

\* So is one of less.
LEMMA Bounded ==
  ASSUME NEW m \in Nat, NEW n \in Nat, NEW b \in Nat, NEW c \in Nat, m <= n, b <= c
  PROVE  (n <= b => m <= c) /\ (n <= b + 1 => m <= c + 1)
  OBVIOUS

\* What the module does is in order with the message.
LEMMA Answered ==
  ASSUME SentInv, UNCHANGED <<pc, sms>>, sent' \in Nat, sent <= sent', setbacks' \in Nat,
         setbacks <= setbacks', Owed' \in Nat, Owed' <= Owed, line \subseteq line',
         pc = "result" /\ Accepting => {"OK", "+CMGS:"} \in line' \/ Owed' <= setbacks',
         "+CMGS:" \in Texts(line') => sent' > 0
  PROVE  SentInv'
  <1>1. sent \in Nat /\ setbacks \in Nat /\ Owed \in Nat
    BY DEF SentInv, Owed
  <1>2. Owed <= setbacks => Owed' <= setbacks'
    BY ONLY <1>1, setbacks' \in Nat, setbacks <= setbacks', Owed' \in Nat, Owed' <= Owed, Bounded
  <1>3. Owed <= setbacks + 1 => Owed' <= setbacks' + 1
    BY ONLY <1>1, setbacks' \in Nat, setbacks <= setbacks', Owed' \in Nat, Owed' <= Owed, Bounded
  <1>4. pc = "result" => \/ Owed' <= setbacks'
                         \/ {"OK", "+CMGS:"} \in line'
    BY <1>2 DEF SentInv
  <1>5. sms = "done" => sent' > 0
    BY <1>1 DEF SentInv
  <1>6. QED
    BY <1>2, <1>3, <1>4, <1>5 DEF SentInv

\* The module accepts a command, prompts for a text, or accepts it.
LEMMA ComplyKeeps ==
  ASSUME PlaceInv, PromptInv, SentInv, Comply
  PROVE  PromptInv' /\ SentInv'
  <1> DEFINE cmd == Head(asked)
  <1>1. /\ asked # <<>> /\ asked' = Tail(asked) /\ UNCHANGED <<pc, sms, setbacks>>
        /\ entry \in {"command", "empty", "spoilt"} /\ sent \in Nat /\ setbacks \in Nat
    BY DEF Comply, Reply, threadVars, PromptInv, SentInv
  <1>2. /\ asked' \in Seq(Commands) /\ Len(asked) \in Nat \ {0} /\ Len(asked') = Len(asked) - 1
        /\ \A i \in 1 .. Len(asked') : Pdu(i)' => Pdu(i + 1)
    BY <1>1, OldestTaken
  <1>3. cmd = asked[1] /\ (cmd[1] = "PDU" <=> Pdu(1))
    <2>1. cmd = asked[1]
      BY <1>1 DEF PromptInv
    <2>2. QED
      BY <1>2, <2>1 DEF Pdu
  <1>4. \A i, j \in 1 .. Len(asked') : Pdu(i)' /\ Pdu(j)' => i = j
    <2>1. \A i \in 1 .. Len(asked') : i \in Int /\ i + 1 \in 1 .. Len(asked)
      BY <1>2
    <2>2. SUFFICES ASSUME NEW i \in 1 .. Len(asked'), NEW j \in 1 .. Len(asked'), Pdu(i)', Pdu(j)'
                   PROVE  i = j
      OBVIOUS
    <2>3. i + 1 = j + 1
      BY <1>2, <2>1, <2>2 DEF PromptInv
    <2>4. QED
      BY <2>1, <2>3
  <1>5. CASE entry = "command"
    <2>1. \A i \in 1 .. Len(asked) : ~Pdu(i)
      BY <1>5 DEF PromptInv
    <2>2. \A i \in 1 .. Len(asked') : ~Pdu(i)'
      BY <1>2, <2>1
    <2>3. /\ sent' = sent /\ entry' \in {"command", "empty"}
          /\ \E says : /\ line' = line \cup {says} /\ "+CMGS:" \notin says
                       /\ ">" \in says => entry' = "empty"
      <3>1. sent' = sent
        BY <1>5 DEF Comply
      <3>2. CASE cmd[1] = "CMGS"
        BY <1>5, <3>1, <3>2 DEF Comply, Reply
      <3>3. CASE cmd[1] # "CMGS"
        <4> DEFINE says == {"OK"} \cup {Registered[n] : n \in {cmd[1]} \cap DOMAIN Registered}
        <4>1. entry' = entry /\ line' = line \cup {says}
          BY <1>5, <3>3 DEF Comply, Reply
        <4>2. \A n \in DOMAIN Registered : Registered[n] \in {"+CREGXW:1", "+CIREG:1"}
          BY DEF Registered
        <4>3. "+CMGS:" \notin says /\ ">" \notin says
          BY <4>2
        <4> HIDE DEF says
        <4>4. QED
          BY <1>5, <3>1, <4>1, <4>3
      <3>4. QED
        BY <3>2, <3>3
    <2>4. /\ line \subseteq line'
          /\ ">" \in Texts(line') => ">" \in Texts(line) \/ entry' = "empty"
          /\ "+CMGS:" \in Texts(line') => "+CMGS:" \in Texts(line)
      BY <2>3 DEF Texts
    <2>5. PromptInv'
      BY <1>2, <1>5, <2>2, <2>3, <2>4 DEF PromptInv
    <2>6. ~Accepting /\ ~Accepting'
      BY <1>2, <1>5, <2>2 DEF Accepting, Pdu
    <2>7. Owed = sent /\ Owed' = sent
      BY <2>3, <2>6 DEF Owed
    <2>8. "+CMGS:" \in Texts(line') => sent' > 0
      BY <2>3, <2>4 DEF SentInv
    <2>9. SentInv'
      BY <1>1, <2>3, <2>4, <2>6, <2>7, <2>8, Answered
    <2>10. QED
      BY <2>5, <2>9
  <1>6. CASE entry # "command" /\ cmd[1] = "PDU"
    <2>1. /\ line' = line \cup {IF entry = "empty" THEN {"OK", "+CMGS:"} ELSE {"ERROR"}}
          /\ entry' = "command"
          /\ sent' = IF entry = "empty" /\ sent < MaxSent THEN sent + 1 ELSE sent
      BY <1>6 DEF Comply, Reply
    <2>2. Pdu(1) /\ 1 \in 1 .. Len(asked) /\ ">" \notin Texts(line)
      BY <1>2, <1>3, <1>6 DEF PromptInv
    <2>3. \A i \in 1 .. Len(asked') : ~Pdu(i)'
      <3>1. SUFFICES ASSUME NEW i \in 1 .. Len(asked'), Pdu(i)' PROVE FALSE
        OBVIOUS
      <3>2. i + 1 \in 1 .. Len(asked) /\ i \in Nat /\ i # 0 /\ Pdu(i + 1)
        BY <1>2, <3>1
      <3>3. i + 1 = 1
        BY <2>2, <3>2 DEF PromptInv
      <3>4. QED
        BY <3>2, <3>3
    <2>4. ">" \notin Texts(line') /\ line \subseteq line'
      BY <2>1, <2>2 DEF Texts
    <2>5. PromptInv'
      BY <1>2, <2>1, <2>3, <2>4 DEF PromptInv
    <2>6. ~Accepting' /\ (Accepting <=> entry = "empty")
      BY <2>1, <2>2 DEF Accepting
    <2>7. /\ Owed' = sent' /\ sent' \in Nat /\ sent <= sent'
          /\ Owed = IF entry = "empty" THEN sent + 1 ELSE sent
      BY <1>1, <2>1, <2>6 DEF Owed
    <2>8. Owed' <= Owed
      BY <1>1, <2>1, <2>7
    <2>9. "+CMGS:" \in Texts(line') => sent' > 0
      <3>1. CASE entry = "empty"
        BY <1>1, <2>1, <3>1, DbbAssumption
      <3>2. CASE entry # "empty"
        BY <2>1, <3>2 DEF Texts, SentInv
      <3>3. QED
        BY <3>1, <3>2
    <2>10. Accepting => {"OK", "+CMGS:"} \in line'
      BY <2>1, <2>6
    <2>11. SentInv'
      BY <1>1, <2>4, <2>7, <2>8, <2>9, <2>10, Answered
    <2>12. QED
      BY <2>5, <2>11
  <1>7. CASE entry # "command" /\ cmd[1] # "PDU"
    <2>1. entry' = "spoilt" /\ UNCHANGED <<line, sent>>
      BY <1>7 DEF Comply
    <2>2. ~Accepting /\ ~Accepting'
      BY <1>3, <1>7, <2>1 DEF Accepting
    <2>3. Owed = sent /\ Owed' = sent
      BY <2>1, <2>2 DEF Owed
    <2>4. Texts(line') = Texts(line)
      BY <2>1
    <2>5. PromptInv'
      <3>1. ">" \in Texts(line') => \A i \in 1 .. Len(asked') : ~Pdu(i)'
        <4>1. \A i \in 1 .. Len(asked') : i + 1 \in 1 .. Len(asked)
          BY <1>2
        <4>2. QED
          BY <1>2, <2>4, <4>1 DEF PromptInv
      <3>2. QED
        BY <1>2, <1>4, <2>1, <3>1 DEF PromptInv
    <2>6. "+CMGS:" \in Texts(line') => sent' > 0
      BY <2>1 DEF SentInv
    <2>7. SentInv'
      BY <1>1, <2>1, <2>2, <2>3, <2>6, Answered
    <2>8. QED
      BY <2>5, <2>7
  <1>8. QED
    BY <1>5, <1>6, <1>7

\* A command, or the text, is refused.
LEMMA RefuseKeeps ==
  ASSUME PlaceInv, PromptInv, SentInv, Refuse
  PROVE  PromptInv' /\ SentInv'
  <1>1. /\ asked # <<>> /\ asked' = Tail(asked) /\ line' = line \cup {{"ERROR"}} /\ entry' = "command"
        /\ UNCHANGED <<pc, sms, sent>> /\ sent \in Nat /\ setbacks \in Nat
        /\ entry = "command" \/ Head(asked)[1] = "PDU"
    BY DEF Refuse, Reply, SentInv
  <1>2. /\ asked' \in Seq(Commands) /\ Len(asked) \in Nat \ {0} /\ Len(asked') = Len(asked) - 1
        /\ \A i \in 1 .. Len(asked') : Pdu(i)' => Pdu(i + 1)
    BY <1>1, OldestTaken
  <1>3. entry = "command" \/ Pdu(1)
    <2>1. Head(asked) = asked[1]
      BY <1>1 DEF PromptInv
    <2>2. QED
      BY <1>1, <1>2, <2>1 DEF Pdu
  <1>4. \A i \in 1 .. Len(asked') : ~Pdu(i)'
    <2>1. SUFFICES ASSUME NEW i \in 1 .. Len(asked'), Pdu(i)' PROVE FALSE
      OBVIOUS
    <2>2. /\ i + 1 \in 1 .. Len(asked) /\ 1 \in 1 .. Len(asked) /\ i \in Nat /\ i # 0 /\ Pdu(i + 1)
      BY <1>2, <2>1
    <2>3. entry # "command" /\ (Pdu(1) => i + 1 = 1)
      BY <2>2 DEF PromptInv
    <2>4. QED
      BY <1>3, <2>2, <2>3
  <1>5. /\ line \subseteq line' /\ Texts(line') = Texts(line) \cup {"ERROR"}
    BY <1>1 DEF Texts
  <1>6. Pdu(1) \/ ">" \notin Texts(line)
    BY <1>3 DEF PromptInv
  <1>7. ">" \notin Texts(line')
    <2>1. CASE Pdu(1)
      BY <1>2, <1>5, <2>1 DEF PromptInv
    <2>2. CASE ~Pdu(1)
      BY <1>5, <1>6, <2>2
    <2>3. QED
      BY <2>1, <2>2
  <1>8. PromptInv'
    BY <1>1, <1>2, <1>4, <1>7 DEF PromptInv
  <1>9. Spend(TRUE)
    BY DEF Refuse
  <1>10. /\ setbacks' \in Nat /\ setbacks <= setbacks'
         /\ mode = "NORMAL" => setbacks' = setbacks + 1
    BY <1>1, <1>9 DEF Spend
  <1>11. ~Accepting' /\ Owed' = sent /\ Owed = IF Accepting THEN sent + 1 ELSE sent
    BY <1>1 DEF Accepting, Owed
  <1>12. pc = "result" /\ Accepting => Owed' <= setbacks'
    <2>1. SUFFICES ASSUME pc = "result", Accepting PROVE sent <= setbacks'
      BY <1>11
    <2>2. setbacks' = setbacks + 1
      BY <1>10, <2>1 DEF PlaceInv
    <2>3. sent + 1 <= setbacks + 1
      BY <1>11, <2>1 DEF SentInv
    <2>4. QED
      BY ONLY <1>1, <2>2, <2>3
  <1>13. Owed' \in Nat /\ Owed' <= Owed /\ sent' \in Nat /\ sent <= sent'
    BY ONLY <1>1, <1>11
  <1>14. "+CMGS:" \in Texts(line') => sent' > 0
    BY <1>1, <1>5 DEF SentInv
  <1>15. SentInv'
    BY ONLY SentInv, <1>1, <1>5, <1>10, <1>12, <1>13, <1>14, Answered
  <1>16. QED
    BY <1>8, <1>15

\* A text is on its way only online, when the activation is long reported.
LEMMA ActivateKeeps ==
  ASSUME PlaceInv, ActiveInv, PromptInv, SentInv, Activate
  PROVE  PromptInv' /\ SentInv'
  <1>1. /\ ~active /\ line' = line \cup {{"+CREV"}}
        /\ UNCHANGED <<asked, entry, sent, pc, sms, setbacks>>
    BY DEF Activate, threadVars
  <1>2. pc # "result"
    BY <1>1 DEF PlaceInv, ActiveInv
  <1>3. line \subseteq line' /\ Texts(line') = Texts(line) \cup {"+CREV"}
    BY <1>1 DEF Texts
  <1>4. \A i : Pdu(i)' <=> Pdu(i)
    BY <1>1 DEF Pdu
  <1>5. PromptInv'
    BY <1>1, <1>3, <1>4 DEF PromptInv
  <1>6. Owed' = Owed
    BY <1>1, <1>4 DEF Owed, Accepting
  <1>7. SentInv'
    BY <1>1, <1>2, <1>3, <1>6 DEF SentInv
  <1>8. QED
    BY <1>5, <1>7

\* What a round does next.
LEMMA TaskNowIs ==
  ASSUME PlaceInv, pc = "call", TaskNow # "none"
  PROVE  /\ TaskNow \in DOMAIN Scripts /\ step \in 1 .. Len(Scripts[TaskNow])
         /\ turn # "sms" /\ (turn = "uplink" <=> TaskNow = "uplink")
         /\ TaskNow \in Registration => TaskNow = status
  <1>1. CASE step > 1
    <2>1. TaskNow = task /\ task \in {"broadcast", "normal"} /\ step \in 1 .. Len(Scripts[task])
      BY <1>1 DEF TaskNow, PlaceInv
    <2>2. turn = "capture"
      BY <1>1 DEF PlaceInv
    <2>3. QED
      BY <2>1, <2>2 DEF Scripts, Registration
  <1>2. CASE step = 1
    <2>1. \/ TaskNow = "uplink" /\ turn = "uplink"
          \/ TaskNow \in {"broadcast", "normal"} /\ turn = "capture"
          \/ TaskNow = status /\ status \in Registration /\ turn = "capture"
      BY <1>2 DEF TaskNow
    <2>2. TaskNow \in DOMAIN Scripts
      BY <2>1 DEF Scripts, Registration, Leads
    <2>3. "uplink" \notin Registration /\ "broadcast" \notin Registration /\ "normal" \notin Registration
      BY DEF Registration, Leads
    <2>4. step \in 1 .. Len(Scripts[TaskNow])
      BY <1>2, <2>2, ScriptFacts
    <2>5. QED
      BY <2>1, <2>2, <2>3, <2>4
  <1>3. QED
    BY <1>1, <1>2 DEF PlaceInv
(***************************************************************************)
(* All else leaves the text alone.                                         *)
(***************************************************************************)
TextLeft ==
  /\ UNCHANGED <<entry, sent>> /\ setbacks' \in Nat /\ setbacks <= setbacks'
  /\ asked' = asked \/ \E c \in Commands : c[1] # "PDU" /\ asked' = Append(asked, c)
  /\ line' = line \/ line' = {}
  /\ sms' = sms \/ (sms = "none" /\ sms' = "wanted")
  /\ \/ pc # "result" /\ pc' # "result"
     \/ UNCHANGED <<pc, asked, line, sms>>

\* The thread writes a command.
LEMMA WritesNoText ==
  ASSUME PlaceInv, setbacks \in Nat, WriteCommand \/ AskPrompt
  PROVE  TextLeft
  <1>1. CASE WriteCommand
    <2>1. TaskNow \in DOMAIN Scripts /\ step \in 1 .. Len(Scripts[TaskNow])
      BY <1>1, TaskNowIs DEF WriteCommand
    <2> DEFINE c == Scripts[TaskNow][step].ask
    <2>2. c \in Commands /\ c[1] # "PDU"
      <3>1. c[1] # "PDU"
        BY <2>1, ScriptFacts
      <3>2. c \in {Scripts[TaskNow][i].ask : i \in 1 .. Len(Scripts[TaskNow])}
        BY <2>1
      <3>3. c \in Commands
        BY <2>1, <3>2, Zenon DEF Commands
      <3>4. QED
        BY <3>1, <3>3
    <2>3. /\ pc = "call" /\ pc' = "wait" /\ asked' = Append(asked, c) /\ line' = line
          /\ UNCHANGED <<entry, sent, setbacks, sms>>
      BY <1>1, Zenon DEF WriteCommand, Ask, cellVars
    <2> HIDE DEF c
    <2>4. QED
      BY <2>2, <2>3 DEF TextLeft
  <1>2. CASE AskPrompt
    <2>1. /\ pc = "call" /\ pc' = "prompt" /\ asked' = Append(asked, <<"CMGS", 0>>) /\ line' = line
          /\ UNCHANGED <<entry, sent, setbacks, sms>>
      BY <1>2 DEF AskPrompt, Ask, cellVars
    <2>2. <<"CMGS", 0>> \in Commands /\ <<"CMGS", 0>>[1] # "PDU"
      BY DEF Commands
    <2>3. QED
      BY <2>1, <2>2 DEF TextLeft
  <1>3. QED
    BY <1>1, <1>2

\* The rest of the thread's steps.
LEMMA ThreadLeavesText ==
  ASSUME PlaceInv, setbacks \in Nat,
         \/ OpenDevice \/ PowerOn \/ CaptureResponse \/ CaptureTimeout \/ WriteFails
         \/ CaptureError \/ AwaitActivation \/ CaptureReports \/ CaptureNothing \/ Forward
         \/ UplinkNotDue \/ NoSms
  PROVE  TextLeft
  <1> USE DEF TextLeft, cellVars, atVars
  <1>1. CASE OpenDevice
    BY <1>1 DEF OpenDevice
  <1>2. CASE PowerOn
    BY <1>2 DEF PowerOn
  <1>3. CASE CaptureResponse
    BY <1>3 DEF CaptureResponse, StepDone, Emptied
  <1>4. CASE CaptureTimeout
    BY <1>4 DEF CaptureTimeout, StepDone, Spend
  <1>5. CASE WriteFails
    BY <1>5 DEF WriteFails, StepDone
  <1>6. CASE CaptureError
    BY <1>6 DEF CaptureError, StepDone, Spend
  <1>7. CASE AwaitActivation
    BY <1>7 DEF AwaitActivation, Emptied
  <1>8. CASE CaptureReports
    <2>1. pc = "call" /\ (pc' = "forward" \/ pc' = pc)
      BY <1>8 DEF CaptureReports, TakeSsr
    <2>2. QED
      BY <1>8, <2>1 DEF CaptureReports, Emptied
  <1>9. CASE CaptureNothing
    BY <1>9 DEF CaptureNothing
  <1>10. CASE Forward
    BY <1>10 DEF Forward
  <1>11. CASE UplinkNotDue
    BY <1>11 DEF UplinkNotDue
  <1>12. CASE NoSms
    BY <1>12 DEF NoSms
  <1>13. QED
    BY <1>1, <1>2, <1>3, <1>4, <1>5, <1>6, <1>7, <1>8, <1>9, <1>10, <1>11, <1>12

\* The module's reports and the rest of the program have nothing to do with texts.
LEMMA OthersLeaveText ==
  ASSUME PlaceInv, setbacks \in Nat,
         \/ ReportRest \/ ModeChange \/ IntervalPasses \/ ChangeMode \/ WantSms \/ UNCHANGED vars
         \/ \E kind \in {"ssr", "dl"} : ReportHead(kind)
  PROVE  TextLeft
  <1> USE DEF TextLeft, cellVars, atVars, threadVars
  <1>1. CASE ReportRest
    BY <1>1 DEF ReportRest
  <1>2. CASE ModeChange
    BY <1>2 DEF ModeChange, reportVars
  <1>3. CASE IntervalPasses
    BY <1>3 DEF IntervalPasses, reportVars
  <1>4. CASE ChangeMode
    BY <1>4 DEF ChangeMode
  <1>5. CASE WantSms
    <2>1. pc # "result"
      BY <1>5 DEF WantSms, PlaceInv
    <2>2. QED
      BY <1>5, <2>1 DEF WantSms
  <1>6. CASE UNCHANGED vars
    BY <1>6 DEF vars, reportVars
  <1>7. ASSUME NEW kind \in {"ssr", "dl"}, ReportHead(kind)
        PROVE  TextLeft
    BY <1>7 DEF ReportHead
  <1>8. QED
    BY <1>1, <1>2, <1>3, <1>4, <1>5, <1>6, <1>7

\* Every step keeps the count of the messages.
LEMMA TextStep ==
  ASSUME PlaceInv, ActiveInv, PromptInv, SentInv, [Next]_vars
  PROVE  PromptInv' /\ SentInv'
  <1>1. setbacks \in Nat
    BY DEF SentInv
  <1>2. CASE TextLeft
    BY <1>2, NoText DEF TextLeft
  <1>3. CASE CapturePrompt
    BY <1>3, TextBegun
  <1>4. CASE CaptureResult \/ SmsTimeout \/ SmsError
    BY <1>4, ResultTaken
  <1>5. CASE Comply
    BY <1>5, ComplyKeeps
  <1>6. CASE Refuse
    BY <1>6, RefuseKeeps
  <1>7. CASE Activate
    BY <1>7, ActivateKeeps
  <1>8. QED
    BY <1>1, <1>2, <1>3, <1>4, <1>5, <1>6, <1>7, WritesNoText, ThreadLeavesText, OthersLeaveText
    DEF Next, Thread, Module, Setback
(***************************************************************************)
(* Where the thread is, and what was activated.                            *)
(***************************************************************************)
\* A command is over: only a configuration has another one.
LEMMA StepDonePlace ==
  ASSUME PlaceInv, ActiveInv, NEW t \in DOMAIN Scripts, NEW texts, StepDone(t, texts),
         pc \in {"call", "wait"}, step \in 1 .. Len(Scripts[t]), turn # "sms",
         turn = "uplink" <=> t = "uplink", t \in Registration => t = status,
         UNCHANGED <<mode, modes, sms, reports, sending, active>>,
         urcs' = urcs \/ urcs' = <<>>, line' = line \/ line' = {}
  PROVE  PlaceInv' /\ ActiveInv'
  <1> DEFINE passed == Scripts[t][step].must \subseteq texts
             over   == passed /\ step = Len(Scripts[t])
  <1>1. /\ pc' = "call"
        /\ step' = IF passed /\ ~over THEN step + 1 ELSE 1
        /\ task' = IF step' > 1 THEN t ELSE "none"
        /\ status' = IF over /\ t # "uplink" THEN Leads[t] ELSE status
        /\ turn' = IF t = "uplink" THEN "sms" ELSE turn
    BY DEF StepDone
  <1> HIDE DEF passed
  <1>2. Len(Scripts[t]) \in Nat \ {0} /\ (t \notin {"broadcast", "normal"} => Len(Scripts[t]) = 1)
    BY ScriptFacts
  <1>3. /\ step' \in Nat \ {0} /\ step' \in 1 .. Len(Scripts[t])
        /\ step' > 1 => t \in {"broadcast", "normal"} /\ task' = t
    <2> DEFINE n == Len(Scripts[t])
    <2>1. n \in Nat \ {0} /\ step \in 1 .. n
      BY <1>2
    <2>2. step' = 1 \/ (step # n /\ step' = step + 1)
      BY <1>1
    <2> HIDE DEF n
    <2>3. step' \in Nat \ {0} /\ step' \in 1 .. n /\ (step' > 1 => n # 1)
      BY <2>1, <2>2
    <2>4. step' > 1 => t \in {"broadcast", "normal"}
      BY <1>2, <2>3 DEF n
    <2>5. QED
      BY <1>1, <2>3, <2>4 DEF n
  <1>4. t = "uplink" => mode' = "NORMAL" /\ status' = "ONLINE" /\ step' = 1
    BY <1>1, <1>3 DEF PlaceInv
  <1>5. turn' \in {"capture", "sms"} /\ (turn' = "sms" => t = "uplink")
    BY <1>1 DEF PlaceInv
  <1>6. PlaceInv'
    BY <1>1, <1>3, <1>4, <1>5 DEF PlaceInv
  <1>7. status' \in {"WAIT_CIREG", "ONLINE"} => status \in {"WAIT_CIREG", "ONLINE"}
    <2>1. CASE status' = status
      BY <2>1
    <2>2. CASE over /\ t # "uplink" /\ status' = Leads[t]
      <3>1. t \in DOMAIN Leads
        BY <2>2 DEF Scripts, Leads
      <3>2. Leads[t] # "WAIT_CIREG" /\ (Leads[t] = "ONLINE" => t = "WAIT_CIREG")
        BY <3>1 DEF Leads
      <3>3. t = "WAIT_CIREG" => status = "WAIT_CIREG"
        BY DEF Registration, Leads
      <3>4. QED
        BY <2>2, <3>2, <3>3
    <2>3. QED
      BY <1>1, <2>1, <2>2
  <1>8. ActiveInv'
    BY <1>7 DEF ActiveInv, Texts
  <1>9. QED
    BY <1>6, <1>8

\* The steps of a script.
LEMMA ScriptPlace ==
  ASSUME PlaceInv, ActiveInv,
         WriteCommand \/ WriteFails \/ CaptureResponse \/ CaptureTimeout \/ CaptureError
  PROVE  PlaceInv' /\ ActiveInv'
  <1>1. CASE WriteCommand
    <2>1. /\ pc = "call" /\ TaskNow # "none" /\ pc' = "wait" /\ task' = TaskNow
          /\ UNCHANGED <<line, mode, modes, status, step, turn, sms, urcs, sending, reports, active>>
      BY <1>1 DEF WriteCommand, Ask, cellVars, reportVars
    <2>2. /\ TaskNow \in DOMAIN Scripts /\ step \in 1 .. Len(Scripts[TaskNow])
          /\ turn # "sms" /\ (turn = "uplink" <=> TaskNow = "uplink")
          /\ TaskNow \in Registration => TaskNow = status
      BY <2>1, TaskNowIs
    <2> HIDE DEF TaskNow
    <2>3. PlaceInv'
      BY <2>1, <2>2 DEF PlaceInv
    <2>4. ActiveInv'
      BY <2>1 DEF ActiveInv, Texts
    <2>5. QED
      BY <2>3, <2>4
  <1>2. CASE WriteFails
    <2>1. /\ pc = "call" /\ TaskNow # "none" /\ StepDone(TaskNow, {})
          /\ UNCHANGED <<line, mode, modes, sms, urcs, sending, reports, active>>
      BY <1>2 DEF WriteFails, atVars, cellVars, reportVars
    <2>2. /\ TaskNow \in DOMAIN Scripts /\ step \in 1 .. Len(Scripts[TaskNow])
          /\ turn # "sms" /\ (turn = "uplink" <=> TaskNow = "uplink")
          /\ TaskNow \in Registration => TaskNow = status
      BY <2>1, TaskNowIs
    <2>3. QED
      BY <2>1, <2>2, StepDonePlace
  <1>3. CASE CaptureResponse \/ CaptureTimeout \/ CaptureError
    <2>1. /\ pc = "wait" /\ \E texts : StepDone(task, texts)
          /\ UNCHANGED <<mode, modes, sms, sending, reports, active>>
          /\ urcs' = urcs \/ urcs' = <<>>
          /\ line' = line \/ line' = {}
      BY <1>3 DEF CaptureResponse, CaptureTimeout, CaptureError, Emptied, atVars, cellVars, reportVars
    <2>2. /\ task \in DOMAIN Scripts /\ step \in 1 .. Len(Scripts[task])
          /\ turn # "sms" /\ (turn = "uplink" <=> task = "uplink")
          /\ task \in Registration => task = status
      BY <2>1 DEF PlaceInv
    <2>3. QED
      BY <2>1, <2>2, StepDonePlace
  <1>4. QED
    BY <1>1, <1>2, <1>3

\* The rest of the thread.
LEMMA ThreadPlace ==
  ASSUME PlaceInv, ActiveInv,
         \/ OpenDevice \/ PowerOn \/ AwaitActivation \/ CaptureReports \/ CaptureNothing
         \/ Forward \/ UplinkNotDue \/ NoSms \/ AskPrompt \/ CapturePrompt \/ CaptureResult
         \/ SmsTimeout \/ SmsError
  PROVE  PlaceInv' /\ ActiveInv'
  <1> USE DEF PlaceInv, ActiveInv, reportVars, cellVars, atVars
  <1>1. CASE OpenDevice
    BY <1>1 DEF OpenDevice, Texts
  <1>2. CASE PowerOn
    BY <1>2 DEF PowerOn, Texts
  <1>3. CASE AwaitActivation
    BY <1>3 DEF AwaitActivation, Emptied, Texts
  <1>4. CASE CaptureReports
    <2>1. pc = "call" /\ (pc' = "forward" \/ pc' = pc)
      BY <1>4 DEF CaptureReports, TakeSsr
    <2>2. QED
      BY <1>4, <2>1 DEF CaptureReports, Online, Emptied, Texts
  <1>5. CASE CaptureNothing
    BY <1>5 DEF CaptureNothing, Texts
  <1>6. CASE Forward
    BY <1>6 DEF Forward, Texts
  <1>7. CASE UplinkNotDue
    BY <1>7 DEF UplinkNotDue, Texts
  <1>8. CASE NoSms
    BY <1>8 DEF NoSms, Texts
  <1>9. CASE AskPrompt
    BY <1>9 DEF AskPrompt, Ask, Texts
  <1>10. CASE CapturePrompt
    BY <1>10 DEF CapturePrompt, SmsVars, Texts
  <1>11. CASE CaptureResult
    BY <1>11 DEF CaptureResult, SmsVars, Emptied, Texts
  <1>12. CASE SmsTimeout
    BY <1>12 DEF SmsTimeout, GiveUpSms, SmsVars, Texts
  <1>13. CASE SmsError
    BY <1>13 DEF SmsError, GiveUpSms, SmsVars, Texts
  <1>14. QED
    BY <1>1, <1>2, <1>3, <1>4, <1>5, <1>6, <1>7, <1>8, <1>9, <1>10, <1>11, <1>12, <1>13

\* The module, and the rest of the program.
LEMMA OtherPlace ==
  ASSUME PlaceInv, ActiveInv, reports \in Nat,
         \/ Comply \/ Refuse \/ Activate \/ ReportRest \/ ModeChange \/ IntervalPasses
         \/ ChangeMode \/ WantSms \/ UNCHANGED vars \/ \E kind \in {"ssr", "dl"} : ReportHead(kind)
  PROVE  PlaceInv' /\ ActiveInv'
  <1> USE DEF PlaceInv, ActiveInv, reportVars, cellVars, atVars, threadVars
  <1>1. CASE Comply
    <2>1. line' = line \/ \E says : line' = line \cup {says} /\ "+CREV" \notin says
      <3> DEFINE cmd == Head(asked)
                 says == {"OK"} \cup {Registered[n] : n \in {cmd[1]} \cap DOMAIN Registered}
      <3>1. \A n \in DOMAIN Registered : Registered[n] \in {"+CREGXW:1", "+CIREG:1"}
        BY DEF Registered
      <3>2. "+CREV" \notin says
        BY <3>1
      <3>3. \/ line' = line \cup {{">"}} \/ line' = line \cup {says} \/ line' = line
            \/ line' = line \cup {{"OK", "+CMGS:"}} \/ line' = line \cup {{"ERROR"}}
        BY <1>1 DEF Comply, Reply
      <3>4. "+CREV" \notin {">"} /\ "+CREV" \notin {"OK", "+CMGS:"} /\ "+CREV" \notin {"ERROR"}
        OBVIOUS
      <3> HIDE DEF says
      <3>5. QED
        BY <3>2, <3>3, <3>4, Zenon
    <2>2. "+CREV" \in Texts(line') => "+CREV" \in Texts(line)
      BY <2>1 DEF Texts
    <2>3. QED
      BY <1>1, <2>2 DEF Comply
  <1>2. CASE Refuse
    <2>1. line' = line \cup {{"ERROR"}}
      BY <1>2 DEF Refuse, Reply
    <2>2. "+CREV" \in Texts(line') => "+CREV" \in Texts(line)
      BY <2>1 DEF Texts
    <2>3. QED
      BY <1>2, <2>2 DEF Refuse
  <1>3. CASE Activate
    BY <1>3 DEF Activate
  <1>4. CASE ReportRest
    BY <1>4 DEF ReportRest, Texts
  <1>5. CASE ModeChange
    BY <1>5 DEF ModeChange, Texts
  <1>6. CASE IntervalPasses
    BY <1>6 DEF IntervalPasses, Texts
  <1>7. CASE ChangeMode
    BY <1>7 DEF ChangeMode, Texts
  <1>8. CASE WantSms
    BY <1>8 DEF WantSms, Texts
  <1>9. CASE UNCHANGED vars
    BY <1>9 DEF vars, Texts
  <1>10. ASSUME NEW kind \in {"ssr", "dl"}, ReportHead(kind)
         PROVE  PlaceInv' /\ ActiveInv'
    <2>1. UNCHANGED <<atVars, threadVars, cellVars>>
      BY <1>10 DEF ReportHead
    <2>2. QED
      BY <2>1 DEF Texts
  <1>11. QED
    BY <1>1, <1>2, <1>3, <1>4, <1>5, <1>6, <1>7, <1>8, <1>9, <1>10

\* The invariant of the message holds initially.
LEMMA MessageInit == Init => MessageInv
  <1> SUFFICES ASSUME Init PROVE MessageInv
    OBVIOUS
  <1>1. /\ asked = <<>> /\ line = {} /\ mode = "BROADCAST" /\ modes = 0 /\ setbacks = 0
        /\ status = "INIT" /\ step = 1 /\ pc = "start" /\ turn = "capture" /\ sms = "none"
        /\ urcs = <<>> /\ sending = NoPart /\ entry = "command" /\ sent = 0
    BY DEF Init, AtInit
  <1>2. PlaceInv
    BY <1>1 DEF PlaceInv
  <1>3. ActiveInv
    BY <1>1 DEF ActiveInv, Texts
  <1>4. PromptInv
    BY <1>1 DEF PromptInv, Pdu, Texts
  <1>5. ~Accepting
    BY <1>1 DEF Accepting
  <1>6. SentInv
    BY <1>1, <1>5 DEF SentInv, Owed, Texts
  <1>7. QED
    BY <1>2, <1>3, <1>4, <1>6 DEF MessageInv

\* Every step keeps it.
LEMMA MessageStep == IInv /\ MessageInv /\ [Next]_vars => MessageInv'
  <1> SUFFICES ASSUME IInv, MessageInv, [Next]_vars PROVE MessageInv'
    OBVIOUS
  <1>1. reports \in Nat
    BY DEF IInv, ReportsInv
  <1>2. PlaceInv /\ ActiveInv /\ PromptInv /\ SentInv
    BY DEF MessageInv
  <1>3. PlaceInv' /\ ActiveInv'
    BY <1>1, <1>2, ScriptPlace, ThreadPlace, OtherPlace DEF Next, Thread, Module, Setback
  <1>4. QED
    BY <1>2, <1>3, TextStep DEF MessageInv

\* A message counts as sent only when the module has accepted it, and the module accepts it
\* again only after an answer was late, lost or an error, or a report or an earlier answer
\* ended the capture of the result: sms_send_once_done is set on the result alone, and no
\* prompt is answered with two texts (dbb_at_response.c:71-81, dbb_handle.c:612-665,
\* dbb_thread.c:195-225).
THEOREM MessageAccepted == Spec => []SmsOnce
  <1>1. MessageInv => SmsOnce
    <2> SUFFICES ASSUME MessageInv PROVE SmsOnce
      OBVIOUS
    <2>1. /\ sent \in Nat /\ setbacks \in Nat /\ Owed <= setbacks + 1
          /\ sms = "done" => sent > 0
      BY DEF MessageInv, SentInv
    <2>2. Owed = sent \/ Owed = sent + 1
      BY DEF Owed
    <2>3. QED
      BY <2>1, <2>2 DEF SmsOnce
  <1>2. QED
    BY <1>1, Invariant, MessageInit, MessageStep, PTL DEF Spec
(***************************************************************************)
(* The configuration.  What the module has accepted on the way to a status *)
(* is still accepted there: nothing else of the same name is on its way,   *)
(* unless an answer was late.                                              *)
(***************************************************************************)
Pos == [INIT |-> 0, ONLINE_BROADCAST |-> 0, POWER_ON |-> 1, SIM_READY |-> 2, CFUN_OK |-> 3,
        CREG_OK |-> 4, CNMI_OK |-> 5, DSCI_OK |-> 6, CGDCONT_OK |-> 7, WAIT_CREGXW |-> 8,
        WAIT_CREV |-> 9, WAIT_CIREG |-> 10, ONLINE |-> 11]

\* the steps of the registration before a status
Before(s) == {t \in Registration : Pos[t] < Pos[s]}

\* what the first n commands of the configuration require
Prefix(n) ==
  {Scripts["broadcast"][i].ask : i \in {j \in 1 .. n : Scripts["broadcast"][j].must # {}}}

\* what has to be accepted by then, in mode m with status s, before command n of a round
DueAt(m, s, n) ==
  IF m = "NORMAL" THEN {Scripts[t][1].ask : t \in Before(s)}
  ELSE IF s = "ONLINE_BROADCAST" THEN Prefix(6) ELSE Prefix(n - 1)

Due == DueAt(mode, status, step)

\* each task belongs to a mode and a status
TaskOf(t, m, s) ==
  /\ t = "broadcast" => m = "BROADCAST" /\ s = "INIT"
  /\ t = "normal" => m = "NORMAL" /\ s = "ONLINE_BROADCAST"
  /\ t \in Registration => m = "NORMAL" /\ s = t

RoundInv ==
  /\ mode \in {"BROADCAST", "NORMAL"} /\ (mode = "BROADCAST" => modes = 0)
  /\ status \in DOMAIN Pos /\ (mode = "BROADCAST" => status \in {"INIT", "ONLINE_BROADCAST"})
  /\ pc = "wait" \/ step > 1 => TaskOf(task, mode, status)

Current == Scripts[task][step].ask

\* the answer to the command is the only one that may come
Answering == \/ asked = <<Current>> /\ "OK" \notin Texts(line)
             \/ asked = <<>> /\ ("OK" \in Texts(line) => Current \in accepted)

DueInv ==
  ~behind => /\ Due \subseteq accepted
             /\ \A i \in 1 .. Len(asked), c \in Due : asked[i][1] # c[1]
             /\ pc = "wait" /\ task # "uplink" => Answering

\* The commands of the registration.
Asked == [POWER_ON |-> "CIMI", SIM_READY |-> "CFUN", CFUN_OK |-> "CREG", CREG_OK |-> "CNMI",
          CNMI_OK |-> "DSCI", DSCI_OK |-> "CGDCONT", CGDCONT_OK |-> "PSDATA",
          WAIT_CREGXW |-> "CREGXW", WAIT_CIREG |-> "CIREG"]

LEMMA RegistrationFacts ==
  ASSUME NEW t \in Registration
  PROVE  /\ t \in DOMAIN Asked /\ t \in DOMAIN Scripts /\ t \notin {"broadcast", "normal", "uplink"}
         /\ Len(Scripts[t]) = 1 /\ Scripts[t][1].ask[1] = Asked[t] /\ "OK" \in Scripts[t][1].must
         /\ Leads[t] \in DOMAIN Pos /\ Pos[Leads[t]] = Pos[t] + 1
  <1>1. t \in {"POWER_ON", "SIM_READY", "CFUN_OK", "CREG_OK", "CNMI_OK", "DSCI_OK", "CGDCONT_OK",
               "WAIT_CREGXW", "WAIT_CIREG"}
    BY DEF Registration, Leads
  <1>2. t \in DOMAIN Asked /\ t \in DOMAIN Scripts /\ t \notin {"broadcast", "normal", "uplink"}
    BY <1>1 DEF Asked, Scripts
  <1>3. Leads[t] \in DOMAIN Pos /\ Pos[Leads[t]] = Pos[t] + 1
    BY <1>1 DEF Leads, Pos
  <1>4. \E c \in {Ok("CIMI", 0), Ok("CFUN", 5), Ok("CREG", 1), Ok("CNMI", 2), Ok("DSCI", 1),
                  Ok("CGDCONT", 1), Ok("PSDATA", 2), Cmd("CREGXW", 0, {"OK", "+CREGXW:1"}),
                  Cmd("CIREG", 0, {"OK", "+CIREG:1"})} :
          Scripts[t] = <<c>> /\ c.ask[1] = Asked[t] /\ "OK" \in c.must
    <2>1. CASE t = "POWER_ON"
      BY <2>1 DEF Scripts, Asked, Ok, Cmd
    <2>2. CASE t = "SIM_READY"
      BY <2>2 DEF Scripts, Asked, Ok, Cmd
    <2>3. CASE t = "CFUN_OK"
      BY <2>3 DEF Scripts, Asked, Ok, Cmd
    <2>4. CASE t = "CREG_OK"
      BY <2>4 DEF Scripts, Asked, Ok, Cmd
    <2>5. CASE t = "CNMI_OK"
      BY <2>5 DEF Scripts, Asked, Ok, Cmd
    <2>6. CASE t = "DSCI_OK"
      BY <2>6 DEF Scripts, Asked, Ok, Cmd
    <2>7. CASE t = "CGDCONT_OK"
      BY <2>7 DEF Scripts, Asked, Ok, Cmd
    <2>8. CASE t = "WAIT_CREGXW"
      BY <2>8 DEF Scripts, Asked, Ok, Cmd
    <2>9. CASE t = "WAIT_CIREG"
      BY <2>9 DEF Scripts, Asked, Ok, Cmd
    <2>10. QED
      BY <1>1, <2>1, <2>2, <2>3, <2>4, <2>5, <2>6, <2>7, <2>8, <2>9
  <1>5. PICK c : Scripts[t] = <<c>> /\ c.ask[1] = Asked[t] /\ "OK" \in c.must
    BY <1>4
  <1>6. Len(Scripts[t]) = 1 /\ Scripts[t][1] = c
    BY <1>5
  <1>7. QED
    BY <1>2, <1>3, <1>5, <1>6

\* No two are alike, and none is one of those written online.
LEMMA AskedDiffer ==
  ASSUME NEW t \in DOMAIN Asked
  PROVE  /\ Asked[t] \notin {"ULNETDATA", "CMGS", "PDU"}
         /\ \A u \in DOMAIN Asked : u # t => Asked[u] # Asked[t] /\ Pos[u] # Pos[t]
         /\ Pos[t] \in Nat
  BY SMTT(30) DEF Asked, Pos

\* The configuration.
LEMMA BroadcastFacts ==
  LET s == Scripts["broadcast"]
  IN  /\ Len(s) = 6
      /\ \A i \in 1 .. 6 :
           /\ s[i].must # {} => "OK" \in s[i].must
           /\ s[i].ask[1] \notin {"ULNETDATA", "CMGS", "PDU"}
           /\ \A j \in 1 .. 6 : i # j => s[i].ask[1] # s[j].ask[1]
  <1> DEFINE s == Scripts["broadcast"]
  <1>1. s = <<Ok("MISWITCH", 0), Ok("BMCARDSWITCH", 0), Ok("DUMMYUSIM", 1),
              Cmd("BBICRSTSW", 1, {}), Ok("SSRINFOXW", 1), Ok("CFUN", 1)>>
    BY DEF Scripts
  <1> HIDE DEF s
  <1>2. /\ Len(s) = 6 /\ s[1] = Ok("MISWITCH", 0) /\ s[2] = Ok("BMCARDSWITCH", 0)
        /\ s[3] = Ok("DUMMYUSIM", 1) /\ s[4] = Cmd("BBICRSTSW", 1, {})
        /\ s[5] = Ok("SSRINFOXW", 1) /\ s[6] = Ok("CFUN", 1)
    BY <1>1
  <1>3. /\ s[1].ask[1] = "MISWITCH" /\ s[2].ask[1] = "BMCARDSWITCH" /\ s[3].ask[1] = "DUMMYUSIM"
        /\ s[4].ask[1] = "BBICRSTSW" /\ s[5].ask[1] = "SSRINFOXW" /\ s[6].ask[1] = "CFUN"
    BY <1>2 DEF Ok, Cmd
  <1>4. /\ "OK" \in s[1].must /\ "OK" \in s[2].must /\ "OK" \in s[3].must /\ s[4].must = {}
        /\ "OK" \in s[5].must /\ "OK" \in s[6].must
    BY <1>2 DEF Ok, Cmd
  <1>5. \A i \in 1 .. 6 : i = 1 \/ i = 2 \/ i = 3 \/ i = 4 \/ i = 5 \/ i = 6
    OBVIOUS
  <1>6. \A i \in 1 .. 6 : (s[i].must # {} => "OK" \in s[i].must)
                          /\ s[i].ask[1] \notin {"ULNETDATA", "CMGS", "PDU"}
    BY <1>3, <1>4, <1>5
  <1>7. \A i, j \in 1 .. 6 : i # j => s[i].ask[1] # s[j].ask[1]
    BY <1>3, <1>5
  <1>8. QED
    BY <1>2, <1>6, <1>7 DEF s
\* Nothing is due before the first command.
LEMMA NoneDue ==
  ASSUME NEW n, NEW s
  PROVE  /\ s \in {"INIT", "ONLINE_BROADCAST", "POWER_ON"} => DueAt("NORMAL", s, n) = {}
         /\ s # "ONLINE_BROADCAST" => DueAt("BROADCAST", s, 1) = {}
  <1>1. ASSUME s \in {"INIT", "ONLINE_BROADCAST", "POWER_ON"}, NEW t \in Registration
        PROVE  ~(Pos[t] < Pos[s])
    <2>1. Pos[s] \in {0, 1} /\ t \in DOMAIN Asked
      BY <1>1, RegistrationFacts DEF Pos
    <2>2. Pos[t] \in Nat \ {0}
      BY <2>1 DEF Asked, Pos
    <2>3. QED
      BY <2>1, <2>2
  <1>2. s \in {"INIT", "ONLINE_BROADCAST", "POWER_ON"} => DueAt("NORMAL", s, n) = {}
    BY <1>1, Zenon DEF DueAt, Before
  <1>3. Prefix(0) = {}
    BY DEF Prefix
  <1>4. QED
    BY <1>2, <1>3 DEF DueAt

\* A step of the registration adds its command; the activation adds none.
LEMMA RegistrationDue ==
  ASSUME NEW n, NEW k
  PROVE  /\ \A t \in Registration : DueAt("NORMAL", Leads[t], n) \subseteq
                                      DueAt("NORMAL", t, k) \cup {Scripts[t][1].ask}
         /\ DueAt("NORMAL", "WAIT_CIREG", n) \subseteq DueAt("NORMAL", "WAIT_CREV", k)
  <1>1. ASSUME NEW t \in Registration
        PROVE  Before(Leads[t]) \subseteq Before(t) \cup {t}
    <2>1. SUFFICES ASSUME NEW u \in Registration, Pos[u] < Pos[Leads[t]], u # t
                   PROVE  Pos[u] < Pos[t]
      BY DEF Before
    <2>2. t \in DOMAIN Asked /\ u \in DOMAIN Asked /\ Pos[Leads[t]] = Pos[t] + 1
      BY RegistrationFacts
    <2>3. Pos[u] \in Nat /\ Pos[t] \in Nat /\ Pos[u] # Pos[t]
      BY <2>1, <2>2, AskedDiffer
    <2>4. QED
      BY <2>1, <2>2, <2>3
  <1>2. Before("WAIT_CIREG") \subseteq Before("WAIT_CREV")
    <2>1. SUFFICES ASSUME NEW u \in Registration, Pos[u] < Pos["WAIT_CIREG"]
                   PROVE  Pos[u] < Pos["WAIT_CREV"]
      BY DEF Before
    <2>2. u \in DOMAIN Asked
      BY RegistrationFacts
    <2>3. QED
      BY <2>1, <2>2 DEF Asked, Pos
  <1>3. QED
    BY <1>1, <1>2 DEF DueAt

\* What is due is not among the commands written online, nor is it the next one.
LEMMA DueNames ==
  ASSUME NEW m \in {"BROADCAST", "NORMAL"}, NEW s \in DOMAIN Pos, NEW n \in 1 .. 6,
         NEW c \in DueAt(m, s, n)
  PROVE  /\ c[1] \notin {"ULNETDATA", "CMGS", "PDU"}
         /\ \A t \in DOMAIN Scripts :
              TaskOf(t, m, s) /\ n \in 1 .. Len(Scripts[t]) => Scripts[t][n].ask[1] # c[1]
  <1>0. \A t \in DOMAIN Scripts : t \in {"broadcast", "normal", "uplink"} \cup Registration
    BY DEF Scripts, Registration, Leads
  <1>1. Scripts["uplink"][1].ask[1] = "ULNETDATA" /\ Len(Scripts["uplink"]) = 1
    <2>1. Scripts["uplink"] = <<Ok("ULNETDATA", 0)>>
      BY DEF Scripts
    <2>2. QED
      BY <2>1 DEF Ok, Cmd
  <1>2. CASE m = "NORMAL"
    <2>1. PICK u \in Registration : Pos[u] < Pos[s] /\ c = Scripts[u][1].ask
      BY <1>2 DEF DueAt, Before
    <2>2. u \in DOMAIN Asked /\ c[1] = Asked[u]
      BY <2>1, RegistrationFacts
    <2>3. c[1] \notin {"ULNETDATA", "CMGS", "PDU"}
      BY <2>2, AskedDiffer
    <2>4. ASSUME NEW t \in DOMAIN Scripts, TaskOf(t, m, s), n \in 1 .. Len(Scripts[t])
          PROVE  Scripts[t][n].ask[1] # c[1]
      <3>1. CASE t \in Registration
        <4>0. Len(Scripts[t]) = 1 /\ Scripts[t][1].ask[1] = Asked[t] /\ t \in DOMAIN Asked /\ s = t
          BY <2>4, <3>1, RegistrationFacts DEF TaskOf
        <4>1. n = 1 /\ Scripts[t][n].ask[1] = Asked[t]
          BY <2>4, <4>0
        <4>2. u # t
          BY <2>1, <2>2, <4>0, AskedDiffer
        <4>3. QED
          BY <2>2, <4>0, <4>1, <4>2, AskedDiffer
      <3>2. CASE t = "uplink"
        BY <1>1, <2>3, <2>4, <3>2
      <3>3. CASE t \in {"broadcast", "normal"}
        BY <1>2, <2>4, <3>3, NoneDue DEF TaskOf
      <3>4. QED
        BY <1>0, <3>1, <3>2, <3>3
    <2>5. QED
      BY <2>3, <2>4
  <1>3. CASE m = "BROADCAST"
    <2>1. PICK i \in 1 .. 6 : /\ c = Scripts["broadcast"][i].ask
                              /\ s # "ONLINE_BROADCAST" => i < n
      BY <1>3 DEF DueAt, Prefix
    <2>2. c[1] \notin {"ULNETDATA", "CMGS", "PDU"}
      BY <2>1, BroadcastFacts
    <2>3. ASSUME NEW t \in DOMAIN Scripts, TaskOf(t, m, s), n \in 1 .. Len(Scripts[t])
          PROVE  Scripts[t][n].ask[1] # c[1]
      <3>1. CASE t = "broadcast"
        <4>1. i # n
          BY <2>1, <2>3, <3>1 DEF TaskOf
        <4>2. QED
          BY <2>1, <3>1, <4>1, BroadcastFacts
      <3>2. CASE t = "uplink"
        BY <1>1, <2>2, <2>3, <3>2
      <3>3. t # "normal" /\ t \notin Registration
        BY <1>3, <2>3 DEF TaskOf
      <3>4. QED
        BY <1>0, <3>1, <3>2, <3>3
    <2>4. QED
      BY <2>2, <2>3
  <1>4. QED
    BY <1>2, <1>3
\* No script is longer than the configuration.
LEMMA ShortScripts ==
  ASSUME NEW t \in DOMAIN Scripts
  PROVE  Len(Scripts[t]) \in 1 .. 6
  <1>1. CASE t = "normal"
    <2>1. Scripts[t] = <<Ok("MISWITCH", 1), Ok("BMCARDSWITCH", 1), Cmd("BBICRSTSW", 0, {})>>
      BY <1>1 DEF Scripts
    <2>2. Len(Scripts[t]) = 3
      BY <2>1
    <2>3. QED
      BY <2>2
  <1>2. CASE t = "broadcast"
    BY <1>2, BroadcastFacts
  <1>3. CASE t \notin {"broadcast", "normal"}
    BY <1>3, ScriptFacts
  <1>4. QED
    BY <1>1, <1>2, <1>3

LEMMA StepRange == PlaceInv => step \in 1 .. 6
  <1> SUFFICES ASSUME PlaceInv PROVE step \in 1 .. 6
    OBVIOUS
  <1>1. CASE step > 1 \/ pc = "wait"
    <2>1. task \in DOMAIN Scripts /\ step \in 1 .. Len(Scripts[task])
      BY <1>1 DEF PlaceInv, Scripts
    <2>2. Len(Scripts[task]) \in 1 .. 6
      BY <2>1, ShortScripts
    <2>3. \A l \in 1 .. 6 : \A k \in 1 .. l : k \in 1 .. 6
      OBVIOUS
    <2>4. QED
      BY <2>1, <2>2, <2>3
  <1>2. CASE ~(step > 1 \/ pc = "wait")
    BY <1>2 DEF PlaceInv
  <1>3. QED
    BY <1>1, <1>2

\* One more command of the configuration.
LEMMA ConfigurationDue ==
  ASSUME NEW m, NEW s, NEW n \in 1 .. 6
  PROVE  /\ DueAt(m, s, 1) \subseteq DueAt(m, s, n)
         /\ \A c \in Prefix(n) : c \in Prefix(n - 1) \/ ( /\ c = Scripts["broadcast"][n].ask
                                                          /\ Scripts["broadcast"][n].must # {} )
  <1>1. Prefix(0) = {} /\ 1 - 1 = 0
    BY DEF Prefix
  <1>2. DueAt(m, s, 1) \subseteq DueAt(m, s, n)
    BY <1>1 DEF DueAt
  <1>3. ASSUME NEW c \in Prefix(n)
        PROVE  c \in Prefix(n - 1) \/ (c = Scripts["broadcast"][n].ask /\ Scripts["broadcast"][n].must # {})
    <2>1. PICK i \in 1 .. n : c = Scripts["broadcast"][i].ask /\ Scripts["broadcast"][i].must # {}
      BY <1>3 DEF Prefix
    <2>2. i \in 1 .. n - 1 \/ i = n
      OBVIOUS
    <2>3. i \in 1 .. n - 1 => c \in Prefix(n - 1)
      BY <2>1, Zenon DEF Prefix
    <2>4. QED
      BY <2>1, <2>2, <2>3
  <1>4. QED
    BY <1>2, <1>3

\* A command that is over leaves due what was due, and itself when its answer was an OK.
LEMMA StepDoneDue ==
  ASSUME PlaceInv, RoundInv, NEW t \in DOMAIN Scripts, NEW texts, StepDone(t, texts),
         step \in 1 .. Len(Scripts[t]), TaskOf(t, mode, status), UNCHANGED <<mode, modes>>
  PROVE  /\ pc' = "call" /\ RoundInv'
         /\ \A c \in Due' : \/ c \in Due
                            \/ c = Scripts[t][step].ask /\ "OK" \in texts /\ t # "uplink"
  <1> DEFINE passed == Scripts[t][step].must \subseteq texts
             over   == passed /\ step = Len(Scripts[t])
  <1>1. /\ pc' = "call"
        /\ step' = IF passed /\ ~over THEN step + 1 ELSE 1
        /\ task' = IF step' > 1 THEN t ELSE "none"
        /\ status' = IF over /\ t # "uplink" THEN Leads[t] ELSE status
    BY DEF StepDone
  <1>2. step \in 1 .. 6 /\ Due = DueAt(mode, status, step) /\ Due' = DueAt(mode, status', step')
    BY StepRange DEF Due
  <1>3. t \in {"broadcast", "normal", "uplink"} \cup Registration
    BY DEF Scripts, Registration, Leads
  <1> HIDE DEF passed
  <1>4. CASE over /\ t # "uplink"
    <2>1. passed /\ step = Len(Scripts[t]) /\ step' = 1 /\ status' = Leads[t]
      BY <1>1, <1>4
    <2>2. CASE t = "broadcast"
      <3>1. mode = "BROADCAST" /\ status = "INIT" /\ status' = "ONLINE_BROADCAST" /\ step = 6
        BY <2>1, <2>2, BroadcastFacts DEF TaskOf, Leads
      <3>2. Due = Prefix(6 - 1) /\ Due' = Prefix(6)
        BY <1>2, <3>1 DEF DueAt
      <3>3. Scripts[t][6].must # {} => "OK" \in texts
        BY <2>1, <2>2, <3>1, BroadcastFacts DEF passed
      <3>4. 6 \in 1 .. 6
        OBVIOUS
      <3>5. \A c \in Prefix(6) : c \in Prefix(6 - 1) \/ (c = Scripts[t][6].ask /\ Scripts[t][6].must # {})
        BY <2>2, <3>4, ConfigurationDue
      <3>6. RoundInv'
        BY <1>1, <2>1, <3>1 DEF RoundInv, Pos
      <3>7. QED
        BY <1>1, <2>2, <3>1, <3>2, <3>3, <3>5, <3>6
    <2>3. CASE t = "normal"
      <3>1. mode = "NORMAL" /\ status' = "INIT"
        BY <2>1, <2>3 DEF TaskOf, Leads
      <3>2. Due' = {}
        BY <1>2, <3>1, NoneDue
      <3>3. RoundInv'
        BY <1>1, <2>1, <3>1 DEF RoundInv, Pos
      <3>4. QED
        BY <1>1, <3>2, <3>3
    <2>4. CASE t \in Registration
      <3>1. mode = "NORMAL" /\ status = t /\ status' \in DOMAIN Pos /\ step = 1
        BY <2>1, <2>4, RegistrationFacts DEF TaskOf
      <3>2. Due' \subseteq Due \cup {Scripts[t][1].ask}
        BY <1>2, <2>1, <2>4, <3>1, RegistrationDue
      <3>3. "OK" \in texts
        BY <2>1, <2>4, <3>1, RegistrationFacts DEF passed
      <3>4. RoundInv'
        BY <1>1, <2>1, <3>1 DEF RoundInv
      <3>5. QED
        BY <1>1, <1>4, <3>1, <3>2, <3>3, <3>4
    <2>5. QED
      BY <1>3, <1>4, <2>2, <2>3, <2>4
  <1>5. CASE ~(over /\ t # "uplink")
    <2>1. status' = status
      BY <1>1, <1>5
    <2>2. RoundInv'
      BY <1>1, <2>1 DEF RoundInv
    <2>3. CASE step' = 1
      BY <1>1, <1>2, <2>1, <2>2, <2>3, ConfigurationDue
    <2>4. CASE step' # 1
      <3>1. passed /\ step' = step + 1 /\ step # Len(Scripts[t])
        BY <1>1, <2>4
      <3>2. t \in {"broadcast", "normal"}
        BY <3>1, ScriptFacts
      <3>3. CASE t = "normal"
        <4>1. Due' = {}
          BY <1>2, <2>1, <3>3, NoneDue DEF TaskOf
        <4>2. QED
          BY <1>1, <2>2, <4>1
      <3>4. CASE t = "broadcast"
        <4>1. mode = "BROADCAST" /\ status = "INIT" /\ (step + 1) - 1 = step
          BY <1>2, <3>4 DEF TaskOf
        <4>2. Due = Prefix(step - 1) /\ Due' = Prefix(step)
          BY <1>2, <2>1, <3>1, <4>1 DEF DueAt
        <4>3. Scripts[t][step].must # {} => "OK" \in texts
          BY <1>2, <3>1, <3>4, BroadcastFacts DEF passed
        <4>4. \A c \in Prefix(step) : \/ c \in Prefix(step - 1)
                                      \/ c = Scripts[t][step].ask /\ Scripts[t][step].must # {}
          BY <1>2, <3>4, ConfigurationDue
        <4>5. QED
          BY <1>1, <2>2, <3>4, <4>2, <4>3, <4>4
      <3>5. QED
        BY <3>2, <3>3, <3>4
    <2>5. QED
      BY <2>3, <2>4
  <1>6. QED
    BY <1>4, <1>5
\* What a round does next belongs to its mode and status.
LEMMA TaskNowOf ==
  ASSUME PlaceInv, RoundInv, pc = "call", TaskNow # "none"
  PROVE  TaskOf(TaskNow, mode, status)
  <1>1. CASE step > 1
    BY <1>1 DEF TaskNow, RoundInv
  <1>2. CASE step = 1
    <2>1. \/ TaskNow = "uplink"
          \/ TaskNow = "broadcast" /\ mode = "BROADCAST" /\ status # "ONLINE_BROADCAST"
          \/ TaskNow = "normal" /\ mode = "NORMAL" /\ status = "ONLINE_BROADCAST"
          \/ TaskNow = status /\ status \in Registration /\ mode = "NORMAL"
      BY <1>2 DEF TaskNow
    <2>2. "uplink" \notin Registration /\ "broadcast" \notin Registration /\ "normal" \notin Registration
      BY DEF Registration, Leads
    <2>3. QED
      BY <2>1, <2>2 DEF TaskOf, RoundInv
  <1>3. QED
    BY <1>1, <1>2 DEF PlaceInv

\* A step that asks for nothing that is due, and hears nothing new.
LEMMA DueKept ==
  ASSUME PlaceInv, RoundInv, PromptInv, DueInv, behind' = behind, accepted' = accepted, Due' \subseteq Due,
         \/ asked' = asked
         \/ \E c \in Commands : c[1] \in {"ULNETDATA", "CMGS", "PDU"} /\ asked' = Append(asked, c),
         pc' = "wait" /\ task' # "uplink" =>
           /\ UNCHANGED <<pc, task, step, asked>>
           /\ "OK" \in Texts(line') <=> "OK" \in Texts(line)
  PROVE  DueInv'
  <1> SUFFICES ASSUME ~behind PROVE DueInv'
    BY DEF DueInv
  <1>1. /\ Due \subseteq accepted
        /\ \A i \in 1 .. Len(asked), c \in Due : asked[i][1] # c[1]
        /\ pc = "wait" /\ task # "uplink" => Answering
    BY DEF DueInv
  <1>2. \A i \in 1 .. Len(asked'), c \in Due : asked'[i][1] # c[1]
    <2>1. CASE asked' = asked
      BY <1>1, <2>1
    <2>2. ASSUME NEW d \in Commands, d[1] \in {"ULNETDATA", "CMGS", "PDU"}, asked' = Append(asked, d)
          PROVE  <1>2
      <3>1. /\ Len(asked') = Len(asked) + 1 /\ Len(asked) \in Nat /\ asked'[Len(asked) + 1] = d
            /\ \A i \in 1 .. Len(asked) : asked'[i] = asked[i]
        BY <2>2 DEF PromptInv
      <3>2. \A c \in Due : d[1] # c[1]
        BY <2>2, StepRange, DueNames DEF Due, RoundInv
      <3>3. QED
        BY <1>1, <3>1, <3>2
    <2>3. QED
      BY <2>1, <2>2
  <1>3. ASSUME pc' = "wait" /\ task' # "uplink"
        PROVE  Answering'
    <2>1. Answering
      BY <1>1, <1>3
    <2>2. Current' = Current
      BY <1>3 DEF Current
    <2>3. QED
      BY <1>3, <2>1, <2>2 DEF Answering
  <1>4. QED
    BY <1>1, <1>2, <1>3 DEF DueInv

\* A step that takes the thread to where nothing is due.
LEMMA DueNone ==
  ASSUME Due' = {}, pc' # "wait"
  PROVE  DueInv'
  BY DEF DueInv

\* A command is written.
LEMMA WriteDue ==
  ASSUME PlaceInv, RoundInv, PromptInv, DueInv, WriteCommand
  PROVE  RoundInv' /\ DueInv'
  <1> DEFINE t == TaskNow
             ask == Scripts[t][step].ask
  <1>1. /\ pc = "call" /\ t # "none" /\ asked' = Append(asked, ask) /\ line' = line
        /\ pc' = "wait" /\ task' = t
        /\ behind' = IF t = "uplink" THEN behind ELSE Behind(t)
        /\ UNCHANGED <<mode, modes, status, step, accepted>>
    BY DEF WriteCommand, Ask, cellVars
  <1>2. t \in DOMAIN Scripts /\ step \in 1 .. Len(Scripts[t]) /\ TaskOf(t, mode, status)
    BY <1>1, TaskNowIs, TaskNowOf
  <1> HIDE DEF t
  <1>3. RoundInv'
    BY <1>1, <1>2 DEF RoundInv
  <1>4. Due' = Due
    BY <1>1 DEF Due
  <1>5. ask \in Commands
    <2>1. ask \in {Scripts[t][i].ask : i \in 1 .. Len(Scripts[t])}
      BY <1>2
    <2>2. QED
      BY <1>2, <2>1, Zenon DEF Commands
  <1>6. CASE t = "uplink"
    <2>1. ask[1] = "ULNETDATA"
      <3>1. step = 1 /\ Scripts[t] = <<Ok("ULNETDATA", 0)>>
        BY <1>2, <1>6, ScriptFacts DEF Scripts
      <3>2. QED
        BY <3>1 DEF Ok, Cmd
    <2>2. QED
      BY <1>1, <1>3, <1>4, <1>5, <1>6, <2>1, DueKept
  <1>7. CASE t # "uplink" /\ ~behind'
    <2>1. asked = <<>> /\ line = {} /\ ~(behind /\ (step > 1 \/ t \in Registration))
      BY <1>1, <1>7 DEF Behind
    <2>2. Due \subseteq accepted
      <3>1. CASE ~behind
        BY <3>1 DEF DueInv
      <3>2. CASE step = 1 /\ t \in {"broadcast", "normal"}
        <4>1. t = "broadcast" => mode = "BROADCAST" /\ status # "ONLINE_BROADCAST"
          BY <1>2 DEF TaskOf
        <4>2. t = "normal" => mode = "NORMAL" /\ status = "ONLINE_BROADCAST"
          BY <1>2 DEF TaskOf
        <4>3. Due = {}
          BY <3>2, <4>1, <4>2, NoneDue DEF Due
        <4>4. QED
          BY <4>3
      <3>3. step = 1 \/ step > 1
        BY DEF PlaceInv
      <3>4. t \in {"broadcast", "normal", "uplink"} \cup Registration
        BY <1>2 DEF Scripts, Registration, Leads
      <3>5. QED
        BY <1>7, <2>1, <3>1, <3>2, <3>3, <3>4
    <2>3. asked' = <<ask>> /\ Len(asked') = 1 /\ asked'[1] = ask
      BY <1>1, <2>1
    <2>4. \A c \in Due : ask[1] # c[1]
      BY <1>2, StepRange, DueNames DEF Due, RoundInv
    <2>5. Answering'
      BY <1>1, <2>1, <2>3 DEF Answering, Current, Texts
    <2>6. QED
      BY <1>1, <1>3, <1>4, <2>2, <2>3, <2>4, <2>5 DEF DueInv
  <1>8. CASE behind'
    BY <1>3, <1>8 DEF DueInv
  <1>9. QED
    BY <1>1, <1>6, <1>7, <1>8

\* A command is over.
LEMMA OverDue ==
  ASSUME PlaceInv, RoundInv, PromptInv, DueInv,
         WriteFails \/ CaptureResponse \/ CaptureTimeout \/ CaptureError
  PROVE  RoundInv' /\ DueInv'
  <1>1. CASE CaptureResponse
    <2>1. /\ pc = "wait" /\ StepDone(task, Texts(line)) /\ behind' = behind
          /\ UNCHANGED <<asked, mode, modes, accepted>>
      BY <1>1 DEF CaptureResponse, Emptied, cellVars, StepDone
    <2>2. task \in DOMAIN Scripts /\ step \in 1 .. Len(Scripts[task]) /\ TaskOf(task, mode, status)
      BY <2>1 DEF PlaceInv, RoundInv
    <2>3. /\ pc' = "call" /\ RoundInv'
          /\ \A c \in Due' : \/ c \in Due
                             \/ c = Current /\ "OK" \in Texts(line) /\ task # "uplink"
      BY <2>1, <2>2, StepDoneDue DEF Current
    <2>4. CASE Due' \subseteq Due
      BY <2>1, <2>3, <2>4, DueKept
    <2>5. CASE ~(Due' \subseteq Due) /\ ~behind
      <3>1. Answering /\ "OK" \in Texts(line)
        BY <2>1, <2>3, <2>5 DEF DueInv
      <3>2. asked = <<>> /\ Current \in accepted
        BY <3>1 DEF Answering
      <3>3. Due' \subseteq accepted'
        BY <2>1, <2>3, <2>5, <3>2 DEF DueInv
      <3>4. QED
        BY <2>1, <2>3, <3>2, <3>3 DEF DueInv
    <2>6. QED
      BY <2>1, <2>3, <2>4, <2>5 DEF DueInv
  <1>2. CASE WriteFails \/ CaptureTimeout \/ CaptureError
    <2>1. PICK t : /\ t \in DOMAIN Scripts /\ step \in 1 .. Len(Scripts[t]) /\ TaskOf(t, mode, status)
                   /\ StepDone(t, {})
      <3>1. CASE WriteFails
        BY <3>1, TaskNowIs, TaskNowOf DEF WriteFails
      <3>2. CASE CaptureTimeout \/ CaptureError
        BY <3>2 DEF CaptureTimeout, CaptureError, PlaceInv, RoundInv
      <3>3. QED
        BY <1>2, <3>1, <3>2
    <2>2. behind' = behind /\ UNCHANGED <<asked, mode, modes, accepted>>
      BY <1>2, <2>1 DEF WriteFails, CaptureTimeout, CaptureError, atVars, cellVars, StepDone
    <2>3. pc' = "call" /\ RoundInv' /\ Due' \subseteq Due
      BY <2>1, <2>2, StepDoneDue
    <2>4. QED
      BY <2>2, <2>3, DueKept
  <1>3. QED
    BY <1>1, <1>2
\* A step outside of a script.
Calm ==
  /\ UNCHANGED <<mode, modes, status, task, step, behind, accepted>>
  /\ asked' = asked \/ \E c \in Commands : c[1] \in {"ULNETDATA", "CMGS", "PDU"} /\ asked' = Append(asked, c)
  /\ pc' = "wait" => /\ UNCHANGED <<pc, asked>>
                     /\ "OK" \in Texts(line') <=> "OK" \in Texts(line)

LEMMA CalmKeeps ==
  ASSUME PlaceInv, RoundInv, PromptInv, DueInv, Calm
  PROVE  RoundInv' /\ DueInv'
  <1>1. RoundInv'
    BY DEF Calm, RoundInv
  <1>2. Due' = Due
    BY DEF Calm, Due
  <1>3. QED
    BY <1>1, <1>2, DueKept DEF Calm

LEMMA ThreadCalm ==
  ASSUME \/ OpenDevice \/ CaptureReports \/ CaptureNothing \/ Forward \/ UplinkNotDue \/ NoSms
         \/ AskPrompt \/ CapturePrompt \/ CaptureResult \/ SmsTimeout \/ SmsError
  PROVE  Calm
  <1> USE DEF Calm, cellVars, atVars
  <1>1. CASE OpenDevice
    BY <1>1 DEF OpenDevice
  <1>2. CASE CaptureReports
    <2>1. pc = "call" /\ (pc' = "forward" \/ pc' = pc)
      BY <1>2 DEF CaptureReports, TakeSsr
    <2>2. QED
      BY <1>2, <2>1 DEF CaptureReports, Emptied
  <1>3. CASE CaptureNothing
    BY <1>3 DEF CaptureNothing
  <1>4. CASE Forward
    BY <1>4 DEF Forward
  <1>5. CASE UplinkNotDue
    BY <1>5 DEF UplinkNotDue
  <1>6. CASE NoSms
    BY <1>6 DEF NoSms
  <1>7. CASE AskPrompt
    <2>1. <<"CMGS", 0>> \in Commands /\ <<"CMGS", 0>>[1] = "CMGS"
      BY DEF Commands
    <2>2. QED
      BY <1>7, <2>1 DEF AskPrompt, Ask
  <1>8. CASE CapturePrompt
    <2>1. <<"PDU", 0>> \in Commands /\ <<"PDU", 0>>[1] = "PDU"
      BY DEF Commands
    <2>2. /\ UNCHANGED SmsVars /\ pc' # "wait"
          /\ asked' = asked \/ asked' = Append(asked, <<"PDU", 0>>)
      BY <1>8 DEF CapturePrompt
    <2>3. QED
      BY <2>1, <2>2 DEF SmsVars
  <1>9. CASE CaptureResult
    BY <1>9 DEF CaptureResult, Emptied, SmsVars
  <1>10. CASE SmsTimeout
    BY <1>10 DEF SmsTimeout, GiveUpSms, SmsVars
  <1>11. CASE SmsError
    BY <1>11 DEF SmsError, GiveUpSms, SmsVars
  <1>12. QED
    BY <1>1, <1>2, <1>3, <1>4, <1>5, <1>6, <1>7, <1>8, <1>9, <1>10, <1>11

LEMMA OthersCalm ==
  ASSUME \/ Activate \/ ReportRest \/ ModeChange \/ IntervalPasses \/ WantSms \/ UNCHANGED vars
         \/ \E kind \in {"ssr", "dl"} : ReportHead(kind)
  PROVE  Calm
  <1> USE DEF Calm, cellVars, atVars, threadVars
  <1>1. CASE Activate
    <2>1. line' = line \cup {{"+CREV"}} /\ UNCHANGED <<asked, threadVars, accepted, behind>>
      BY <1>1 DEF Activate
    <2>2. "OK" \in Texts(line') <=> "OK" \in Texts(line)
      BY <2>1 DEF Texts
    <2>3. QED
      BY <2>1, <2>2
  <1>2. CASE ReportRest
    BY <1>2 DEF ReportRest
  <1>3. CASE ModeChange
    BY <1>3 DEF ModeChange
  <1>4. CASE IntervalPasses
    BY <1>4 DEF IntervalPasses
  <1>5. CASE WantSms
    BY <1>5 DEF WantSms
  <1>6. CASE UNCHANGED vars
    BY <1>6 DEF vars
  <1>7. ASSUME NEW kind \in {"ssr", "dl"}, ReportHead(kind)
        PROVE  Calm
    BY <1>7 DEF ReportHead
  <1>8. QED
    BY <1>1, <1>2, <1>3, <1>4, <1>5, <1>6, <1>7

\* The rounds that write nothing change the status, or the mode is changed, once.
LEMMA StatusDue ==
  ASSUME PlaceInv, RoundInv, PromptInv, DueInv,
         PowerOn \/ AwaitActivation \/ (ChangeMode /\ MaxModes <= 1)
  PROVE  RoundInv' /\ DueInv'
  <1>1. CASE PowerOn
    <2>1. /\ pc' = "call" /\ step' = 1 /\ status' = "POWER_ON" /\ mode' = "NORMAL" /\ mode = "NORMAL"
          /\ modes' = modes
      BY <1>1 DEF PowerOn
    <2>2. Due' = {}
      BY <2>1, NoneDue DEF Due
    <2>3. RoundInv'
      BY <2>1 DEF RoundInv, Pos
    <2>4. QED
      BY <2>1, <2>2, <2>3, DueNone
  <1>2. CASE AwaitActivation
    <2>1. /\ mode = "NORMAL" /\ status = "WAIT_CREV" /\ (status' = "WAIT_CIREG" \/ status' = status)
          /\ pc = "call" /\ step = 1 /\ UNCHANGED <<mode, modes, step, pc, task, behind, accepted, asked>>
      BY <1>2 DEF AwaitActivation, Emptied, cellVars
    <2>2. Due' \subseteq Due
      BY <2>1, RegistrationDue DEF Due
    <2>3. RoundInv'
      BY <2>1 DEF RoundInv, Pos
    <2>4. QED
      BY <2>1, <2>2, <2>3, DueKept
  <1>3. CASE ChangeMode /\ MaxModes <= 1
    <2>1. /\ modes < MaxModes /\ modes' = modes + 1 /\ pc' = "call" /\ step' = 1 /\ status' = status
          /\ mode' = IF mode = "NORMAL" THEN "BROADCAST" ELSE "NORMAL"
      BY <1>3 DEF ChangeMode
    <2>2. modes = 0
      <3>1. modes \in Nat /\ MaxModes \in Nat /\ MaxModes <= 1
        BY <1>3, DbbAssumption DEF PlaceInv
      <3>2. QED
        BY <2>1, <3>1
    <2>3. mode = "BROADCAST" /\ mode' = "NORMAL" /\ status \in {"INIT", "ONLINE_BROADCAST"}
      BY <2>1, <2>2 DEF PlaceInv, RoundInv
    <2>4. Due' = {}
      BY <2>1, <2>3, NoneDue DEF Due
    <2>5. RoundInv'
      BY <2>1, <2>3 DEF RoundInv
    <2>6. QED
      BY <2>1, <2>4, <2>5, DueNone
  <1>4. QED
    BY <1>1, <1>2, <1>3

\* The module's answer is to the command that is waited for.
LEMMA AnswerDue ==
  ASSUME PlaceInv, RoundInv, PromptInv, DueInv, Comply \/ Refuse
  PROVE  RoundInv' /\ DueInv'
  <1> DEFINE cmd == Head(asked)
  <1>1. /\ asked # <<>> /\ asked' = Tail(asked)
        /\ UNCHANGED <<mode, modes, status, task, step, pc, behind>>
    BY DEF Comply, Refuse, Reply, threadVars
  <1>2. RoundInv' /\ Due' = Due /\ Current' = Current
    BY <1>1 DEF RoundInv, Due, Current
  <1>3. /\ asked \in Seq(Commands) /\ cmd = asked[1] /\ 1 \in 1 .. Len(asked)
        /\ Len(asked') = Len(asked) - 1 /\ \A i \in 1 .. Len(asked') : asked'[i] = asked[i + 1]
        /\ \A i \in 1 .. Len(asked') : i + 1 \in 1 .. Len(asked)
    BY <1>1 DEF PromptInv
  <1> HIDE DEF cmd
  <1>4. SUFFICES ASSUME ~behind PROVE DueInv'
    BY <1>1, <1>2 DEF DueInv
  <1>5. /\ Due \subseteq accepted
        /\ \A i \in 1 .. Len(asked), c \in Due : asked[i][1] # c[1]
        /\ pc = "wait" /\ task # "uplink" => Answering
    BY <1>4 DEF DueInv
  <1>6. /\ \A c \in Due : cmd[1] # c[1]
        /\ \A i \in 1 .. Len(asked'), c \in Due : asked'[i][1] # c[1]
    BY <1>3, <1>5
  <1>7. \/ accepted' = accepted
        \/ accepted' = {a \in accepted : a[1] # cmd[1]} \cup ({cmd} \ {<<"CMGS", 0>>})
        \/ accepted' = accepted \ {cmd}
    BY DEF Comply, Refuse, cmd
  <1>8. Due \subseteq accepted'
    <2>1. SUFFICES ASSUME NEW c \in Due PROVE c \in accepted'
      OBVIOUS
    <2>2. c \in accepted /\ c[1] # cmd[1] /\ c # cmd
      BY <1>5, <1>6
    <2>3. QED
      BY <1>7, <2>2
  <1>9. ASSUME pc = "wait", task # "uplink"
        PROVE  asked' = <<>> /\ ("OK" \in Texts(line') => Current \in accepted')
    <2>1. asked = <<Current>> /\ "OK" \notin Texts(line)
      BY <1>1, <1>5, <1>9 DEF Answering
    <2>2. asked' = <<>> /\ cmd = Current
      BY <1>1, <1>3, <2>1
    <2>3. cmd[1] # "PDU"
      BY <1>9, <2>2, ScriptFacts DEF PlaceInv, Current
    <2>4. CASE line' = line \/ line' = line \cup {{">"}} \/ line' = line \cup {{"ERROR"}}
      BY <2>1, <2>2, <2>4 DEF Texts
    <2>5. CASE ~(line' = line \/ line' = line \cup {{">"}} \/ line' = line \cup {{"ERROR"}})
      <3>1. Comply
        BY <2>5 DEF Refuse, Reply
      <3>2. /\ entry = "command" /\ cmd[1] # "CMGS"
            /\ accepted' = {a \in accepted : a[1] # cmd[1]} \cup ({cmd} \ {<<"CMGS", 0>>})
        BY <2>3, <2>5, <3>1 DEF Comply, Reply, cmd
      <3>3. cmd # <<"CMGS", 0>>
        BY <3>2
      <3>4. QED
        BY <2>2, <3>2, <3>3
    <2>6. QED
      BY <2>4, <2>5
  <1>10. QED
    BY <1>1, <1>2, <1>6, <1>8, <1>9 DEF DueInv, Answering

\* Every step keeps it, when the mode is changed at most once.
LEMMA DueStep ==
  ASSUME MaxModes <= 1, PlaceInv, RoundInv, PromptInv, DueInv, [Next]_vars
  PROVE  RoundInv' /\ DueInv'
  <1>1. CASE Calm
    BY <1>1, CalmKeeps
  <1>2. CASE WriteCommand
    BY <1>2, WriteDue
  <1>3. CASE WriteFails \/ CaptureResponse \/ CaptureTimeout \/ CaptureError
    BY <1>3, OverDue
  <1>4. CASE PowerOn \/ AwaitActivation \/ ChangeMode
    BY <1>4, StatusDue
  <1>5. CASE Comply \/ Refuse
    BY <1>5, AnswerDue
  <1>6. QED
    BY <1>1, <1>2, <1>3, <1>4, <1>5, ThreadCalm, OthersCalm DEF Next, Thread, Module, Setback

\* Online, all of the configuration, or of the registration, was due.
LEMMA DueOnline ==
  ASSUME RoundInv, DueInv
  PROVE  OnlineConfigured
  <1>1. ASSUME mode = "BROADCAST", status = "ONLINE_BROADCAST", ~behind
        PROVE  RequiredOf({"broadcast"}) \subseteq accepted
    <2>1. Due = Prefix(6)
      BY <1>1 DEF Due, DueAt
    <2>2. RequiredOf({"broadcast"}) = Prefix(6)
      BY BroadcastFacts DEF RequiredOf, Prefix
    <2>3. QED
      BY <1>1, <2>1, <2>2 DEF DueInv
  <1>2. ASSUME mode = "NORMAL", status = "ONLINE", ~behind
        PROVE  RequiredOf(Registration) \subseteq accepted
    <2>1. SUFFICES ASSUME NEW t \in Registration, NEW i \in 1 .. Len(Scripts[t])
                   PROVE  Scripts[t][i].ask \in accepted
      BY DEF RequiredOf
    <2>2. t \in DOMAIN Asked /\ Len(Scripts[t]) = 1
      BY RegistrationFacts
    <2>3. i = 1
      BY <2>2
    <2>4. Pos[t] < Pos["ONLINE"]
      BY <2>2 DEF Asked, Pos
    <2>5. Scripts[t][1].ask \in Due
      BY <1>2, <2>4 DEF Due, DueAt, Before
    <2>6. QED
      BY <1>2, <2>3, <2>5 DEF DueInv
  <1>3. QED
    BY <1>1, <1>2 DEF OnlineConfigured

\* The service goes online only on a module that has accepted its configuration, or its
\* registration, unless an answer was late (dbb_thread.c:159-179, 308-400).  Nothing in the
\* program changes the mode; the theorem covers one change of it.  Another one, before the
\* configuration of the first is over, would find the status of the old mode still set
\* (dbb_thread.c:240-300).
THEOREM ConfiguredOnline ==
  ASSUME MaxModes <= 1
  PROVE  Spec => []OnlineConfigured
  <1>1. Init => RoundInv /\ DueInv
    <2> SUFFICES ASSUME Init PROVE RoundInv /\ DueInv
      OBVIOUS
    <2>1. /\ asked = <<>> /\ mode = "BROADCAST" /\ modes = 0 /\ status = "INIT" /\ step = 1
          /\ pc = "start"
      BY DEF Init, AtInit
    <2>2. RoundInv
      BY <2>1 DEF RoundInv, Pos
    <2>3. Due = {}
      BY <2>1, NoneDue DEF Due
    <2>4. QED
      BY <2>1, <2>2, <2>3 DEF DueInv
  <1>2. IInv /\ MessageInv /\ RoundInv /\ DueInv /\ [Next]_vars => RoundInv' /\ DueInv'
    BY DueStep DEF MessageInv
  <1>3. RoundInv /\ DueInv => OnlineConfigured
    BY DueOnline
  <1>4. QED
    BY <1>1, <1>2, <1>3, InitInv, StepInv, MessageInit, MessageStep, PTL DEF Spec

-----------------------------------------------------------------------------
(* The 4G modem: the states of Eth4g. *)

\* Where a status stands in the bring-up.
LEMMA EthRanks ==
  /\ Len(Order) = 13
  /\ Rank("INIT") = 1 /\ Rank("POWER_ON") = 2 /\ Rank("AT_READY") = 3
  /\ Rank("SIM_READY") = 4 /\ Rank("SIGNAL_OK") = 5 /\ Rank("CFUN_OK") = 6
  /\ Rank("REGISTERED") = 7 /\ Rank("APN_OK") = 8 /\ Rank("ATTACHED") = 9
  /\ Rank("IFACE_UP") = 10 /\ Rank("LINK_UP") = 11 /\ Rank("DHCP_OK") = 12
  /\ Rank("ONLINE") = 13
  <1> DEFINE o == Order
  <1>1. Len(o) = 13
    BY DEF Order
  <1>2. /\ o[1] = "INIT" /\ o[2] = "POWER_ON" /\ o[3] = "AT_READY" /\ o[4] = "SIM_READY"
        /\ o[5] = "SIGNAL_OK" /\ o[6] = "CFUN_OK" /\ o[7] = "REGISTERED" /\ o[8] = "APN_OK"
        /\ o[9] = "ATTACHED" /\ o[10] = "IFACE_UP" /\ o[11] = "LINK_UP" /\ o[12] = "DHCP_OK"
        /\ o[13] = "ONLINE"
    BY DEF Order
  <1> HIDE DEF o
  <1>3. \A i \in 1 .. 13 : \/ i = 1 \/ i = 2 \/ i = 3 \/ i = 4 \/ i = 5 \/ i = 6 \/ i = 7 \/ i = 8
                           \/ i = 9 \/ i = 10 \/ i = 11 \/ i = 12 \/ i = 13
    OBVIOUS
  <1>4. \A i, j \in 1 .. 13 : o[i] = o[j] => i = j
    BY <1>2, <1>3
  <1>5. \A j \in 1 .. 13 : Rank(o[j]) = j
    <2>1. SUFFICES ASSUME NEW j \in 1 .. 13 PROVE Rank(o[j]) = j
      OBVIOUS
    <2>2. \A i \in 1 .. 13 : o[i] = o[j] <=> i = j
      BY <1>4
    <2>3. Rank(o[j]) = CHOOSE i \in 1 .. 13 : o[i] = o[j]
      BY <1>1 DEF Rank, o
    <2>4. QED
      BY <2>2, <2>3
  <1>6. QED
    BY <1>1, <1>2, <1>5 DEF o

EthStages == {Order[i] : i \in 1 .. Len(Order)}
EthTexts == UNION line
EthAsked(c) == \E i \in 1 .. Len(asked) : asked[i] = c

\* the statuses from one on
EthAttached == {"ATTACHED", "IFACE_UP", "LINK_UP", "DHCP_OK", "ONLINE"}
EthRegistered == {"REGISTERED", "APN_OK"} \cup EthAttached
EthRadio == {"CFUN_OK"} \cup EthRegistered

\* what the thread writes
EthCommands == UNION {{Script[r][i].ask : i \in 1 .. Len(Script[r])} : r \in DOMAIN Script}

\* where the thread is
EthPlace ==
  /\ ethStatus \in EthStages /\ ethPc \in {"call", "wait"} /\ asked \in Seq(EthCommands)
  /\ run = ethStatus \/ (run = "RECOVER" /\ ethStatus = "ONLINE")
  /\ ethStep \in Nat \ {0}
  /\ run \in DOMAIN Script => ethStep \in 1 .. Len(Script[run])
  /\ ethPc = "wait" => run \in DOMAIN Script
  /\ ethPc = "wait" /\ run = "RECOVER" => recovering
  /\ recovering \in BOOLEAN /\ radio \in BOOLEAN
  /\ recovering => ethStatus \in {"AT_READY", "SIM_READY", "SIGNAL_OK", "ONLINE"}

\* The answers that may still come: one to CFUN? comes after all that the new
\* bring-up has to forget, and one that it is registered after those.
EthLate ==
  /\ EthAsked("CFUN?") \/ "CFUN: 1" \in EthTexts => ethStatus \in {"SIGNAL_OK", "CFUN_OK"}
  /\ ethStatus = "SIGNAL_OK" =>
       /\ \A i, j \in 1 .. Len(asked) :
            asked[i] = "CFUN?" /\ i < j => asked[j] \notin {"CEREG?", "CFUN=0"}
       /\ "CFUN: 1" \in EthTexts => ~EthAsked("CEREG?") /\ ~EthAsked("CFUN=0")
  /\ ethStatus = "CFUN_OK" =>
       /\ \A i, j \in 1 .. Len(asked) : asked[i] = "CEREG?" /\ i < j => asked[j] # "CFUN?"
       /\ "CEREG: 1" \in EthTexts => ~EthAsked("CFUN?")

\* what was said, and is unread, was said in this bring-up
EthSaid ==
  /\ ethStatus = "SIGNAL_OK" /\ "CFUN: 1" \in EthTexts => "CFUN: 1" \in said
  /\ ethStatus \in EthRadio /\ ~recovering =>
       /\ ~EthAsked("CFUN=0") /\ "CFUN: 1" \in said
       /\ EthTexts \cap {"CEREG: 1", "CGATT: 1"} \subseteq said
       /\ ethStatus \in EthRegistered => "CEREG: 1" \in said
       /\ ethStatus \in EthAttached => "CGATT: 1" \in said

EthInv == EthPlace /\ EthLate /\ EthSaid

\* The scripts, and the status after each.
LEMMA EthScripts ==
  /\ DOMAIN Script = {"POWER_ON", "AT_READY", "SIM_READY", "SIGNAL_OK", "CFUN_OK", "REGISTERED",
                          "APN_OK", "ONLINE", "RECOVER"}
  /\ \A r \in DOMAIN Script :
       /\ Len(Script[r]) \in Nat \ {0}
       /\ \A i \in 1 .. Len(Script[r]) :
            /\ Script[r][i].ask = "CFUN?" => r = "SIGNAL_OK"
            /\ Script[r][i].ask = "CEREG?" => r \in {"CFUN_OK", "ONLINE"}
            /\ Script[r][i].ask = "CFUN=0" => r = "RECOVER"
  /\ "CFUN: 1" \in Script["SIGNAL_OK"][Len(Script["SIGNAL_OK"])].want
  /\ "CEREG: 1" \in Script["CFUN_OK"][Len(Script["CFUN_OK"])].want
  /\ "CGATT: 1" \in Script["APN_OK"][Len(Script["APN_OK"])].want
  <1> DEFINE Fine(r) ==
               /\ Len(Script[r]) \in Nat \ {0}
               /\ \A i \in 1 .. Len(Script[r]) :
                    /\ Script[r][i].ask = "CFUN?" => r = "SIGNAL_OK"
                    /\ Script[r][i].ask = "CEREG?" => r \in {"CFUN_OK", "ONLINE"}
                    /\ Script[r][i].ask = "CFUN=0" => r = "RECOVER"
  <1>1. DOMAIN Script = {"POWER_ON", "AT_READY", "SIM_READY", "SIGNAL_OK", "CFUN_OK",
                             "REGISTERED", "APN_OK", "ONLINE", "RECOVER"}
    BY DEF Script
  <1>2. Fine("POWER_ON")
    <2> DEFINE a == [ask |-> "AT", want |-> {"OK"}]
               b == [ask |-> "ATE0", want |-> {"OK"}]
    <2>1. Script["POWER_ON"] = <<a, b>>
      BY DEF Script
    <2>2. a.ask = "AT" /\ b.ask = "ATE0"
      OBVIOUS
    <2> HIDE DEF a, b
    <2>3. Len(Script["POWER_ON"]) = 2 /\ Script["POWER_ON"][1] = a /\ Script["POWER_ON"][2] = b
      BY <2>1
    <2>4. \A i \in 1 .. 2 : i = 1 \/ i = 2
      OBVIOUS
    <2>5. QED
      BY <2>2, <2>3, <2>4
  <1>3. Fine("AT_READY")
    <2> DEFINE a == [ask |-> "CPIN?", want |-> {"CPIN: READY"}]
    <2>1. Script["AT_READY"] = <<a>>
      BY DEF Script
    <2>2. a.ask = "CPIN?"
      OBVIOUS
    <2> HIDE DEF a
    <2>3. Len(Script["AT_READY"]) = 1 /\ Script["AT_READY"][1] = a
      BY <2>1
    <2>4. \A i \in 1 .. 1 : i = 1
      OBVIOUS
    <2>5. QED
      BY <2>2, <2>3, <2>4
  <1>4. Fine("SIM_READY")
    <2> DEFINE a == [ask |-> "CSQ", want |-> {"OK"}]
    <2>1. Script["SIM_READY"] = <<a>>
      BY DEF Script
    <2>2. a.ask = "CSQ"
      OBVIOUS
    <2> HIDE DEF a
    <2>3. Len(Script["SIM_READY"]) = 1 /\ Script["SIM_READY"][1] = a
      BY <2>1
    <2>4. \A i \in 1 .. 1 : i = 1
      OBVIOUS
    <2>5. QED
      BY <2>2, <2>3, <2>4
  <1>5. /\ Fine("SIGNAL_OK")
        /\ "CFUN: 1" \in Script["SIGNAL_OK"][Len(Script["SIGNAL_OK"])].want
    <2> DEFINE a == [ask |-> "CFUN=1", want |-> {"OK"}]
               b == [ask |-> "CFUN?", want |-> {"OK", "CFUN: 1"}]
    <2>1. Script["SIGNAL_OK"] = <<a, b>>
      BY DEF Script
    <2>2. a.ask = "CFUN=1" /\ b.ask = "CFUN?"
      OBVIOUS
    <2>2a. "CFUN: 1" \in b.want
      OBVIOUS
    <2> HIDE DEF a, b
    <2>3. Len(Script["SIGNAL_OK"]) = 2 /\ Script["SIGNAL_OK"][1] = a /\ Script["SIGNAL_OK"][2] = b
      BY <2>1
    <2>4. \A i \in 1 .. 2 : i = 1 \/ i = 2
      OBVIOUS
    <2>5. Fine("SIGNAL_OK")
      BY <2>2, <2>3, <2>4
    <2>6. "CFUN: 1" \in Script["SIGNAL_OK"][Len(Script["SIGNAL_OK"])].want
      BY <2>2a, <2>3
    <2>7. QED
      BY <2>5, <2>6
  <1>6. /\ Fine("CFUN_OK")
        /\ "CEREG: 1" \in Script["CFUN_OK"][Len(Script["CFUN_OK"])].want
    <2> DEFINE a == [ask |-> "CEREG?", want |-> {"CEREG: 1"}]
    <2>1. Script["CFUN_OK"] = <<a>>
      BY DEF Script
    <2>2. a.ask = "CEREG?"
      OBVIOUS
    <2>2a. "CEREG: 1" \in a.want
      OBVIOUS
    <2> HIDE DEF a
    <2>3. Len(Script["CFUN_OK"]) = 1 /\ Script["CFUN_OK"][1] = a
      BY <2>1
    <2>4. \A i \in 1 .. 1 : i = 1
      OBVIOUS
    <2>5. Fine("CFUN_OK")
      BY <2>2, <2>3, <2>4
    <2>6. "CEREG: 1" \in Script["CFUN_OK"][Len(Script["CFUN_OK"])].want
      BY <2>2a, <2>3
    <2>7. QED
      BY <2>5, <2>6
  <1>7. Fine("REGISTERED")
    <2> DEFINE a == [ask |-> "CGDCONT", want |-> {"OK"}]
    <2>1. Script["REGISTERED"] = <<a>>
      BY DEF Script
    <2>2. a.ask = "CGDCONT"
      OBVIOUS
    <2> HIDE DEF a
    <2>3. Len(Script["REGISTERED"]) = 1 /\ Script["REGISTERED"][1] = a
      BY <2>1
    <2>4. \A i \in 1 .. 1 : i = 1
      OBVIOUS
    <2>5. QED
      BY <2>2, <2>3, <2>4
  <1>8. /\ Fine("APN_OK")
        /\ "CGATT: 1" \in Script["APN_OK"][Len(Script["APN_OK"])].want
    <2> DEFINE a == [ask |-> "CGATT=1", want |-> {"OK"}]
               b == [ask |-> "CGATT?", want |-> {"CGATT: 1"}]
    <2>1. Script["APN_OK"] = <<a, b>>
      BY DEF Script
    <2>2. a.ask = "CGATT=1" /\ b.ask = "CGATT?"
      OBVIOUS
    <2>2a. "CGATT: 1" \in b.want
      OBVIOUS
    <2> HIDE DEF a, b
    <2>3. Len(Script["APN_OK"]) = 2 /\ Script["APN_OK"][1] = a /\ Script["APN_OK"][2] = b
      BY <2>1
    <2>4. \A i \in 1 .. 2 : i = 1 \/ i = 2
      OBVIOUS
    <2>5. Fine("APN_OK")
      BY <2>2, <2>3, <2>4
    <2>6. "CGATT: 1" \in Script["APN_OK"][Len(Script["APN_OK"])].want
      BY <2>2a, <2>3
    <2>7. QED
      BY <2>5, <2>6
  <1>9. Fine("ONLINE")
    <2> DEFINE a == [ask |-> "CPIN?", want |-> {"CPIN: READY"}]
               b == [ask |-> "CEREG?", want |-> {"CEREG: 1"}]
               c == [ask |-> "CGATT?", want |-> {"CGATT: 1"}]
    <2>1. Script["ONLINE"] = <<a, b, c>>
      BY DEF Script
    <2>2. a.ask = "CPIN?" /\ b.ask = "CEREG?" /\ c.ask = "CGATT?"
      OBVIOUS
    <2> HIDE DEF a, b, c
    <2>3. Len(Script["ONLINE"]) = 3 /\ Script["ONLINE"][1] = a /\ Script["ONLINE"][2] = b /\ Script["ONLINE"][3] = c
      BY <2>1
    <2>4. \A i \in 1 .. 3 : i = 1 \/ i = 2 \/ i = 3
      OBVIOUS
    <2>5. QED
      BY <2>2, <2>3, <2>4
  <1>10. Fine("RECOVER")
    <2> DEFINE a == [ask |-> "CFUN=0", want |-> {"OK"}]
    <2>1. Script["RECOVER"] = <<a>>
      BY DEF Script
    <2>2. a.ask = "CFUN=0"
      OBVIOUS
    <2> HIDE DEF a
    <2>3. Len(Script["RECOVER"]) = 1 /\ Script["RECOVER"][1] = a
      BY <2>1
    <2>4. \A i \in 1 .. 1 : i = 1
      OBVIOUS
    <2>5. QED
      BY <2>2, <2>3, <2>4
  <1> HIDE DEF Fine
  <1>11. \A r \in DOMAIN Script : Fine(r)
    BY <1>1, <1>2, <1>3, <1>4, <1>5, <1>6, <1>7, <1>8, <1>9, <1>10
  <1>12. QED
    BY <1>1, <1>5, <1>6, <1>8, <1>11 DEF Fine

\* No script is empty.
LEMMA EthLengths ==
  \A r \in DOMAIN Script : /\ Len(Script[r]) \in Nat \ {0}
                               /\ 1 \in 1 .. Len(Script[r])
  <1>1. \A r \in DOMAIN Script : Len(Script[r]) \in Nat \ {0}
    BY EthScripts
  <1>2. \A n \in Nat \ {0} : 1 \in 1 .. n
    OBVIOUS
  <1>3. QED
    BY <1>1, <1>2

\* The order of the bring-up.
LEMMA EthOrder ==
  /\ EthStages = {"INIT", "POWER_ON", "AT_READY", "SIM_READY", "SIGNAL_OK"} \cup EthRadio
  /\ \A s \in EthStages : /\ Rank(s) >= Rank("CFUN_OK") <=> s \in EthRadio
                          /\ Rank(s) >= Rank("REGISTERED") <=> s \in EthRegistered
                          /\ Rank(s) >= Rank("ATTACHED") <=> s \in EthAttached
  /\ After("INIT") = "POWER_ON" /\ After("POWER_ON") = "AT_READY"
  /\ After("AT_READY") = "SIM_READY" /\ After("SIM_READY") = "SIGNAL_OK"
  /\ After("SIGNAL_OK") = "CFUN_OK" /\ After("CFUN_OK") = "REGISTERED"
  /\ After("REGISTERED") = "APN_OK" /\ After("APN_OK") = "ATTACHED"
  /\ After("ATTACHED") = "IFACE_UP" /\ After("IFACE_UP") = "LINK_UP"
  /\ After("LINK_UP") = "DHCP_OK" /\ After("DHCP_OK") = "ONLINE"
  <1> DEFINE o == Order
  <1>1. /\ o[1] = "INIT" /\ o[2] = "POWER_ON" /\ o[3] = "AT_READY" /\ o[4] = "SIM_READY"
        /\ o[5] = "SIGNAL_OK" /\ o[6] = "CFUN_OK" /\ o[7] = "REGISTERED" /\ o[8] = "APN_OK"
        /\ o[9] = "ATTACHED" /\ o[10] = "IFACE_UP" /\ o[11] = "LINK_UP" /\ o[12] = "DHCP_OK"
        /\ o[13] = "ONLINE"
    BY DEF Order
  <1>2. \A s : After(s) = o[Rank(s) + 1]
    BY DEF After
  <1>3. EthStages = {o[i] : i \in 1 .. 13}
    BY EthRanks DEF EthStages
  <1> HIDE DEF o
  <1>4. \A i \in 1 .. 13 : \/ i = 1 \/ i = 2 \/ i = 3 \/ i = 4 \/ i = 5 \/ i = 6 \/ i = 7 \/ i = 8
                           \/ i = 9 \/ i = 10 \/ i = 11 \/ i = 12 \/ i = 13
    OBVIOUS
  <1>5. EthStages = {o[1], o[2], o[3], o[4], o[5], o[6], o[7], o[8], o[9], o[10], o[11], o[12], o[13]}
    <2>1. \A i \in {1, 2, 3, 4, 5, 6, 7, 8, 9, 10, 11, 12, 13} : i \in 1 .. 13
      OBVIOUS
    <2>2. QED
      BY <1>3, <1>4, <2>1
  <1>6. EthStages = {"INIT", "POWER_ON", "AT_READY", "SIM_READY", "SIGNAL_OK"} \cup EthRadio
    BY <1>1, <1>5 DEF EthRadio, EthRegistered, EthAttached
  <1>7. ASSUME NEW s \in EthStages
        PROVE  /\ Rank(s) >= Rank("CFUN_OK") <=> s \in EthRadio
               /\ Rank(s) >= Rank("REGISTERED") <=> s \in EthRegistered
               /\ Rank(s) >= Rank("ATTACHED") <=> s \in EthAttached
    BY <1>6, EthRanks DEF EthRadio, EthRegistered, EthAttached
  <1>8. QED
    BY <1>1, <1>2, <1>6, <1>7, EthRanks

\* A step that leaves the status, and may write a command of its script.
LEMMA EthStays ==
  ASSUME EthPlace, EthLate, EthSaid, UNCHANGED <<ethStatus, radio, said>>,
         line' = line \/ line' = {},
         \/ asked' = asked
         \/ \E c \in EthCommands :
              /\ asked' = Append(asked, c)
              /\ c = "CFUN?" => ethStatus = "SIGNAL_OK"
              /\ c = "CEREG?" => ethStatus \in {"CFUN_OK", "ONLINE"}
              /\ c = "CFUN=0" => ethStatus = "ONLINE" /\ recovering',
         recovering => recovering'
  PROVE  EthLate' /\ EthSaid' /\ asked' \in Seq(EthCommands)
  <1>1. EthTexts' \subseteq EthTexts
    BY DEF EthTexts
  <1>2. CASE asked' = asked
    BY <1>1, <1>2 DEF EthPlace, EthLate, EthSaid, EthAsked
  <1>3. ASSUME NEW c \in EthCommands, asked' = Append(asked, c),
               c = "CFUN?" => ethStatus = "SIGNAL_OK",
               c = "CEREG?" => ethStatus \in {"CFUN_OK", "ONLINE"},
               c = "CFUN=0" => ethStatus = "ONLINE" /\ recovering'
        PROVE  EthLate' /\ EthSaid' /\ asked' \in Seq(EthCommands)
    <2> DEFINE n == Len(asked)
    <2>1. /\ asked \in Seq(EthCommands) /\ asked' \in Seq(EthCommands) /\ n \in Nat
          /\ Len(asked') = n + 1 /\ asked'[n + 1] = c
          /\ \A i \in 1 .. n : asked'[i] = asked[i]
      BY <1>3 DEF EthPlace
    <2> HIDE DEF n
    <2>2. \A x : EthAsked(x)' <=> EthAsked(x) \/ x = c
      <3>1. \A x : EthAsked(x) <=> \E i \in 1 .. n : asked[i] = x
        BY DEF EthAsked, n
      <3>2. \A x : EthAsked(x)' <=> \E i \in 1 .. n + 1 : asked'[i] = x
        BY <2>1 DEF EthAsked
      <3>3. \A i \in 1 .. n + 1 : i \in 1 .. n \/ i = n + 1
        BY <2>1
      <3>4. n + 1 \in 1 .. n + 1 /\ \A i \in 1 .. n : i \in 1 .. n + 1
        BY <2>1
      <3>5. QED
        BY <2>1, <3>1, <3>2, <3>3, <3>4
    <2>3. \A i, j \in 1 .. n + 1 : i < j => i \in 1 .. n /\ (j \in 1 .. n \/ j = n + 1)
      BY <2>1
    <2>4. EthLate'
      <3>1. EthAsked("CFUN?")' \/ "CFUN: 1" \in EthTexts' => ethStatus' \in {"SIGNAL_OK", "CFUN_OK"}
        BY <1>1, <1>3, <2>2 DEF EthLate
      <3>2. ASSUME ethStatus = "SIGNAL_OK"
            PROVE  /\ \A i, j \in 1 .. Len(asked') :
                        asked'[i] = "CFUN?" /\ i < j => asked'[j] \notin {"CEREG?", "CFUN=0"}
                   /\ "CFUN: 1" \in EthTexts' => ~EthAsked("CEREG?")' /\ ~EthAsked("CFUN=0")'
        <4>1. c \notin {"CEREG?", "CFUN=0"}
          BY <1>3, <3>2
        <4>2. ASSUME NEW i \in 1 .. n + 1, NEW j \in 1 .. n + 1, asked'[i] = "CFUN?", i < j
              PROVE  asked'[j] \notin {"CEREG?", "CFUN=0"}
          BY <2>1, <2>3, <3>2, <4>1, <4>2 DEF EthLate, n
        <4>3. QED
          BY <1>1, <2>1, <2>2, <3>2, <4>1, <4>2 DEF EthLate
      <3>3. ASSUME ethStatus = "CFUN_OK"
            PROVE  /\ \A i, j \in 1 .. Len(asked') :
                        asked'[i] = "CEREG?" /\ i < j => asked'[j] # "CFUN?"
                   /\ "CEREG: 1" \in EthTexts' => ~EthAsked("CFUN?")'
        <4>1. c # "CFUN?"
          BY <1>3, <3>3
        <4>2. ASSUME NEW i \in 1 .. n + 1, NEW j \in 1 .. n + 1, asked'[i] = "CEREG?", i < j
              PROVE  asked'[j] # "CFUN?"
          BY <2>1, <2>3, <3>3, <4>1, <4>2 DEF EthLate, n
        <4>3. QED
          BY <1>1, <2>1, <2>2, <3>3, <4>1, <4>2 DEF EthLate
      <3>4. QED
        BY <3>1, <3>2, <3>3 DEF EthLate
    <2>5. EthSaid'
      BY <1>1, <1>3, <2>2 DEF EthSaid
    <2>6. QED
      BY <2>1, <2>4, <2>5
  <1>4. QED
    BY <1>2, <1>3

\* The module's answer to its oldest command.
LEMMA EthAnswered ==
  ASSUME EthPlace, EthLate, EthSaid, NEW says, Answer(says),
         says \in {Right(Head(asked)), {"OK"}, {"ERROR"}}
  PROVE  EthInv'
  <1> DEFINE cmd == Head(asked)
  <1>1. /\ asked # <<>> /\ asked' = Tail(asked) /\ line' = line \cup {says}
        /\ Execute(cmd, says)
        /\ UNCHANGED <<ethStatus, run, ethStep, ethPc, recovering>>
    BY DEF Answer, Reply
  <1>2. /\ asked' \in Seq(EthCommands) /\ cmd = asked[1] /\ 1 \in 1 .. Len(asked)
        /\ Len(asked) \in Nat /\ Len(asked') = Len(asked) - 1
        /\ \A i \in 1 .. Len(asked') : asked'[i] = asked[i + 1]
        /\ \A i \in 1 .. Len(asked') : i + 1 \in 1 .. Len(asked) /\ 1 < i + 1
    BY <1>1 DEF EthPlace
  <1>3. /\ "CFUN: 1" \in says => cmd = "CFUN?"
        /\ "CEREG: 1" \in says => cmd = "CEREG?"
        /\ "CGATT: 1" \in says => cmd = "CGATT?"
    <2>1. ASSUME NEW c, NEW x \in YesTo(c)
          PROVE  \/ c = "CPIN?" /\ x = "CPIN: READY"
                 \/ c = "CFUN?" /\ x = "CFUN: 1"
                 \/ c = "CEREG?" /\ x = "CEREG: 1"
                 \/ c = "CGATT?" /\ x = "CGATT: 1"
      <3>1. /\ Yes.CPIN = "CPIN: READY" /\ Yes.CFUN = "CFUN: 1"
            /\ Yes.CEREG = "CEREG: 1" /\ Yes.CGATT = "CGATT: 1"
        BY DEF Yes
      <3>2. \/ c = "CPIN?" /\ x = Yes.CPIN
            \/ c = "CFUN?" /\ x = Yes.CFUN
            \/ c = "CEREG?" /\ x = Yes.CEREG
            \/ c = "CGATT?" /\ x = Yes.CGATT
        <4> DEFINE p == Yes.CPIN
                   f == Yes.CFUN
                   e == Yes.CEREG
                   g == Yes.CGATT
        <4>1. x \in CASE c = "CPIN?" -> {p} [] c = "CFUN?" -> {f} [] c = "CEREG?" -> {e}
                     [] c = "CGATT?" -> {g} [] OTHER -> {}
          BY <2>1 DEF YesTo
        <4> HIDE DEF p, f, e, g
        <4>2. \/ c = "CPIN?" /\ x = p
              \/ c = "CFUN?" /\ x = f
              \/ c = "CEREG?" /\ x = e
              \/ c = "CGATT?" /\ x = g
          BY <4>1
        <4>3. QED
          BY <4>2 DEF p, f, e, g
      <3>3. QED
        BY <3>1, <3>2
    <2>2. NeedsRadio = {"CFUN: 1", "CEREG: 1", "CGATT: 1"}
      BY DEF NeedsRadio, Yes
    <2>3. Right(cmd) = {"OK"} \cup (YesTo(cmd) \ (IF radio THEN {} ELSE NeedsRadio))
      BY DEF Right
    <2>4. QED
      BY <2>1, <2>2, <2>3
  <1> HIDE DEF cmd
  <1>4. /\ radio' \in BOOLEAN
        /\ cmd # "CFUN=0" => said' = said \cup (says \ {"OK", "ERROR"})
    BY <1>1 DEF Execute, EthPlace
  <1>5. EthTexts' = EthTexts \cup says
    BY <1>1 DEF EthTexts
  <1>6. \A x : EthAsked(x)' => EthAsked(x)
    BY <1>2 DEF EthAsked
  <1>7. EthAsked(cmd)
    BY <1>2 DEF EthAsked
  <1>8. EthPlace'
    BY <1>1, <1>2, <1>4 DEF EthPlace
  <1>9. EthLate'
    <2>1. EthAsked("CFUN?")' \/ "CFUN: 1" \in EthTexts' => ethStatus' \in {"SIGNAL_OK", "CFUN_OK"}
      BY <1>1, <1>3, <1>5, <1>6, <1>7 DEF EthLate
    <2>2. ASSUME ethStatus = "SIGNAL_OK"
          PROVE  /\ \A i, j \in 1 .. Len(asked') :
                      asked'[i] = "CFUN?" /\ i < j => asked'[j] \notin {"CEREG?", "CFUN=0"}
                 /\ "CFUN: 1" \in EthTexts' => ~EthAsked("CEREG?")' /\ ~EthAsked("CFUN=0")'
      <3>1. ASSUME NEW i \in 1 .. Len(asked'), NEW j \in 1 .. Len(asked'), asked'[i] = "CFUN?", i < j
            PROVE  asked'[j] \notin {"CEREG?", "CFUN=0"}
        <4>1. i + 1 \in 1 .. Len(asked) /\ j + 1 \in 1 .. Len(asked) /\ i + 1 < j + 1
          BY <1>2, <3>1
        <4>2. asked[i + 1] = "CFUN?" /\ asked'[j] = asked[j + 1]
          BY <1>2, <3>1
        <4>3. QED
          BY <2>2, <4>1, <4>2 DEF EthLate
      <3>2. ASSUME "CFUN: 1" \in EthTexts'
            PROVE  ~EthAsked("CEREG?")' /\ ~EthAsked("CFUN=0")'
        <4>1. CASE "CFUN: 1" \in EthTexts
          BY <1>4, <1>6, <1>7, <2>2, <4>1 DEF EthLate
        <4>2. CASE "CFUN: 1" \in says
          <5>1. cmd = "CFUN?"
            BY <1>3, <4>2
          <5>2. \A i \in 1 .. Len(asked') : asked'[i] \notin {"CEREG?", "CFUN=0"}
            BY <1>2, <2>2, <5>1 DEF EthLate
          <5>3. QED
            BY <5>1, <5>2 DEF EthAsked
        <4>3. QED
          BY <1>5, <3>2, <4>1, <4>2
      <3>3. QED
        BY <3>1, <3>2
    <2>3. ASSUME ethStatus = "CFUN_OK"
          PROVE  /\ \A i, j \in 1 .. Len(asked') :
                      asked'[i] = "CEREG?" /\ i < j => asked'[j] # "CFUN?"
                 /\ "CEREG: 1" \in EthTexts' => ~EthAsked("CFUN?")'
      <3>1. ASSUME NEW i \in 1 .. Len(asked'), NEW j \in 1 .. Len(asked'), asked'[i] = "CEREG?", i < j
            PROVE  asked'[j] # "CFUN?"
        <4>1. i + 1 \in 1 .. Len(asked) /\ j + 1 \in 1 .. Len(asked) /\ i + 1 < j + 1
          BY <1>2, <3>1
        <4>2. asked[i + 1] = "CEREG?" /\ asked'[j] = asked[j + 1]
          BY <1>2, <3>1
        <4>3. QED
          BY <2>3, <4>1, <4>2 DEF EthLate
      <3>2. ASSUME "CEREG: 1" \in EthTexts'
            PROVE  ~EthAsked("CFUN?")'
        <4>1. CASE "CEREG: 1" \in EthTexts
          BY <1>6, <2>3, <4>1 DEF EthLate
        <4>2. CASE "CEREG: 1" \in says
          <5>1. cmd = "CEREG?"
            BY <1>3, <4>2
          <5>2. \A i \in 1 .. Len(asked') : asked'[i] # "CFUN?"
            BY <1>2, <2>3, <5>1 DEF EthLate
          <5>3. QED
            BY <5>2 DEF EthAsked
        <4>3. QED
          BY <1>5, <3>2, <4>1, <4>2
      <3>3. QED
        BY <3>1, <3>2
    <2>4. QED
      BY <1>1, <2>1, <2>2, <2>3 DEF EthLate
  <1>10. EthSaid'
    <2>1. ASSUME ethStatus = "SIGNAL_OK", "CFUN: 1" \in EthTexts'
          PROVE  "CFUN: 1" \in said'
      <3>1. CASE "CFUN: 1" \in EthTexts
        <4>1. cmd # "CFUN=0"
          BY <1>7, <2>1, <3>1 DEF EthLate
        <4>2. QED
          BY <1>4, <2>1, <3>1, <4>1 DEF EthSaid
      <3>2. CASE "CFUN: 1" \in says
        BY <1>3, <1>4, <3>2
      <3>3. QED
        BY <1>5, <2>1, <3>1, <3>2
    <2>2. ASSUME ethStatus \in EthRadio, ~recovering
          PROVE  cmd # "CFUN=0" /\ ~EthAsked("CFUN=0")' /\ said \subseteq said'
                 /\ EthTexts' \cap {"CEREG: 1", "CGATT: 1"} \subseteq said'
      <3>1. cmd # "CFUN=0" /\ EthTexts \cap {"CEREG: 1", "CGATT: 1"} \subseteq said
        BY <1>7, <2>2 DEF EthSaid
      <3>2. QED
        BY <1>4, <1>5, <1>6, <2>2, <3>1 DEF EthSaid
    <2>3. QED
      BY <1>1, <2>1, <2>2 DEF EthSaid
  <1>11. QED
    BY <1>8, <1>9, <1>10 DEF EthInv

\* The thread gives a script up: the status stays as it is.
LEMMA EthFails ==
  ASSUME EthInv, StepFailed, UNCHANGED <<asked, radio, said, recovering>>,
         line' = line \/ line' = {}
  PROVE  EthInv'
  <1>1. EthLate' /\ EthSaid' /\ asked' \in Seq(EthCommands)
    BY EthStays DEF EthInv, StepFailed
  <1>2. EthPlace'
    <2>1. run' \in DOMAIN Script => Len(Script[run']) \in Nat \ {0}
      BY EthLengths
    <2>2. QED
      BY <1>1, <2>1 DEF EthInv, EthPlace, StepFailed
  <1>3. QED
    BY <1>1, <1>2 DEF EthInv

\* The last response of a script is as it should be: the next status is reached.
LEMMA EthReaches ==
  ASSUME EthInv, ethPc = "wait", Accepts(line), ethStep = Len(Script[run]),
         EthStepDone, recovering' = (recovering /\ ethStatus' # "CFUN_OK"),
         UNCHANGED <<asked, radio, said>>, line' = {}
  PROVE  EthInv'
  <1>1. /\ run \in DOMAIN Script /\ ethStep \in Nat
        /\ \A text \in Script[run][ethStep].want : text \in EthTexts
    BY DEF EthInv, EthPlace, Accepts, Says, EthTexts
  <1>2. /\ run' = ethStatus' /\ ethStep' = 1 /\ ethPc' = "call"
        /\ ethStatus' = CASE run = "RECOVER" -> "AT_READY" [] run = "ONLINE" -> "ONLINE"
                           [] OTHER -> After(run)
    <2>1. ~(ethStep < Len(Script[run]))
      BY <1>1
    <2>2. QED
      BY <2>1 DEF EthStepDone, Enter
  <1>3. EthTexts' = {}
    BY DEF EthTexts
  <1>4. \A c : EthAsked(c)' <=> EthAsked(c)
    BY DEF EthAsked
  <1>5. \/ run = "RECOVER" /\ ethStatus = "ONLINE" /\ recovering /\ ethStatus' = "AT_READY"
        \/ run = "ONLINE" /\ ethStatus = "ONLINE" /\ ethStatus' = "ONLINE"
        \/ run = "POWER_ON" /\ ethStatus = "POWER_ON" /\ ethStatus' = "AT_READY"
        \/ run = "AT_READY" /\ ethStatus = "AT_READY" /\ ethStatus' = "SIM_READY"
        \/ run = "SIM_READY" /\ ethStatus = "SIM_READY" /\ ethStatus' = "SIGNAL_OK"
        \/ run = "SIGNAL_OK" /\ ethStatus = "SIGNAL_OK" /\ ethStatus' = "CFUN_OK"
        \/ run = "CFUN_OK" /\ ethStatus = "CFUN_OK" /\ ethStatus' = "REGISTERED"
        \/ run = "REGISTERED" /\ ethStatus = "REGISTERED" /\ ethStatus' = "APN_OK"
        \/ run = "APN_OK" /\ ethStatus = "APN_OK" /\ ethStatus' = "ATTACHED"
    <2>1. run = ethStatus \/ (run = "RECOVER" /\ ethStatus = "ONLINE" /\ recovering)
      BY DEF EthInv, EthPlace
    <2>2. \/ run = "POWER_ON" \/ run = "AT_READY" \/ run = "SIM_READY" \/ run = "SIGNAL_OK"
          \/ run = "CFUN_OK" \/ run = "REGISTERED" \/ run = "APN_OK" \/ run = "ONLINE"
          \/ run = "RECOVER"
      BY <1>1, EthScripts
    <2>3. run = "RECOVER" => ethStatus = "ONLINE"
      BY EthOrder DEF EthInv, EthPlace, EthRadio, EthRegistered, EthAttached
    <2>4. QED
      BY <1>2, <2>1, <2>2, <2>3, EthOrder
  <1>6. EthPlace'
    <2>1. ethStatus' \in EthStages
      BY <1>5, EthOrder DEF EthRadio, EthRegistered, EthAttached
    <2>2. recovering' => ethStatus' \in {"AT_READY", "SIM_READY", "SIGNAL_OK", "ONLINE"}
      BY <1>5 DEF EthInv, EthPlace
    <2>3. run' \in DOMAIN Script => Len(Script[run']) \in Nat \ {0}
      BY EthScripts
    <2>4. EthStages' = EthStages
      BY DEF EthStages
    <2>5. QED
      BY <1>2, <2>1, <2>2, <2>3, <2>4 DEF EthInv, EthPlace
  <1>7. run = "SIGNAL_OK" => "CFUN: 1" \in EthTexts
    BY <1>1, EthScripts
  <1>8. run = "CFUN_OK" => "CEREG: 1" \in EthTexts
    BY <1>1, EthScripts
  <1>9. run = "APN_OK" => "CGATT: 1" \in EthTexts
    BY <1>1, EthScripts
  <1>10. EthLate'
    <2>1. EthAsked("CFUN?") => ethStatus' \in {"SIGNAL_OK", "CFUN_OK"}
      BY <1>5, <1>8 DEF EthInv, EthLate
    <2>2. ethStatus' = "SIGNAL_OK" => ~EthAsked("CFUN?")
      BY <1>5 DEF EthInv, EthLate
    <2>3. ethStatus' = "CFUN_OK" => ~EthAsked("CEREG?")
      BY <1>5, <1>7 DEF EthInv, EthLate
    <2>4. QED
      BY <1>3, <1>4, <2>1, <2>2, <2>3 DEF EthLate, EthAsked
  <1>11. EthSaid'
    <2>1. ASSUME ethStatus' = "CFUN_OK"
          PROVE  ~EthAsked("CFUN=0") /\ "CFUN: 1" \in said
      BY <1>5, <1>7, <2>1 DEF EthInv, EthLate, EthSaid
    <2>2. ASSUME ethStatus' \in EthRegistered, ~recovering'
          PROVE  ~EthAsked("CFUN=0") /\ "CFUN: 1" \in said /\ "CEREG: 1" \in said
      <3>1. ~recovering /\ ethStatus \in EthRadio
        BY <1>5, <2>2 DEF EthInv, EthPlace, EthRadio, EthRegistered, EthAttached
      <3>2. ethStatus \in EthRegistered \/ run = "CFUN_OK"
        BY <1>5, <2>2 DEF EthRegistered, EthAttached
      <3>3. QED
        BY <1>8, <3>1, <3>2 DEF EthInv, EthSaid
    <2>3. ASSUME ethStatus' \in EthAttached, ~recovering'
          PROVE  "CGATT: 1" \in said
      <3>1. ethStatus' \notin {"AT_READY", "SIM_READY", "SIGNAL_OK", "CFUN_OK", "REGISTERED", "APN_OK"}
        BY <2>3 DEF EthAttached
      <3>2. ~recovering
        BY <2>3, <3>1
      <3>3. \/ ethStatus = "ONLINE"
            \/ ethStatus = "APN_OK" /\ run = "APN_OK"
        BY <1>5, <3>1
      <3>4. QED
        BY <1>9, <3>2, <3>3 DEF EthInv, EthSaid, EthRadio, EthRegistered, EthAttached
    <2>4. QED
      BY <1>3, <1>4, <2>1, <2>2, <2>3 DEF EthSaid, EthRadio, EthRegistered
  <1>12. QED
    BY <1>6, <1>10, <1>11 DEF EthInv

\* Every step keeps the invariant.
LEMMA EthSteps == EthInv /\ [EthNext]_(ethVars) => EthInv'
  <1> SUFFICES ASSUME EthInv, [EthNext]_(ethVars) PROVE EthInv'
    OBVIOUS
  <1>1. CASE UNCHANGED ethVars
    BY <1>1 DEF ethVars, atVars, EthInv, EthPlace, EthLate, EthSaid, EthStages, EthTexts,
                EthAsked, EthCommands
  <1>2. CASE EthPowerOn
    <2>1. /\ ethStatus = "INIT" /\ ethStatus' = "POWER_ON" /\ run' = "POWER_ON" /\ ethStep' = 1
          /\ ethPc' = "call" /\ UNCHANGED <<asked, line, radio, said, recovering>>
      BY <1>2 DEF EthPowerOn, Enter, atVars
    <2>2. EthPlace'
      <3>1. 1 \in 1 .. Len(Script["POWER_ON"])
        <4>1. "POWER_ON" \in DOMAIN Script
          BY EthScripts
        <4>2. QED
          BY <4>1, EthLengths
      <3>2. "POWER_ON" \in EthStages /\ EthStages' = EthStages
        BY EthOrder DEF EthStages
      <3>3. QED
        BY <2>1, <3>1, <3>2 DEF EthInv, EthPlace
    <2>3. EthLate'
      BY <2>1 DEF EthInv, EthLate, EthAsked, EthTexts
    <2>4. EthSaid'
      BY <2>1 DEF EthSaid, EthRadio, EthRegistered, EthAttached
    <2>5. QED
      BY <2>2, <2>3, <2>4 DEF EthInv
  <1>3. CASE EthWriteCommand
    <2> DEFINE c == Script[run][ethStep].ask
    <2>1. /\ run \in DOMAIN Script /\ asked' = Append(asked, c) /\ ethPc' = "wait"
          /\ recovering' = (recovering \/ run = "RECOVER")
          /\ UNCHANGED <<line, ethStatus, run, ethStep, radio, said>>
      BY <1>3 DEF EthWriteCommand, Sends, Ask
    <2>2. ethStep \in 1 .. Len(Script[run])
      BY <2>1 DEF EthInv, EthPlace
    <2>3. c \in EthCommands
      BY <2>1, <2>2 DEF EthCommands
    <2>4. run = ethStatus \/ (run = "RECOVER" /\ ethStatus = "ONLINE")
      BY DEF EthInv, EthPlace
    <2>5. /\ c = "CFUN?" => run = "SIGNAL_OK"
          /\ c = "CEREG?" => run \in {"CFUN_OK", "ONLINE"}
          /\ c = "CFUN=0" => run = "RECOVER"
      BY <2>1, <2>2, EthScripts
    <2> HIDE DEF c
    <2>6. run = "RECOVER" => ethStatus = "ONLINE"
      BY EthOrder DEF EthInv, EthPlace, EthRadio, EthRegistered, EthAttached
    <2>7. EthLate' /\ EthSaid' /\ asked' \in Seq(EthCommands)
      <3>1. /\ c = "CFUN?" => ethStatus = "SIGNAL_OK"
            /\ c = "CEREG?" => ethStatus \in {"CFUN_OK", "ONLINE"}
            /\ c = "CFUN=0" => ethStatus = "ONLINE" /\ recovering'
        BY <2>1, <2>4, <2>5, <2>6
      <3>2. QED
        BY <2>1, <2>3, <3>1, EthStays DEF EthInv
    <2>8. EthPlace'
      BY <2>1, <2>6, <2>7 DEF EthInv, EthPlace
    <2>9. QED
      BY <2>7, <2>8 DEF EthInv
  <1>4. CASE EthWriteFails
    BY <1>4, EthFails DEF EthWriteFails, atVars
  <1>5. CASE Capture
    <2>1. /\ ethPc = "wait" /\ line' = {} /\ UNCHANGED <<asked, radio, said>>
          /\ recovering' = (recovering /\ ethStatus' # "CFUN_OK")
      BY <1>5 DEF Capture, Hear
    <2>2. recovering => ethStatus # "CFUN_OK"
      BY DEF EthInv, EthPlace
    <2>3. CASE ~Accepts(line)
      <3>1. StepFailed
        BY <1>5, <2>3 DEF Capture
      <3>2. recovering' = recovering
        BY <2>1, <2>2, <3>1 DEF StepFailed, EthInv, EthPlace
      <3>3. QED
        BY <2>1, <3>1, <3>2, EthFails
    <2>4. CASE Accepts(line)
      <3>1. EthStepDone
        BY <1>5, <2>4 DEF Capture
      <3>2. run \in DOMAIN Script /\ ethStep \in 1 .. Len(Script[run])
        BY <2>1 DEF EthInv, EthPlace
      <3>3. CASE ethStep < Len(Script[run])
        <4>1. ethStep' = ethStep + 1 /\ ethPc' = "call" /\ UNCHANGED <<ethStatus, run>>
          BY <3>1, <3>3 DEF EthStepDone
        <4>2. recovering' = recovering
          BY <2>1, <2>2, <4>1 DEF EthInv, EthPlace
        <4>3. EthLate' /\ EthSaid' /\ asked' \in Seq(EthCommands)
          BY <2>1, <4>1, <4>2, EthStays DEF EthInv
        <4>4. ethStep + 1 \in 1 .. Len(Script[run]) /\ ethStep + 1 \in Nat \ {0}
          BY <3>2, <3>3, EthLengths
        <4>5. EthPlace'
          BY <4>1, <4>2, <4>3, <4>4, <2>1 DEF EthInv, EthPlace
        <4>6. QED
          BY <4>3, <4>5 DEF EthInv
      <3>4. CASE ~(ethStep < Len(Script[run]))
        <4>1. ethStep = Len(Script[run])
          BY <3>2, <3>4, EthLengths
        <4>2. QED
          BY <2>1, <2>4, <3>1, <4>1, EthReaches
      <3>5. QED
        BY <3>3, <3>4
    <2>5. QED
      BY <2>3, <2>4
  <1>6. CASE EthCaptureTimeout
    BY <1>6, EthFails DEF EthCaptureTimeout, atVars
  <1>7. CASE EthCaptureError
    BY <1>7, EthFails DEF EthCaptureError, atVars
  <1>8. CASE SystemStep
    <2>1. /\ ethStatus \in {"ATTACHED", "IFACE_UP", "LINK_UP", "DHCP_OK"}
          /\ ethStatus' = After(ethStatus) /\ run' = ethStatus' /\ ethStep' = 1 /\ ethPc' = "call"
          /\ UNCHANGED <<asked, line, radio, said, recovering>>
      BY <1>8 DEF SystemStep, SystemSteps, Enter, atVars
    <2>2. ethStatus' \in {"IFACE_UP", "LINK_UP", "DHCP_OK", "ONLINE"}
      BY <2>1, EthOrder
    <2>3. ~recovering
      BY <2>1 DEF EthInv, EthPlace
    <2>4. EthPlace'
      <3>1. run' \in DOMAIN Script => 1 \in 1 .. Len(Script[run'])
        BY EthLengths
      <3>2. ethStatus' \in EthStages /\ EthStages' = EthStages
        BY <2>2, EthOrder DEF EthStages, EthRadio, EthRegistered, EthAttached
      <3>3. QED
        BY <2>1, <2>3, <3>1, <3>2 DEF EthInv, EthPlace
    <2>5. EthLate'
      BY <2>1, <2>2 DEF EthInv, EthLate, EthAsked, EthTexts
    <2>6. EthSaid'
      BY <2>1, <2>2, <2>3 DEF EthInv, EthSaid, EthAsked, EthTexts, EthRadio, EthRegistered, EthAttached
    <2>7. QED
      BY <2>4, <2>5, <2>6 DEF EthInv
  <1>9. CASE EthComply
    BY <1>9, EthAnswered DEF EthComply, EthInv
  <1>10. CASE EthRefuse
    <2>1. PICK says \in {{"OK"}, {"ERROR"}} : Answer(says)
      BY <1>10 DEF EthRefuse
    <2>2. QED
      BY <2>1, EthAnswered DEF EthInv
  <1>11. CASE DropOut
    <2>1. radio' = FALSE /\ UNCHANGED <<asked, line, ethStatus, run, ethStep, ethPc, said, recovering>>
      BY <1>11 DEF DropOut, atVars
    <2>2. EthPlace'
      BY <2>1 DEF EthInv, EthPlace, EthStages, EthCommands
    <2>3. EthLate'
      BY <2>1 DEF EthInv, EthLate, EthAsked, EthTexts
    <2>4. EthSaid'
      BY <2>1 DEF EthInv, EthSaid, EthAsked, EthTexts
    <2>5. QED
      BY <2>2, <2>3, <2>4 DEF EthInv
  <1>12. QED
    BY <1>1, <1>2, <1>3, <1>4, <1>5, <1>6, <1>7, <1>8, <1>9, <1>10, <1>11
       DEF EthNext, EthThread, EthSetback, PowerOnFails, SystemStepFails, ethVars

\* However late the 4G modem answers, and however many of its answers no capture has read,
\* the service takes it for ready only on what the modem said in this bring-up, after the
\* last standby it obeyed (eth_4g.c:286-303, 329-372, 699-727).
THEOREM ModemConfirmed == EthSpec => []Confirmed
  <1>1. EthInit => EthInv
    <2> SUFFICES ASSUME EthInit PROVE EthInv
      OBVIOUS
    <2>1. /\ asked = <<>> /\ line = {} /\ ethStatus = "INIT" /\ run = "INIT" /\ ethStep = 1
          /\ ethPc = "call" /\ radio \in BOOLEAN /\ recovering = FALSE
      BY DEF EthInit, AtInit
    <2>2. EthPlace
      <3>1. "INIT" \in EthStages /\ "INIT" \notin DOMAIN Script
        <4>1. "INIT" \in EthStages
          BY EthOrder
        <4>2. "INIT" \notin DOMAIN Script
          BY EthScripts
        <4>3. QED
          BY <4>1, <4>2
      <3>2. <<>> \in Seq(EthCommands)
        OBVIOUS
      <3>3. ethStatus \in EthStages /\ ethPc \in {"call", "wait"} /\ asked \in Seq(EthCommands)
        BY <2>1, <3>1, <3>2
      <3>4. ethStep \in Nat \ {0} /\ recovering \in BOOLEAN /\ radio \in BOOLEAN /\ ~recovering
        <4>1. ethStep \in Nat \ {0}
          BY <2>1
        <4>2. recovering \in BOOLEAN /\ radio \in BOOLEAN /\ ~recovering
          BY <2>1, Zenon
        <4>3. QED
          BY <4>1, <4>2
      <3>5. run = ethStatus /\ run \notin DOMAIN Script /\ ethPc # "wait"
        BY <2>1, <3>1
      <3>6. QED
        BY <3>3, <3>4, <3>5 DEF EthPlace
    <2>3. ~EthAsked("CFUN?") /\ EthTexts = {}
      BY <2>1 DEF EthAsked, EthTexts
    <2>4. QED
      BY <2>1, <2>2, <2>3 DEF EthInv, EthLate, EthSaid, EthRadio, EthRegistered, EthAttached
  <1>2. EthInv => Confirmed
    <2>1. Yes.CFUN = "CFUN: 1" /\ Yes.CEREG = "CEREG: 1" /\ Yes.CGATT = "CGATT: 1"
      BY DEF Yes
    <2>2. EthAttached \subseteq EthRegistered /\ EthRegistered \subseteq EthRadio
      BY DEF EthRadio, EthRegistered
    <2>3. EthInv => ethStatus \in EthStages
      BY DEF EthInv, EthPlace
    <2>4. QED
      BY <2>1, <2>2, <2>3, EthOrder DEF EthInv, EthSaid, Confirmed
  <1>3. QED
    BY <1>1, <1>2, EthSteps, PTL DEF EthSpec

-----------------------------------------------------------------------------
(* DbbCodec: what the operators of the encodings do *)

\* What holds of 0, and of a position when it holds of the one before, holds of all.
LEMMA Upwards ==
  ASSUME NEW n \in Nat, NEW P \in SUBSET (0 .. n), 0 \in P,
         \A k \in 1 .. n : k - 1 \in P => k \in P
  PROVE  \A k \in 0 .. n : k \in P
  <1> DEFINE T == (0 .. n) \ P
  <1>1. SUFFICES ASSUME T # {} PROVE FALSE
    OBVIOUS
  <1>2. T \in SUBSET Nat
    OBVIOUS
  <1>3. PICK k \in T : \A j \in T : k <= j
    BY <1>1, <1>2, LeastMember
  <1>4. k \in 1 .. n
    OBVIOUS
  <1>5. k - 1 \in 0 .. n /\ ~(k <= k - 1)
    BY <1>4
  <1>6. k - 1 \notin T
    BY <1>3, <1>5
  <1>7. QED
    BY <1>4, <1>5, <1>6

\* FlattenSeq as its loop goes.
Flattens(f, n, seqs) == f = [i \in 1 .. n |-> IF i = 1 THEN seqs[i] ELSE f[i - 1] \o seqs[i]]

\* The loop is well defined.
LEMMA FlattenLoop ==
  ASSUME NEW seqs, NEW n \in Nat, n = Len(seqs), n > 0
  PROVE  \E f : /\ f[1] = seqs[1]
                /\ \A i \in 2 .. n : f[i] = f[i - 1] \o seqs[i]
                /\ FlattenSeq(seqs) = f[n]
  <1> DEFINE Value(f, i) == IF i = 1 THEN seqs[i] ELSE f[i - 1] \o seqs[i]
             To(k, f) == f = [i \in 1 .. k |-> Value(f, i)]
             P == {k \in 0 .. n : \E f : To(k, f)}
  <1>1. 0 \in P
    <2> DEFINE f == [i \in 1 .. 0 |-> 0]
    <2>1. To(0, f)
      <3> HIDE DEF Value
      <3>1. f = [i \in 1 .. 0 |-> Value(f, i)]
        OBVIOUS
      <3>2. QED
        BY <3>1
    <2> HIDE DEF f, To
    <2>2. QED
      BY <2>1
  <1>2. ASSUME NEW k \in 1 .. n, k - 1 \in P PROVE k \in P
    <2>1. PICK f : To(k - 1, f)
      BY <1>2
    <2> DEFINE h == [i \in 1 .. k |-> IF i = k THEN Value(f, k) ELSE f[i]]
    <2>2. ASSUME NEW i \in 1 .. k PROVE Value(h, i) = Value(f, i)
      <3>1. CASE i = 1
        BY <3>1
      <3>2. CASE i # 1
        <4>1. h[i - 1] = f[i - 1]
          BY <3>2
        <4> HIDE DEF h
        <4>2. QED
          BY <4>1
      <3>3. QED
        BY <3>1, <3>2
    <2>3. \A i \in 1 .. k - 1 : f[i] = Value(f, i)
      BY <2>1
    <2> HIDE DEF Value
    <2>4. To(k, h)
      <3>1. \A i \in 1 .. k : h[i] = Value(h, i)
        BY <2>2, <2>3
      <3>2. QED
        BY <3>1
    <2> HIDE DEF h
    <2>5. \E g : To(k, g)
      BY <2>4
    <2>6. QED
      BY <2>5
  <1> HIDE DEF To
  <1>3. P \in SUBSET (0 .. n) /\ n \in 0 .. n
    OBVIOUS
  <1> HIDE DEF P
  <1>4. n \in P
    BY <1>1, <1>2, <1>3, Upwards
  <1>5. \E f : Flattens(f, n, seqs)
    BY <1>4 DEF P, To, Flattens
  <1> DEFINE flatten == CHOOSE f : Flattens(f, n, seqs)
  <1>6. Flattens(flatten, n, seqs)
    BY <1>5
  <1>7. FlattenSeq(seqs) = flatten[n]
    <2>1. Len(seqs) # 0
      OBVIOUS
    <2>2. FlattenSeq(seqs) = (CHOOSE f : Flattens(f, Len(seqs), seqs))[Len(seqs)]
      BY <2>1, Zenon DEF FlattenSeq, Flattens
    <2>3. QED
      BY <2>2
  <1> HIDE DEF flatten
  <1> DEFINE Join(a, b) == a \o b
  <1>8. \A i \in 1 .. n : flatten[i] = IF i = 1 THEN seqs[i] ELSE Join(flatten[i - 1], seqs[i])
    BY <1>6, Zenon DEF Flattens
  <1> HIDE DEF Join
  <1>9. flatten[1] = seqs[1]
    BY <1>8
  <1>10. \A i \in 2 .. n : flatten[i] = Join(flatten[i - 1], seqs[i])
    BY <1>8
  <1>11. QED
    BY <1>7, <1>9, <1>10, Zenon DEF Join


\* s is the pairs of a and b, one after the other.
PairsOf(s, n, a, b) == /\ s \in Seq(Nat) /\ Len(s) = 2 * n
                       /\ \A i \in 1 .. n : s[2 * i - 1] = a[i] /\ s[2 * i] = b[i]

\* One pair more.
LEMMA OnePairMore ==
  ASSUME NEW n \in Nat, NEW a, NEW b, NEW s, PairsOf(s, n, a, b),
         NEW x \in Nat, NEW y \in Nat, a[n + 1] = x, b[n + 1] = y
  PROVE  PairsOf(s \o <<x, y>>, n + 1, a, b)
  <1> DEFINE p == <<x, y>>
             t == s \o p
  <1>1. p \in Seq(Nat) /\ Len(p) = 2 /\ p[1] = x /\ p[2] = y
    OBVIOUS
  <1>2. s \in Seq(Nat) /\ Len(s) = 2 * n
    BY DEF PairsOf
  <1> HIDE DEF p
  <1>3. t \in Seq(Nat) /\ Len(t) = 2 * n + 2
        /\ \A i \in 1 .. 2 * n + 2 : t[i] = IF i <= 2 * n THEN s[i] ELSE p[i - 2 * n]
    <2>1. /\ t \in Seq(Nat) /\ Len(t) = Len(s) + Len(p)
          /\ \A i \in 1 .. Len(s) + Len(p) : t[i] = IF i <= Len(s) THEN s[i] ELSE p[i - Len(s)]
      BY <1>1, <1>2, ConcatProperties, Zenon
    <2> HIDE DEF t
    <2>2. QED
      BY <1>1, <1>2, <2>1
  <1> HIDE DEF t
  <1>4. ASSUME NEW i \in 1 .. n PROVE t[2 * i - 1] = a[i] /\ t[2 * i] = b[i]
    <2>1. /\ 2 * i - 1 \in 1 .. 2 * n + 2 /\ 2 * i \in 1 .. 2 * n + 2
          /\ 2 * i - 1 <= 2 * n /\ 2 * i <= 2 * n
      OBVIOUS
    <2>2. t[2 * i - 1] = s[2 * i - 1] /\ t[2 * i] = s[2 * i]
      BY <1>3, <2>1
    <2>3. QED
      BY <2>2 DEF PairsOf
  <1>5. t[2 * n + 1] = x /\ t[2 * n + 2] = y
    <2>1. /\ 2 * n + 1 \in 1 .. 2 * n + 2 /\ 2 * n + 2 \in 1 .. 2 * n + 2
          /\ ~(2 * n + 1 <= 2 * n) /\ ~(2 * n + 2 <= 2 * n)
          /\ 2 * n + 1 - 2 * n = 1 /\ 2 * n + 2 - 2 * n = 2
      OBVIOUS
    <2>2. t[2 * n + 1] = p[1] /\ t[2 * n + 2] = p[2]
      BY <1>3, <2>1
    <2>3. QED
      BY <1>1, <2>2
  <1>6. 2 * (n + 1) = 2 * n + 2 /\ 2 * (n + 1) - 1 = 2 * n + 1
    OBVIOUS
  <1>7. ASSUME NEW i \in 1 .. n + 1 PROVE t[2 * i - 1] = a[i] /\ t[2 * i] = b[i]
    <2>1. CASE i = n + 1
      <3>1. 2 * i - 1 = 2 * n + 1 /\ 2 * i = 2 * n + 2
        BY <2>1
      <3>2. QED
        BY <1>5, <2>1, <3>1
    <2>2. CASE i # n + 1
      <3>1. i \in 1 .. n
        BY <2>2
      <3>2. QED
        BY <1>4, <3>1
    <2>3. QED
      BY <2>1, <2>2
  <1>8. Len(t) = 2 * (n + 1)
    BY <1>3, <1>6
  <1>9. PairsOf(t, n + 1, a, b)
    BY <1>3, <1>7, <1>8 DEF PairsOf
  <1>10. QED
    BY <1>9 DEF t, p

\* Pairs, flattened.
LEMMA PairsFlat ==
  ASSUME NEW n \in Nat, NEW a \in [1 .. n -> Nat], NEW b \in [1 .. n -> Nat]
  PROVE  PairsOf(FlattenSeq([i \in 1 .. n |-> <<a[i], b[i]>>]), n, a, b)
  <1> DEFINE seqs == [i \in 1 .. n |-> <<a[i], b[i]>>]
  <1>1. Len(seqs) = n /\ \A i \in 1 .. n : seqs[i] = <<a[i], b[i]>>
    OBVIOUS
  <1>2. CASE n = 0
    <2>1. seqs = <<>>
      BY <1>2
    <2>2. FlattenSeq(seqs) = seqs
      BY <1>1, <1>2, Zenon DEF FlattenSeq
    <2>3. PairsOf(<<>>, n, a, b)
      BY <1>2 DEF PairsOf
    <2>4. QED
      BY <2>1, <2>2, <2>3, Zenon
  <1>3. CASE n > 0
    <2> HIDE DEF seqs
    <2>1. PICK f : /\ f[1] = seqs[1]
                   /\ \A i \in 2 .. n : f[i] = f[i - 1] \o seqs[i]
                   /\ FlattenSeq(seqs) = f[n]
      BY <1>1, <1>3, FlattenLoop
    <2> DEFINE P == {k \in 0 .. n : k > 0 => PairsOf(f[k], k, a, b)}
    <2>2. 0 \in P
      OBVIOUS
    <2>3. ASSUME NEW k \in 1 .. n, k - 1 \in P PROVE k \in P
      <3>1. k \in Nat /\ k \in 0 .. n
        OBVIOUS
      <3>2. PairsOf(f[k], k, a, b)
        <4>1. CASE k = 1
          <5>1. a[1] \in Nat /\ b[1] \in Nat /\ 1 \in 1 .. n
            BY <1>3
          <5>2. f[1] = <<a[1], b[1]>>
            BY <1>1, <2>1, <5>1, Zenon
          <5>3. PairsOf(<<a[1], b[1]>>, 1, a, b)
            BY <5>1 DEF PairsOf
          <5>4. QED
            BY <4>1, <5>2, <5>3, Zenon
        <4>2. CASE k # 1
          <5>1. k - 1 \in Nat /\ k - 1 > 0 /\ (k - 1) + 1 = k /\ k \in 2 .. n
            BY <4>2
          <5>2. PairsOf(f[k - 1], k - 1, a, b)
            BY <2>3, <5>1
          <5>3. a[k] \in Nat /\ b[k] \in Nat
            OBVIOUS
          <5> DEFINE j == k - 1
                     s == f[j]
          <5>4. f[k] = s \o <<a[k], b[k]>>
            BY <1>1, <2>1, <5>1, Zenon
          <5>5. j \in Nat /\ j + 1 = k
            BY <5>1
          <5>6. PairsOf(s, j, a, b)
            BY <5>2
          <5> HIDE DEF j, s
          <5>7. PairsOf(s \o <<a[k], b[k]>>, j + 1, a, b)
            <6>1. a[j + 1] = a[k] /\ b[j + 1] = b[k]
              BY <5>5
            <6>2. QED
              BY <5>3, <5>5, <5>6, <6>1, OnePairMore, Zenon
          <5>8. QED
            BY <5>4, <5>5, <5>7, Zenon
        <4>3. QED
          BY <4>1, <4>2
      <3>3. QED
        BY <3>1, <3>2
    <2>4. P \in SUBSET (0 .. n) /\ n \in 0 .. n
      OBVIOUS
    <2>5. n \in P
      <3> HIDE DEF P
      <3>1. QED
        BY <2>2, <2>3, <2>4, Upwards
    <2>6. PairsOf(f[n], n, a, b)
      BY <1>3, <2>5
    <2>7. QED
      BY <2>1, <2>6, Zenon DEF seqs
  <1>4. QED
    BY <1>2, <1>3

-----------------------------------------------------------------------------
\* A byte as two digits of four bits.
LEMMA HexDigits ==
  ASSUME NEW x \in 0 .. 255
  PROVE  x \div 16 \in 0 .. 15 /\ x % 16 \in 0 .. 15 /\ 16 * (x \div 16) + (x % 16) = x
  <1> DEFINE q == x \div 16
             r == x % 16
  <1>1. q \in Int /\ r \in 0 .. 15 /\ 16 * q + r = x
    OBVIOUS
  <1> HIDE DEF q, r
  <1>2. q \in 0 .. 15
    BY <1>1
  <1>3. QED
    BY <1>1, <1>2 DEF q, r

\* A character of UCS-2 as two bytes.
LEMMA Ucs2Bytes ==
  ASSUME NEW x \in Nat, x < 256 * 256
  PROVE  x \div 256 \in 0 .. 255 /\ x % 256 \in 0 .. 255 /\ 256 * (x \div 256) + (x % 256) = x
  <1> DEFINE q == x \div 256
             r == x % 256
  <1>1. q \in Int /\ r \in 0 .. 255 /\ 256 * q + r = x
    OBVIOUS
  <1> HIDE DEF q, r
  <1>2. 0 <= q /\ q < 256
    BY <1>1
  <1>3. q \in 0 .. 255
    BY <1>1, <1>2
  <1>4. QED
    BY <1>1, <1>3 DEF q, r

\* Two digits of four bits as a byte.
LEMMA Nibbles ==
  ASSUME NEW x \in 0 .. 15, NEW y \in 0 .. 15
  PROVE  (16 * x + y) % 16 = y /\ (16 * x + y) \div 16 = x /\ 16 * x + y \in 0 .. 255
  <1> DEFINE z == 16 * x + y
             q == z \div 16
             r == z % 16
  <1>1. z \in 0 .. 255 /\ z = 16 * x + y
    OBVIOUS
  <1> HIDE DEF z
  <1>2. q \in Int /\ r \in 0 .. 15 /\ 16 * q + r = z
    BY <1>1
  <1> HIDE DEF q, r
  <1>3. q = x /\ r = y
    BY <1>1, <1>2
  <1>4. QED
    BY <1>1, <1>3, Zenon DEF q, r, z

\* A sequence over a smaller set.
LEMMA SeqWider ==
  ASSUME NEW S, NEW T, \A x \in S : x \in T, NEW d \in Seq(S)
  PROVE  d \in Seq(T) /\ Len(d) \in Nat /\ \A i \in 1 .. Len(d) : d[i] \in S
  <1>1. Len(d) \in Nat /\ \A i \in 1 .. Len(d) : d[i] \in S
    OBVIOUS
  <1>2. d \in [1 .. Len(d) -> S]
    OBVIOUS
  <1>3. d \in [1 .. Len(d) -> T]
    BY <1>2
  <1>4. QED
    BY <1>1, <1>3, SeqDef

Byte == 0 .. 255

\* Bytes are numbers.
LEMMA BytesAre ==
  ASSUME NEW d \in Seq(Byte)
  PROVE  d \in Seq(Nat) /\ Len(d) \in Nat /\ \A i \in 1 .. Len(d) : d[i] \in Byte
  <1>1. \A x \in Byte : x \in Nat
    BY DEF Byte
  <1>2. QED
    BY <1>1, SeqWider, Zenon

\* Whatever is cut off the hexadecimal text of some bytes: when it is decoded, it is a
\* beginning of them.
LEMMA HexPrefix ==
  ASSUME NEW d \in Seq(Byte), NEW k \in 1 .. Len(HexEncode(d)), NEW size,
         HexDecode(SubSeq(HexEncode(d), 1, k), size).ok
  PROVE  \E m \in 1 .. Len(d) :
           /\ HexDecode(SubSeq(HexEncode(d), 1, k), size).bytes \in Seq(Byte)
           /\ Len(HexDecode(SubSeq(HexEncode(d), 1, k), size).bytes) = m
           /\ \A i \in 1 .. m : HexDecode(SubSeq(HexEncode(d), 1, k), size).bytes[i] = d[i]
  <1> DEFINE n == Len(d)
             a == [i \in 1 .. n |-> d[i] \div 16]
             b == [i \in 1 .. n |-> d[i] % 16]
             hex == HexEncode(d)
             text == SubSeq(hex, 1, k)
             got == HexDecode(text, size)
  <1>1. n \in Nat /\ \A i \in 1 .. n : d[i] \in Byte
    BY BytesAre
  <1>2. \A i \in 1 .. n : a[i] = d[i] \div 16 /\ b[i] = d[i] % 16
    OBVIOUS
  <1>3. a \in [1 .. n -> Nat] /\ b \in [1 .. n -> Nat]
    <2>1. \A i \in 1 .. n : d[i] \div 16 \in 0 .. 15 /\ d[i] % 16 \in 0 .. 15
      BY <1>1, HexDigits DEF Byte
    <2>2. ASSUME NEW i \in 1 .. n PROVE d[i] \div 16 \in Nat /\ d[i] % 16 \in Nat
      <3>1. d[i] \div 16 \in 0 .. 15 /\ d[i] % 16 \in 0 .. 15
        BY <2>1, Zenon
      <3> DEFINE x == d[i] \div 16
                 y == d[i] % 16
      <3> HIDE DEF x, y
      <3>2. x \in 0 .. 15 /\ y \in 0 .. 15
        BY <3>1, Zenon DEF x, y
      <3>3. x \in Nat /\ y \in Nat
        BY <3>2
      <3>4. QED
        BY <3>3, Zenon DEF x, y
    <2>3. QED
      BY <2>2, Zenon
  <1>4. PairsOf(hex, n, a, b)
    <2>1. hex = FlattenSeq([i \in 1 .. n |-> <<a[i], b[i]>>])
      <3>1. [i \in 1 .. n |-> <<a[i], b[i]>>] = [i \in 1 .. n |-> <<d[i] \div 16, d[i] % 16>>]
        BY <1>2
      <3>2. QED
        BY <3>1, Zenon DEF HexEncode
    <2> HIDE DEF a, b, hex
    <2>2. QED
      BY <1>1, <1>3, <2>1, PairsFlat, Zenon
  <1>5. hex \in Seq(Nat) /\ Len(hex) = 2 * n
    BY <1>4 DEF PairsOf
  <1>6. k \in Nat /\ 1 <= k /\ k <= 2 * n
    BY <1>1, <1>5
  <1>7. text \in Seq(Nat) /\ Len(text) = k /\ \A i \in 1 .. k : text[i] = hex[i]
    <2> HIDE DEF hex
    <2>1. QED
      BY <1>5, <1>6
  <1>8. Len(text) % 2 = 0
        /\ got.bytes = [i \in 1 .. Len(text) \div 2 |-> 16 * text[2*i - 1] + text[2*i]]
    <2> HIDE DEF text, hex
    <2> DEFINE good == [ok |-> TRUE,
                        bytes |-> [i \in 1 .. Len(text) \div 2 |-> 16 * text[2*i - 1] + text[2*i]]]
               bad == [ok |-> FALSE, bytes |-> <<>>]
    <2>1. ~bad.ok /\ good.ok
      OBVIOUS
    <2>2. got.ok
      BY Zenon DEF text, hex
    <2>3. (got = good /\ Len(text) % 2 = 0) \/ got = bad
      <3> HIDE DEF good, bad
      <3>1. QED
        BY Zenon DEF HexDecode, good, bad
    <2>4. got = good /\ Len(text) % 2 = 0
      <3> HIDE DEF good, bad
      <3>1. QED
        BY <2>1, <2>2, <2>3, Zenon
    <2> HIDE DEF got
    <2>5. QED
      BY <2>4
  <1> HIDE DEF got
  <1> DEFINE m == k \div 2
             bytes == got.bytes
  <1>9. m \in 1 .. n /\ 2 * m = k
    BY <1>6, <1>7, <1>8
  <1>10. bytes = [i \in 1 .. m |-> 16 * text[2*i - 1] + text[2*i]]
    BY <1>7, <1>8, Zenon
  <1> HIDE DEF a, b, text, hex, m, bytes
  <1>11. ASSUME NEW i \in 1 .. m PROVE bytes[i] = d[i] /\ d[i] \in Byte
    <2>1. 2 * i - 1 \in 1 .. k /\ 2 * i \in 1 .. k /\ i \in 1 .. n
      BY <1>9
    <2>2. text[2*i - 1] = a[i] /\ text[2*i] = b[i]
      BY <1>4, <1>7, <2>1 DEF PairsOf
    <2>3. bytes[i] = 16 * a[i] + b[i]
      BY <1>10, <2>2
    <2>4. d[i] \in Byte
      BY <1>1, <2>1
    <2>5. QED
      BY <1>2, <2>1, <2>3, <2>4, HexDigits DEF Byte
  <1>12. bytes \in Seq(Byte) /\ Len(bytes) = m
    <2>1. \A i \in 1 .. m : 16 * text[2*i - 1] + text[2*i] \in Byte
      BY <1>10, <1>11
    <2>2. m \in Nat
      BY <1>9
    <2>3. QED
      BY <1>10, <2>1, <2>2
  <1>13. QED
    BY <1>9, <1>11, <1>12, Zenon DEF bytes, got, text, hex

\* Pairs of bytes are bytes.
LEMMA PairsByte ==
  ASSUME NEW n \in Nat, NEW a, NEW b, NEW s, PairsOf(s, n, a, b),
         \A i \in 1 .. n : a[i] \in Byte /\ b[i] \in Byte
  PROVE  s \in Seq(Byte)
  <1>1. s \in Seq(Nat) /\ Len(s) = 2 * n
    BY DEF PairsOf
  <1>2. ASSUME NEW j \in 1 .. 2 * n PROVE s[j] \in Byte
    <2>1. PICK i \in 1 .. n : j = 2 * i - 1 \/ j = 2 * i
      <3> DEFINE h == (j + 1) \div 2
      <3>1. h \in 1 .. n /\ (j = 2 * h - 1 \/ j = 2 * h)
        OBVIOUS
      <3>2. QED
        BY <3>1
    <2>2. s[2 * i - 1] \in Byte /\ s[2 * i] \in Byte
      BY DEF PairsOf
    <2>3. QED
      BY <2>1, <2>2
  <1>3. s \in [1 .. 2 * n -> Byte]
    <2>1. s \in [1 .. 2 * n -> Nat]
      BY <1>1
    <2>2. QED
      BY <1>2, <2>1
  <1>4. 2 * n \in Nat
    OBVIOUS
  <1>5. QED
    BY <1>3, <1>4, SeqDef

\* A text is of characters that UCS-2 has.
IsUcs2(t) == t \in Seq(Nat) /\ \A i \in 1 .. Len(t) : t[i] < 256 * 256

\* The characters of a text, in bytes and back.
LEMMA TextRead ==
  ASSUME NEW t, IsUcs2(t)
  PROVE  Ucs2(t) \in Seq(Byte) /\ Len(Ucs2(t)) = 2 * Len(t) /\ FromUcs2(Ucs2(t)) = t
  <1> DEFINE n == Len(t)
             a == [i \in 1 .. n |-> t[i] \div 256]
             b == [i \in 1 .. n |-> t[i] % 256]
             ud == Ucs2(t)
  <1>1. t \in Seq(Nat) /\ n \in Nat /\ \A i \in 1 .. n : t[i] \in Nat
    BY DEF IsUcs2
  <1>2. \A i \in 1 .. n : a[i] = t[i] \div 256 /\ b[i] = t[i] % 256
    OBVIOUS
  <1>3. \A i \in 1 .. n : a[i] \in Byte /\ b[i] \in Byte /\ 256 * a[i] + b[i] = t[i]
    <2> HIDE DEF a, b
    <2>1. ASSUME NEW i \in 1 .. n
          PROVE  a[i] \in Byte /\ b[i] \in Byte /\ 256 * a[i] + b[i] = t[i]
      <3> DEFINE x == t[i]
      <3>1. x \in Nat /\ x < 256 * 256
        BY DEF IsUcs2
      <3>2. a[i] = x \div 256 /\ b[i] = x % 256
        BY <1>2
      <3> HIDE DEF x
      <3>3. a[i] \in Byte /\ b[i] \in Byte /\ 256 * a[i] + b[i] = x
        BY <3>1, <3>2, Ucs2Bytes DEF Byte
      <3>4. QED
        BY <3>3 DEF x
    <2>2. QED
      BY <2>1
  <1>4. a \in [1 .. n -> Nat] /\ b \in [1 .. n -> Nat]
    <2>1. a = [i \in 1 .. n |-> a[i]] /\ b = [i \in 1 .. n |-> b[i]]
      OBVIOUS
    <2> HIDE DEF a, b
    <2>2. \A i \in 1 .. n : a[i] \in Nat /\ b[i] \in Nat
      <3>1. \A x \in Byte : x \in Nat
        BY DEF Byte
      <3>2. QED
        BY <1>3, <3>1
    <2>3. QED
      BY <2>1, <2>2
  <1>5. PairsOf(ud, n, a, b)
    <2>1. ud = FlattenSeq([i \in 1 .. n |-> <<a[i], b[i]>>])
      <3>1. [i \in 1 .. n |-> <<a[i], b[i]>>] = [i \in 1 .. n |-> <<t[i] \div 256, t[i] % 256>>]
        BY <1>2
      <3>2. QED
        BY <3>1, Zenon DEF Ucs2
    <2> HIDE DEF a, b, ud
    <2>2. QED
      BY <1>1, <1>4, <2>1, PairsFlat, Zenon
  <1> HIDE DEF a, b, ud
  <1>6. ud \in Seq(Byte) /\ Len(ud) = 2 * n
    <2>1. Len(ud) = 2 * n
      BY <1>5 DEF PairsOf
    <2>2. \A i \in 1 .. n : a[i] \in Byte /\ b[i] \in Byte
      BY <1>3
    <2>3. QED
      BY <1>1, <1>5, <2>1, <2>2, PairsByte, Zenon
  <1>7. FromUcs2(ud) = t
    <2> DEFINE back == [i \in 1 .. n |-> 256 * ud[2*i - 1] + ud[2*i]]
    <2>1. Len(ud) \div 2 = n
      BY <1>1, <1>6
    <2>2. FromUcs2(ud) = back
      BY <2>1, Zenon DEF FromUcs2
    <2>3. \A i \in 1 .. n : 256 * ud[2*i - 1] + ud[2*i] = t[i]
      BY <1>3, <1>5 DEF PairsOf
    <2>4. back = [i \in 1 .. n |-> t[i]]
      BY <2>3
    <2>5. t = [i \in 1 .. n |-> t[i]]
      BY <1>1
    <2>6. QED
      BY <2>2, <2>4, <2>5, Zenon
  <1>8. QED
    BY <1>6, <1>7 DEF ud

\* The digits of a number, swapped and back.
LEMMA NumberRead ==
  ASSUME NEW num, Digits(num) \in Seq(0 .. 9), Len(Digits(num)) \in 1 .. 31
  PROVE  /\ EncodeNumber(num).digits = Len(Digits(num))
         /\ EncodeNumber(num).toa \in Byte
         /\ Plus \in ToSet(num) => EncodeNumber(num).toa = 145
         /\ EncodeNumber(num).bcd \in Seq(Byte)
         /\ Len(EncodeNumber(num).bcd) = (Len(Digits(num)) + 1) \div 2
         /\ DecodeNumber(EncodeNumber(num).bcd, Len(Digits(num))) = Digits(num)
  <1> DEFINE d == Digits(num)
             n == Len(d)
             m == (n + 1) \div 2
             toa == IF Plus \in ToSet(num) \/ (n >= 11 /\ d[1] = 8 /\ d[2] = 6) THEN 145 ELSE 129
             bcd == [i \in 1 .. m |-> 16 * (IF 2*i <= n THEN d[2*i] ELSE 15) + d[2*i - 1]]
             lo == [i \in 1 .. m |-> bcd[i] % 16]
             hi == [i \in 1 .. m |-> bcd[i] \div 16]
  <1>1. EncodeNumber(num) = [toa |-> toa, digits |-> n, bcd |-> bcd]
    BY Zenon DEF EncodeNumber
  <1>2. toa \in Byte /\ (Plus \in ToSet(num) => toa = 145)
    BY DEF Byte
  <1> HIDE DEF toa, bcd
  <1>3. EncodeNumber(num).toa = toa /\ EncodeNumber(num).digits = n /\ EncodeNumber(num).bcd = bcd
    BY <1>1
  <1> DEFINE Digit == 0 .. 9
  <1>4. d \in Seq(Digit) /\ n \in 1 .. 31
    OBVIOUS
  <1> HIDE DEF d, Digit
  <1>5. \A j \in 1 .. n : d[j] \in Digit
    BY <1>4
  <1> HIDE DEF n
  <1>6. m \in Nat /\ 2 * m <= n + 1 /\ n <= 2 * m
    BY <1>4
  <1> HIDE DEF m
  <1>7. ASSUME NEW i \in 1 .. m
        PROVE  /\ bcd[i] \in Byte
               /\ lo[i] = d[2*i - 1] /\ (2*i <= n => hi[i] = d[2*i])
    <2> DEFINE x == IF 2*i <= n THEN d[2*i] ELSE 15
               y == d[2*i - 1]
    <2>1. i \in Nat /\ 1 <= i /\ 2*i - 1 \in 1 .. n
      BY <1>4, <1>6
    <2>2. y \in 0 .. 15
      BY <1>5, <2>1 DEF Digit
    <2>3. x \in 0 .. 15
      <3>1. CASE 2*i <= n
        <4>1. 2*i \in 1 .. n
          BY <1>4, <2>1, <3>1
        <4>2. d[2*i] \in 0 .. 9
          BY <1>5, <4>1 DEF Digit
        <4>3. QED
          BY <3>1, <4>2
      <3>2. CASE ~(2*i <= n)
        BY <3>2
      <3>3. QED
        BY <3>1, <3>2
    <2>4. bcd[i] = 16 * x + y
      BY DEF bcd
    <2>5. lo[i] = bcd[i] % 16 /\ hi[i] = bcd[i] \div 16
      BY Zenon
    <2>6. x = IF 2*i <= n THEN d[2*i] ELSE 15
      OBVIOUS
    <2>7. y = d[2*i - 1]
      OBVIOUS
    <2> HIDE DEF x, y, lo, hi
    <2>8. (16 * x + y) % 16 = y /\ (16 * x + y) \div 16 = x /\ 16 * x + y \in Byte
      BY <2>2, <2>3, Nibbles DEF Byte
    <2>9. bcd[i] \in Byte /\ lo[i] = y /\ hi[i] = x
      BY <2>4, <2>5, <2>8, Zenon
    <2>10. QED
      BY <2>6, <2>7, <2>9
  <1>8. bcd \in Seq(Byte) /\ Len(bcd) = m
    <2>1. \A i \in 1 .. m : bcd[i] \in Byte
      BY <1>7
    <2>2. bcd = [i \in 1 .. m |-> bcd[i]]
      BY Zenon DEF bcd
    <2>3. QED
      BY <1>6, <2>1, <2>2
  <1>9. lo \in [1 .. m -> Nat] /\ hi \in [1 .. m -> Nat]
    <2>1. \A i \in 1 .. m : bcd[i] % 16 \in Nat /\ bcd[i] \div 16 \in Nat
      <3>1. ASSUME NEW i \in 1 .. m PROVE bcd[i] % 16 \in Nat /\ bcd[i] \div 16 \in Nat
        <4> DEFINE x == bcd[i]
        <4>1. x \in 0 .. 255
          BY <1>7 DEF Byte
        <4> HIDE DEF x
        <4>2. x % 16 \in Nat /\ x \div 16 \in Nat
          BY <4>1
        <4>3. QED
          BY <4>2 DEF x
      <3>2. QED
        BY <3>1
    <2>2. QED
      BY <2>1, Zenon
  <1> DEFINE nibbles == FlattenSeq([i \in 1 .. Len(bcd) |-> <<bcd[i] % 16, bcd[i] \div 16>>])
             back == SubSeq(nibbles, 1, n)
  <1>10. PairsOf(nibbles, m, lo, hi)
    <2>1. [i \in 1 .. Len(bcd) |-> <<bcd[i] % 16, bcd[i] \div 16>>]
            = [i \in 1 .. m |-> <<lo[i], hi[i]>>]
      BY <1>8
    <2> HIDE DEF lo, hi
    <2>2. PairsOf(FlattenSeq([i \in 1 .. m |-> <<lo[i], hi[i]>>]), m, lo, hi)
      BY <1>6, <1>9, PairsFlat, Zenon
    <2>3. QED
      BY <2>1, <2>2, Zenon
  <1>11. DecodeNumber(bcd, n) = back
    BY Zenon DEF DecodeNumber
  <1> HIDE DEF nibbles, lo, hi
  <1>12. nibbles \in Seq(Nat) /\ Len(nibbles) = 2 * m
    BY <1>10 DEF PairsOf
  <1>13. back \in Seq(Nat) /\ Len(back) = n /\ \A j \in 1 .. n : back[j] = nibbles[j]
    BY <1>4, <1>6, <1>12
  <1> HIDE DEF back
  <1>14. ASSUME NEW j \in 1 .. n PROVE back[j] = d[j]
    <2>1. PICK i \in 1 .. m : j = 2 * i - 1 \/ j = 2 * i
      <3> DEFINE h == (j + 1) \div 2
      <3>1. h \in 1 .. m /\ (j = 2 * h - 1 \/ j = 2 * h)
        BY <1>4, <1>6
      <3>2. QED
        BY <3>1
    <2>2. nibbles[2 * i - 1] = lo[i] /\ nibbles[2 * i] = hi[i]
      BY <1>10 DEF PairsOf
    <2>3. CASE j = 2 * i - 1
      BY <1>7, <1>13, <2>2, <2>3
    <2>4. CASE j = 2 * i
      <3>1. 2 * i <= n
        BY <1>4, <2>4
      <3>2. QED
        BY <1>7, <1>13, <2>2, <2>4, <3>1
    <2>5. QED
      BY <2>1, <2>3, <2>4
  <1>15. back = d
    <2>1. d \in Seq(Nat)
      <3>1. \A x \in Digit : x \in Nat
        BY DEF Digit
      <3>2. QED
        BY <1>4, <3>1, SeqWider, Zenon
    <2>2. Len(back) = Len(d)
      BY <1>13 DEF n
    <2>3. \A j \in 1 .. Len(back) : back[j] = d[j]
      BY <1>13, <1>14
    <2>4. QED
      BY <1>13, <2>1, <2>2, <2>3, SeqEqual, Zenon
  <1>16. QED
    BY <1>2, <1>3, <1>8, <1>11, <1>15, Zenon DEF d, n, m

-----------------------------------------------------------------------------
\* Two sequences of bytes, joined.
LEMMA BytesJoined ==
  ASSUME NEW a \in Seq(Byte), NEW b \in Seq(Byte)
  PROVE  /\ a \o b \in Seq(Byte) /\ Len(a \o b) = Len(a) + Len(b)
         /\ Len(a) \in Nat /\ Len(b) \in Nat
         /\ \A i \in 1 .. Len(a) : (a \o b)[i] = a[i]
         /\ \A i \in 1 .. Len(b) : (a \o b)[Len(a) + i] = b[i]
  <1> DEFINE c == a \o b
  <1>1. /\ c \in Seq(Byte) /\ Len(c) = Len(a) + Len(b)
        /\ \A i \in 1 .. Len(a) + Len(b) : c[i] = IF i <= Len(a) THEN a[i] ELSE b[i - Len(a)]
    BY ConcatProperties, Zenon
  <1>2. Len(a) \in Nat /\ Len(b) \in Nat
    OBVIOUS
  <1> HIDE DEF c
  <1>3. ASSUME NEW i \in 1 .. Len(a) PROVE c[i] = a[i]
    BY <1>1, <1>2
  <1>4. ASSUME NEW i \in 1 .. Len(b) PROVE c[Len(a) + i] = b[i]
    <2>1. Len(a) + i \in 1 .. Len(a) + Len(b) /\ ~(Len(a) + i <= Len(a)) /\ Len(a) + i - Len(a) = i
      BY <1>2
    <2>2. QED
      BY <1>1, <2>1
  <1>5. QED
    BY <1>1, <1>2, <1>3, <1>4 DEF c

\* A part of a sequence of bytes.
LEMMA BytesPart ==
  ASSUME NEW s \in Seq(Byte), NEW m \in Nat, NEW k \in Nat, 1 <= m, m + k <= Len(s) + 1
  PROVE  /\ SubSeq(s, m, m + k - 1) \in Seq(Byte) /\ Len(SubSeq(s, m, m + k - 1)) = k
         /\ \A i \in 1 .. k : SubSeq(s, m, m + k - 1)[i] = s[m - 1 + i]
  <1> DEFINE j == m + k - 1
             p == SubSeq(s, m, j)
  <1>1. j \in Int /\ m \in Int /\ j <= Len(s) /\ k = j - m + 1
    OBVIOUS
  <1> HIDE DEF j
  <1>2. \A i \in m .. j : s[i] \in Byte
    BY <1>1
  <1>3. /\ p \in Seq(Byte) /\ Len(p) = IF m <= j THEN j - m + 1 ELSE 0
        /\ \A i \in 1 .. j - m + 1 : p[i] = s[m + i - 1]
    BY <1>1, <1>2, SubSeqProperties
  <1> HIDE DEF p
  <1>4. \A i \in 1 .. k : p[i] = s[m - 1 + i]
    <2>1. ASSUME NEW i \in 1 .. k PROVE p[i] = s[m - 1 + i]
      <3>1. i \in 1 .. j - m + 1 /\ m + i - 1 = m - 1 + i
        BY <1>1
      <3>2. QED
        BY <1>3, <3>1
    <2>2. QED
      BY <2>1
  <1>5. Len(p) = k
    BY <1>1, <1>3
  <1>6. QED
    BY <1>3, <1>4, <1>5 DEF p, j

\* A short length is a byte.
LEMMA SmallByte ==
  ASSUME NEW l \in Nat, l <= 255
  PROVE  l \in Byte
  BY DEF Byte

\* What of a message is where in a SUBMIT.
SubmitOf(s, num, t) ==
  LET n == (Len(Digits(num)) + 1) \div 2
      u == Ucs2(t)
      e == EncodeNumber(num)
  IN  /\ s \in Seq(Byte) /\ Len(s) = 8 + n + Len(u)
      /\ s[1] = 0 /\ s[4] = e.digits /\ s[5] = e.toa
      /\ \A i \in 1 .. n : s[5 + i] = e.bcd[i]
      /\ s[8 + n] = Len(u)
      /\ \A i \in 1 .. Len(u) : s[8 + n + i] = u[i]

Writable(num, t) == /\ Digits(num) \in Seq(0 .. 9) /\ Len(Digits(num)) \in 1 .. 31
                    /\ IsUcs2(t) /\ Len(Ucs2(t)) <= 140

\* dbb_build_sms_submit_pdu puts everything where it belongs.
LEMMA SubmitBuilt ==
  ASSUME NEW num, NEW t, Writable(num, t)
  PROVE  SubmitOf(SubmitPdu(num, t), num, t)
  <1> DEFINE n == (Len(Digits(num)) + 1) \div 2
             u == Ucs2(t)
             e == EncodeNumber(num)
             bcd == e.bcd
             a == <<0, 1, 0, e.digits, e.toa>>
             c == <<0, 8, Len(u)>>
             p == a \o bcd
             q == p \o c
             s == q \o u
  <1>1. /\ Digits(num) \in Seq(0 .. 9) /\ Len(Digits(num)) \in 1 .. 31
        /\ IsUcs2(t) /\ Len(Ucs2(t)) <= 140
    BY Zenon DEF Writable
  <1>2. /\ e.digits \in Byte /\ e.toa \in Byte /\ bcd \in Seq(Byte) /\ Len(bcd) = n
    <2>1. /\ e.digits = Len(Digits(num)) /\ e.toa \in Byte /\ bcd \in Seq(Byte) /\ Len(bcd) = n
      BY <1>1, NumberRead, Zenon
    <2>2. Len(Digits(num)) \in Byte
      BY <1>1 DEF Byte
    <2>3. QED
      BY <2>1, <2>2, Zenon
  <1>3. u \in Seq(Byte) /\ Len(u) \in Byte
    <2>1. u \in Seq(Byte) /\ Len(u) <= 140
      BY <1>1, TextRead, Zenon
    <2> HIDE DEF u
    <2>2. Len(u) \in Nat
      BY <2>1, LenProperties, Zenon
    <2>3. Len(u) <= 255
      BY <2>1, <2>2
    <2>4. QED
      BY <2>1, <2>2, <2>3, SmallByte, Zenon
  <1>4. n \in Nat
    BY <1>1
  <1>5. SubmitPdu(num, t) = s
    BY Zenon DEF SubmitPdu
  <1> HIDE DEF e, u, n, bcd
  <1>6. 0 \in Byte /\ 1 \in Byte /\ 8 \in Byte
    BY DEF Byte
  <1>7. a \in Seq(Byte) /\ Len(a) = 5 /\ a[1] = 0 /\ a[4] = e.digits /\ a[5] = e.toa
    BY <1>2, <1>6
  <1>8. c \in Seq(Byte) /\ Len(c) = 3 /\ c[3] = Len(u)
    BY <1>3, <1>6
  <1> HIDE DEF a, c
  <1>9. /\ p \in Seq(Byte) /\ Len(p) = 5 + n
        /\ \A i \in 1 .. 5 : p[i] = a[i]
        /\ \A i \in 1 .. n : p[5 + i] = bcd[i]
    <2>1. /\ p \in Seq(Byte) /\ Len(p) = Len(a) + Len(bcd)
          /\ \A i \in 1 .. Len(a) : p[i] = a[i]
          /\ \A i \in 1 .. Len(bcd) : p[Len(a) + i] = bcd[i]
      BY <1>2, <1>7, BytesJoined, Zenon
    <2> HIDE DEF p
    <2>2. QED
      BY <1>2, <1>7, <2>1
  <1> HIDE DEF p
  <1>10. /\ q \in Seq(Byte) /\ Len(q) = 8 + n
         /\ \A i \in 1 .. 5 + n : q[i] = p[i]
         /\ q[8 + n] = Len(u)
    <2>1. /\ q \in Seq(Byte) /\ Len(q) = Len(p) + Len(c)
          /\ \A i \in 1 .. Len(p) : q[i] = p[i]
          /\ \A i \in 1 .. Len(c) : q[Len(p) + i] = c[i]
      BY <1>8, <1>9, BytesJoined, Zenon
    <2> HIDE DEF q
    <2>2. 3 \in 1 .. Len(c) /\ Len(p) + 3 = 8 + n
      BY <1>4, <1>8, <1>9
    <2>3. q[8 + n] = Len(u)
      BY <1>8, <2>1, <2>2
    <2>4. Len(p) + Len(c) = 8 + n
      BY <1>4, <1>8, <1>9
    <2>5. QED
      BY <1>9, <2>1, <2>3, <2>4
  <1> HIDE DEF q
  <1>11. /\ s \in Seq(Byte) /\ Len(s) = 8 + n + Len(u)
         /\ \A i \in 1 .. 8 + n : s[i] = q[i]
         /\ \A i \in 1 .. Len(u) : s[8 + n + i] = u[i]
    <2>1. /\ s \in Seq(Byte) /\ Len(s) = Len(q) + Len(u)
          /\ \A i \in 1 .. Len(q) : s[i] = q[i]
          /\ \A i \in 1 .. Len(u) : s[Len(q) + i] = u[i]
      BY <1>3, <1>10, BytesJoined, Zenon
    <2> HIDE DEF s
    <2>2. QED
      BY <1>10, <2>1
  <1> HIDE DEF s
  <1>12. /\ s[1] = 0 /\ s[4] = e.digits /\ s[5] = e.toa
    <2>1. ASSUME NEW i \in 1 .. 5 PROVE s[i] = a[i]
      <3>1. i \in 1 .. 8 + n /\ i \in 1 .. 5 + n
        BY <1>4
      <3>2. QED
        BY <1>9, <1>10, <1>11, <3>1
    <2>2. QED
      BY <1>7, <2>1
  <1>13. \A i \in 1 .. n : s[5 + i] = bcd[i]
    <2>1. ASSUME NEW i \in 1 .. n PROVE s[5 + i] = bcd[i]
      <3>1. 5 + i \in 1 .. 8 + n /\ 5 + i \in 1 .. 5 + n
        BY <1>4
      <3>2. QED
        BY <1>9, <1>10, <1>11, <3>1
    <2>2. QED
      BY <2>1
  <1>14. s[8 + n] = Len(u)
    <2>1. 8 + n \in 1 .. 8 + n
      BY <1>4
    <2>2. QED
      BY <1>10, <1>11, <2>1
  <1>15. SubmitOf(s, num, t)
    BY <1>11, <1>12, <1>13, <1>14, Zenon DEF SubmitOf, n, u, e, bcd
  <1>16. QED
    BY <1>5, <1>15, Zenon

\* Where the address ends.
LEMMA AddressEnd ==
  ASSUME NEW z \in Nat, NEW n \in Nat, NEW lb, NEW la, lb = 2 + z, la = n + 2
  PROVE  1 \in 1 .. lb /\ lb = z + 2 /\ lb + la = 4 + z + n
  OBVIOUS

\* Where the parts of a SUBMIT are in a DELIVER.
DeliverLayout(d, z, s, n, k, dcs) ==
  /\ d \in Seq(Byte) /\ Len(d) = 14 + z + n + k
  /\ d[1] = z
  /\ \A i \in 1 .. n + 2 : d[z + 2 + i] = s[3 + i]
  /\ d[z + 6 + n] = dcs
  /\ \A i \in 1 .. k + 1 : d[z + 13 + n + i] = s[7 + n + i]

\* What of a message is where in the DELIVER that its SUBMIT becomes.
LEMMA DeliverBuilt ==
  ASSUME NEW s \in Seq(Byte), NEW centre \in Seq(Byte), Len(centre) \in Byte, NEW dcs \in Byte,
         NEW n \in Nat, NEW k \in Nat, n = (s[4] + 1) \div 2, Len(s) = 8 + n + k
  PROVE  DeliverLayout(DeliverPdu(s, centre, dcs), Len(centre), s, n, k, dcs)
  <1> DEFINE z == Len(centre)
             d == DeliverPdu(s, centre, dcs)
             address == SubSeq(s, 4, 5 + n)
             data == SubSeq(s, 8 + n, Len(s))
             stamp == [i \in 1 .. 7 |-> 0]
             head == <<z>>
             type == <<4>>
             pid == <<0, dcs>>
             a == head \o centre
             b == a \o type
             c == b \o address
             e == c \o pid
             f == e \o stamp
  <1>1. d = f \o data
    BY Zenon DEF DeliverPdu
  <1>2. 0 \in Byte /\ 4 \in Byte /\ z \in Byte /\ z \in Nat
    BY DEF Byte
  <1>3. head \in Seq(Byte) /\ Len(head) = 1 /\ head[1] = z
    BY <1>2
  <1>4. type \in Seq(Byte) /\ Len(type) = 1
    BY <1>2
  <1>5. pid \in Seq(Byte) /\ Len(pid) = 2 /\ pid[2] = dcs
    BY <1>2
  <1>6. stamp \in Seq(Byte) /\ Len(stamp) = 7
    BY <1>2
  <1>7. /\ address \in Seq(Byte) /\ Len(address) = n + 2
        /\ \A i \in 1 .. n + 2 : address[i] = s[3 + i]
    <2>1. 4 \in Nat /\ n + 2 \in Nat /\ 1 <= 4 /\ 4 + (n + 2) <= Len(s) + 1
          /\ 4 + (n + 2) - 1 = 5 + n
      OBVIOUS
    <2>2. address = SubSeq(s, 4, 4 + (n + 2) - 1)
      BY <2>1
    <2> HIDE DEF address
    <2>3. /\ address \in Seq(Byte) /\ Len(address) = n + 2
          /\ \A i \in 1 .. n + 2 : address[i] = s[4 - 1 + i]
      <3> DEFINE part == SubSeq(s, 4, 4 + (n + 2) - 1)
      <3>1. /\ part \in Seq(Byte) /\ Len(part) = n + 2
            /\ \A i \in 1 .. n + 2 : part[i] = s[4 - 1 + i]
        BY <2>1, BytesPart, Zenon
      <3> HIDE DEF part
      <3>2. address = part
        BY <2>2, Zenon DEF part
      <3>3. QED
        BY <3>1, <3>2, Zenon
    <2>4. \A i \in 1 .. n + 2 : 4 - 1 + i = 3 + i
      OBVIOUS
    <2>5. QED
      BY <2>3, <2>4, Zenon
  <1>8. /\ data \in Seq(Byte) /\ Len(data) = k + 1
        /\ \A i \in 1 .. k + 1 : data[i] = s[7 + n + i]
    <2>1. /\ 8 + n \in Nat /\ k + 1 \in Nat /\ 1 <= 8 + n /\ 8 + n + (k + 1) <= Len(s) + 1
          /\ 8 + n + (k + 1) - 1 = Len(s)
      OBVIOUS
    <2>2. data = SubSeq(s, 8 + n, 8 + n + (k + 1) - 1)
      BY <2>1
    <2> HIDE DEF data
    <2>3. /\ data \in Seq(Byte) /\ Len(data) = k + 1
          /\ \A i \in 1 .. k + 1 : data[i] = s[8 + n - 1 + i]
      <3> DEFINE m == 8 + n
                 j == k + 1
                 part == SubSeq(s, m, m + j - 1)
      <3>0. m \in Nat /\ j \in Nat /\ 1 <= m /\ m + j <= Len(s) + 1
        BY <2>1
      <3> HIDE DEF m, j
      <3>3. /\ part \in Seq(Byte) /\ Len(part) = j
            /\ \A i \in 1 .. j : part[i] = s[m - 1 + i]
        BY <3>0, BytesPart, Zenon
      <3> HIDE DEF part
      <3>1. /\ part \in Seq(Byte) /\ Len(part) = k + 1
            /\ \A i \in 1 .. k + 1 : part[i] = s[8 + n - 1 + i]
        BY <3>3 DEF m, j
      <3>2. data = part
        BY <2>2, Zenon DEF part, m, j
      <3>4. QED
        BY <3>1, <3>2, Zenon
    <2>4. \A i \in 1 .. k + 1 : 8 + n - 1 + i = 7 + n + i
      OBVIOUS
    <2>5. QED
      BY <2>3, <2>4, Zenon
  <1> HIDE DEF head, type, pid, stamp, address, data, d
  <1>9. a \in Seq(Byte) /\ Len(a) = 1 + z /\ a[1] = z
    <2>1. /\ a \in Seq(Byte) /\ Len(a) = Len(head) + Len(centre)
          /\ \A i \in 1 .. Len(head) : a[i] = head[i]
      BY <1>3, BytesJoined, Zenon
    <2> HIDE DEF a
    <2>2. QED
      BY <1>3, <2>1
  <1> HIDE DEF a
  <1>10. b \in Seq(Byte) /\ Len(b) = 2 + z /\ b[1] = z
    <2>1. /\ b \in Seq(Byte) /\ Len(b) = Len(a) + Len(type)
          /\ \A i \in 1 .. Len(a) : b[i] = a[i]
      BY <1>4, <1>9, BytesJoined, Zenon
    <2> HIDE DEF b
    <2>2. 1 \in 1 .. Len(a)
      BY <1>2, <1>9
    <2>3. QED
      BY <1>2, <1>4, <1>9, <2>1, <2>2
  <1> HIDE DEF b
  <1>11. /\ c \in Seq(Byte) /\ Len(c) = 4 + z + n /\ c[1] = z
         /\ \A i \in 1 .. n + 2 : c[z + 2 + i] = s[3 + i]
    <2>1. /\ c \in Seq(Byte) /\ Len(c) = Len(b) + Len(address)
          /\ \A i \in 1 .. Len(b) : c[i] = b[i]
          /\ \A i \in 1 .. Len(address) : c[Len(b) + i] = address[i]
      BY <1>7, <1>10, BytesJoined, Zenon
    <2> HIDE DEF c
    <2>2. 1 \in 1 .. Len(b) /\ Len(b) = z + 2 /\ Len(b) + Len(address) = 4 + z + n
      <3>1. z \in Nat /\ Len(b) = 2 + z /\ Len(address) = n + 2
        BY <1>2, <1>7, <1>10, Zenon
      <3>2. QED
        BY <3>1, AddressEnd
    <2>3. \A i \in 1 .. n + 2 : c[z + 2 + i] = s[3 + i]
      BY <1>7, <2>1, <2>2
    <2>4. QED
      BY <1>10, <2>1, <2>2, <2>3
  <1> HIDE DEF c
  <1>12. /\ e \in Seq(Byte) /\ Len(e) = 6 + z + n
         /\ \A i \in 1 .. 4 + z + n : e[i] = c[i]
         /\ e[z + 6 + n] = dcs
    <2>1. /\ e \in Seq(Byte) /\ Len(e) = Len(c) + Len(pid)
          /\ \A i \in 1 .. Len(c) : e[i] = c[i]
          /\ \A i \in 1 .. Len(pid) : e[Len(c) + i] = pid[i]
      BY <1>5, <1>11, BytesJoined, Zenon
    <2> HIDE DEF e
    <2>2. 2 \in 1 .. Len(pid) /\ Len(c) + 2 = z + 6 + n /\ Len(c) + Len(pid) = 6 + z + n
      BY <1>2, <1>5, <1>11
    <2>3. e[z + 6 + n] = dcs
      BY <1>5, <2>1, <2>2
    <2>4. QED
      BY <1>11, <2>1, <2>2, <2>3
  <1> HIDE DEF e
  <1>13. /\ f \in Seq(Byte) /\ Len(f) = 13 + z + n
         /\ \A i \in 1 .. 6 + z + n : f[i] = e[i]
    <2>1. /\ f \in Seq(Byte) /\ Len(f) = Len(e) + Len(stamp)
          /\ \A i \in 1 .. Len(e) : f[i] = e[i]
      BY <1>6, <1>12, BytesJoined, Zenon
    <2> HIDE DEF f
    <2>2. Len(e) + Len(stamp) = 13 + z + n
      BY <1>2, <1>6, <1>12
    <2>3. QED
      BY <1>12, <2>1, <2>2
  <1> HIDE DEF f
  <1>14. /\ d \in Seq(Byte) /\ Len(d) = 14 + z + n + k
         /\ \A i \in 1 .. 13 + z + n : d[i] = f[i]
         /\ \A i \in 1 .. k + 1 : d[z + 13 + n + i] = s[7 + n + i]
    <2>1. /\ d \in Seq(Byte) /\ Len(d) = Len(f) + Len(data)
          /\ \A i \in 1 .. Len(f) : d[i] = f[i]
          /\ \A i \in 1 .. Len(data) : d[Len(f) + i] = data[i]
      BY <1>1, <1>8, <1>13, BytesJoined, Zenon
    <2>2. Len(f) = z + 13 + n /\ Len(f) + Len(data) = 14 + z + n + k
      BY <1>2, <1>8, <1>13
    <2>3. \A i \in 1 .. k + 1 : d[z + 13 + n + i] = s[7 + n + i]
      BY <1>8, <2>1, <2>2
    <2>4. QED
      BY <1>13, <2>1, <2>2, <2>3
  <1>15. ASSUME NEW i \in 1 .. 4 + z + n PROVE d[i] = c[i]
    <2>1. i \in 1 .. 6 + z + n /\ i \in 1 .. 13 + z + n
      BY <1>2
    <2>2. QED
      BY <1>12, <1>13, <1>14, <2>1
  <1>16. d[1] = z
    <2>1. 1 \in 1 .. 4 + z + n
      BY <1>2
    <2>2. QED
      BY <1>11, <1>15, <2>1
  <1>17. \A i \in 1 .. n + 2 : d[z + 2 + i] = s[3 + i]
    <2>1. \A i \in 1 .. n + 2 : z + 2 + i \in 1 .. 4 + z + n
      BY <1>2
    <2>2. QED
      BY <1>11, <1>15, <2>1
  <1>18. d[z + 6 + n] = dcs
    <2>1. z + 6 + n \in 1 .. 6 + z + n /\ z + 6 + n \in 1 .. 13 + z + n
      BY <1>2
    <2>2. QED
      BY <1>12, <1>13, <1>14, <2>1
  <1>19. QED
    BY <1>14, <1>16, <1>17, <1>18, Zenon DEF d, DeliverLayout

\* The part of a sequence of bytes that another was written to.
LEMMA PartIs ==
  ASSUME NEW s \in Seq(Byte), NEW w \in Seq(Byte), NEW m \in Nat, NEW j \in Nat, 1 <= m,
         j = m + Len(w) - 1, j <= Len(s),
         \A i \in 1 .. Len(w) : s[m - 1 + i] = w[i]
  PROVE  SubSeq(s, m, j) = w
  <1> DEFINE k == Len(w)
             p == SubSeq(s, m, m + k - 1)
  <1>1. k \in Nat /\ m + k <= Len(s) + 1
    OBVIOUS
  <1>2. \A i \in 1 .. k : s[m - 1 + i] = w[i]
    OBVIOUS
  <1>3. SubSeq(s, m, j) = p
    OBVIOUS
  <1> HIDE DEF k
  <1>4. p \in Seq(Byte) /\ Len(p) = k /\ \A i \in 1 .. k : p[i] = s[m - 1 + i]
    BY <1>1, BytesPart, Zenon
  <1> HIDE DEF p
  <1>5. \A i \in 1 .. Len(p) : p[i] = w[i]
    BY <1>2, <1>4, Zenon
  <1>6. Len(p) = Len(w)
    BY <1>4 DEF k
  <1>7. p = w
    BY <1>4, <1>5, <1>6, SeqEqual, Zenon
  <1>8. QED
    BY <1>3, <1>7, Zenon

\* What of a message is where in a DELIVER that came by a centre whose address has z bytes.
DeliverOf(d, z, num, t) ==
  LET n == (Len(Digits(num)) + 1) \div 2
      u == Ucs2(t)
      e == EncodeNumber(num)
  IN  /\ d \in Seq(Byte) /\ z \in Nat /\ Len(d) = 14 + z + n + Len(u)
      /\ d[1] = z /\ d[z + 3] = Len(Digits(num))
      /\ \A i \in 1 .. n : d[z + 4 + i] = e.bcd[i]
      /\ d[z + 14 + n] = Len(u)
      /\ \A i \in 1 .. Len(u) : d[z + 14 + n + i] = u[i]

\* A message is in the DELIVER that its SUBMIT becomes.
LEMMA MessageCarried ==
  ASSUME NEW num, NEW t, Writable(num, t), NEW centre \in Seq(Byte), Len(centre) \in Byte,
         NEW dcs \in Byte
  PROVE  DeliverOf(DeliverPdu(SubmitPdu(num, t), centre, dcs), Len(centre), num, t)
  <1> DEFINE n == (Len(Digits(num)) + 1) \div 2
             u == Ucs2(t)
             e == EncodeNumber(num)
             bcd == e.bcd
             k == Len(u)
             s == SubmitPdu(num, t)
             z == Len(centre)
             d == DeliverPdu(s, centre, dcs)
  <1>1. SubmitOf(s, num, t)
    BY SubmitBuilt, Zenon
  <1>2. Len(Digits(num)) \in 1 .. 31 /\ e.digits = Len(Digits(num)) /\ IsUcs2(t)
    BY NumberRead, Zenon DEF Writable
  <1>3. u \in Seq(Byte)
    BY <1>2, TextRead, Zenon
  <1> HIDE DEF s, e, u, bcd
  <1>4. k \in Nat
    BY <1>3
  <1>5. n \in Nat
    BY <1>2
  <1>6. z \in Nat
    OBVIOUS
  <1>7. /\ s \in Seq(Byte) /\ Len(s) = 8 + n + k
        /\ s[4] = Len(Digits(num))
        /\ \A i \in 1 .. n : s[5 + i] = bcd[i]
        /\ s[8 + n] = k
        /\ \A i \in 1 .. k : s[8 + n + i] = u[i]
    BY <1>1, <1>2, Zenon DEF SubmitOf, u, e, bcd
  <1>8. n = (s[4] + 1) \div 2
    BY <1>7, Zenon
  <1> HIDE DEF n, k
  <1>9. /\ d \in Seq(Byte) /\ Len(d) = 14 + z + n + k
        /\ d[1] = z
        /\ \A i \in 1 .. n + 2 : d[z + 2 + i] = s[3 + i]
        /\ \A i \in 1 .. k + 1 : d[z + 13 + n + i] = s[7 + n + i]
    <2>1. s \in Seq(Byte) /\ Len(s) = 8 + n + k
      BY <1>7, Zenon
    <2>2. DeliverLayout(d, z, s, n, k, dcs)
      BY <1>4, <1>5, <1>8, <2>1, DeliverBuilt, Zenon
    <2>3. QED
      BY <2>2, Zenon DEF DeliverLayout
  <1> HIDE DEF z, d
  <1>10. d[z + 3] = Len(Digits(num))
    <2>1. 1 \in 1 .. n + 2 /\ z + 2 + 1 = z + 3 /\ 3 + 1 = 4
      BY <1>5, <1>6
    <2>2. QED
      BY <1>7, <1>9, <2>1
  <1>11. ASSUME NEW i \in 1 .. n PROVE d[z + 4 + i] = bcd[i]
    <2>1. i + 2 \in 1 .. n + 2 /\ z + 2 + (i + 2) = z + 4 + i /\ 3 + (i + 2) = 5 + i
      BY <1>5, <1>6
    <2>2. QED
      BY <1>7, <1>9, <2>1
  <1>12. d[z + 14 + n] = k
    <2>1. 1 \in 1 .. k + 1 /\ z + 13 + n + 1 = z + 14 + n /\ 7 + n + 1 = 8 + n
      BY <1>4, <1>5, <1>6
    <2>2. QED
      BY <1>7, <1>9, <2>1
  <1>13. ASSUME NEW i \in 1 .. k PROVE d[z + 14 + n + i] = u[i]
    <2>1. i + 1 \in 1 .. k + 1 /\ z + 13 + n + (i + 1) = z + 14 + n + i /\ 7 + n + (i + 1) = 8 + n + i
      BY <1>4, <1>5, <1>6
    <2>2. QED
      BY <1>7, <1>9, <2>1
  <1>14. DeliverOf(d, z, num, t)
    BY <1>6, <1>9, <1>10, <1>11, <1>12, <1>13, Zenon DEF DeliverOf, n, u, e, bcd, k
  <1>15. QED
    BY <1>14, Zenon DEF d, s, z

\* What is read of a beginning of a DELIVER, if anything is, is what was written.
LEMMA ReadBack ==
  ASSUME NEW num, NEW t, Writable(num, t), NEW d, NEW z, DeliverOf(d, z, num, t),
         NEW m \in 1 .. Len(d), NEW b \in Seq(Byte), Len(b) = m,
         \A i \in 1 .. m : b[i] = d[i]
  PROVE  \/ ReadDeliver(b) = Nothing
         \/ ReadDeliver(b).from = Digits(num) /\ ReadDeliver(b).text \in {t, Unsupported}
  <1> DEFINE type   == 2 + b[1]
             digits == b[type + 1]
             oa     == type + 3
             n      == (digits + 1) \div 2
             from   == DecodeNumber(SubSeq(b, oa, oa + n - 1), digits)
             udl_at == oa + n + 9
             udl    == b[udl_at]
             dcs    == b[oa + n + 1]
             bad    == \/ Len(b) < 8 \/ type + 2 > Len(b) \/ udl_at > Len(b)
                       \/ \E i \in 1 .. digits : from[i] > 9
                       \/ udl_at + udl > Len(b)
                       \/ dcs = 8 /\ udl % 2 = 1
             words   == SubSeq(b, udl_at + 1, udl_at + udl)
             text   == IF dcs = 8 THEN FromUcs2(words) ELSE Unsupported
  <1>1. ReadDeliver(b) = IF bad THEN Nothing ELSE [from |-> from, text |-> text]
    BY Zenon DEF ReadDeliver
  <1>2. CASE bad
    BY <1>1, <1>2, Zenon
  <1>3. CASE ~bad
    <2> DEFINE len == Len(Digits(num))
               N == (len + 1) \div 2
               u == Ucs2(t)
               k == Len(u)
               e == EncodeNumber(num)
               bcd == e.bcd
    <2>1. ~(Len(b) < 8) /\ ~(type + 2 > Len(b)) /\ ~(udl_at > Len(b)) /\ ~(udl_at + udl > Len(b))
      BY <1>3, Zenon
    <2>2. /\ d \in Seq(Byte) /\ z \in Nat /\ Len(d) = 14 + z + N + k
          /\ d[1] = z /\ d[z + 3] = len
          /\ \A i \in 1 .. N : d[z + 4 + i] = bcd[i]
          /\ d[z + 14 + N] = k
          /\ \A i \in 1 .. k : d[z + 14 + N + i] = u[i]
      BY Zenon DEF DeliverOf
    <2>3. /\ len \in 1 .. 31 /\ IsUcs2(t)
          /\ bcd \in Seq(Byte) /\ Len(bcd) = N /\ DecodeNumber(bcd, len) = Digits(num)
      BY NumberRead, Zenon DEF Writable
    <2>4. u \in Seq(Byte) /\ FromUcs2(u) = t
      BY <2>3, TextRead, Zenon
    <2> HIDE DEF u, e, bcd
    <2>5. k \in Nat /\ N \in Nat /\ m \in Nat
      BY <2>2, <2>3, <2>4
    <2> HIDE DEF k, len
    <2>6. b[1] = z
      <3>1. 1 \in 1 .. m
        BY <2>1, <2>5
      <3>2. QED
        BY <2>2, <3>1
    <2> DEFINE B1 == b[1]
    <2>7. type + 1 = z + 3 /\ oa = z + 5
      BY <2>2, <2>6
    <2>8. digits = len
      <3>1. type + 2 <= m /\ type + 1 \in 1 .. m
        BY <2>1, <2>2, <2>5, <2>6
      <3>2. QED
        BY <2>2, <2>7, <3>1
    <2>9. n = N
      BY <2>8
    <2> HIDE DEF type, digits, from, udl, dcs, text, words
    <2>10. udl_at = z + 14 + N
      BY <2>2, <2>5, <2>7, <2>9
    <2> HIDE DEF n, N, oa
    <2>11. udl_at \in 1 .. m
      BY <2>1, <2>2, <2>5, <2>10
    <2> HIDE DEF udl_at
    <2>12. udl = k
      BY <2>2, <2>10, <2>11 DEF udl
    <2>13. SubSeq(b, oa, oa + n - 1) = bcd
      <3>1. ASSUME NEW i \in 1 .. N PROVE b[oa - 1 + i] = bcd[i]
        <4>1. oa - 1 + i = z + 4 + i /\ z + 4 + i \in 1 .. m
          BY <2>2, <2>5, <2>7, <2>10, <2>11
        <4>2. QED
          BY <2>2, <4>1
      <3>2. oa \in Nat /\ 1 <= oa /\ oa + n - 1 \in Nat /\ oa + n - 1 = oa + Len(bcd) - 1
            /\ oa + n - 1 <= Len(b)
        BY <2>2, <2>3, <2>5, <2>7, <2>9, <2>10, <2>11
      <3>3. \A i \in 1 .. Len(bcd) : b[oa - 1 + i] = bcd[i]
        BY <2>3, <3>1, Zenon
      <3>4. QED
        BY <2>3, <3>2, <3>3, PartIs, Zenon
    <2>14. words = u
      <3>1. ASSUME NEW i \in 1 .. k PROVE b[(udl_at + 1) - 1 + i] = u[i]
        <4>1. (udl_at + 1) - 1 + i = z + 14 + N + i /\ z + 14 + N + i \in 1 .. m
          BY <2>1, <2>2, <2>5, <2>10, <2>11, <2>12
        <4>2. QED
          BY <2>2, <4>1
      <3>2. /\ udl_at + 1 \in Nat /\ 1 <= udl_at + 1 /\ udl_at + udl \in Nat
            /\ udl_at + udl = udl_at + 1 + Len(u) - 1 /\ udl_at + udl <= Len(b)
        BY <2>1, <2>5, <2>11, <2>12 DEF k
      <3>3. \A i \in 1 .. Len(u) : b[(udl_at + 1) - 1 + i] = u[i]
        BY <3>1, Zenon DEF k
      <3>4. SubSeq(b, udl_at + 1, udl_at + udl) = u
        <4> DEFINE from_at == udl_at + 1
                   to_at == udl_at + udl
        <4>1. /\ from_at \in Nat /\ 1 <= from_at /\ to_at \in Nat
              /\ to_at = from_at + Len(u) - 1 /\ to_at <= Len(b)
              /\ \A i \in 1 .. Len(u) : b[from_at - 1 + i] = u[i]
          BY <3>2, <3>3, Zenon
        <4> HIDE DEF from_at, to_at
        <4>2. SubSeq(b, from_at, to_at) = u
          BY <2>4, <4>1, PartIs, Zenon
        <4>3. QED
          BY <4>2, Zenon DEF from_at, to_at
      <3>5. QED
        BY <3>4, Zenon DEF words
    <2>15. from = Digits(num)
      BY <2>3, <2>8, <2>13, Zenon DEF from
    <2>16. text \in {t, Unsupported}
      BY <2>4, <2>14, Zenon DEF text
    <2>17. ReadDeliver(b) = [from |-> from, text |-> text]
      BY <1>1, <1>3, Zenon
    <2>18. QED
      BY <2>15, <2>16, <2>17
  <1>4. QED
    BY <1>2, <1>3, Zenon

-----------------------------------------------------------------------------
(* DbbCodec: a message is read as it was written *)

\* What is sent is the SUBMIT of the message, and what was read of it is the message.
SmsInv ==
  /\ submit = <<>> \/ (/\ Writable(sms_target, sms_text)
                       /\ submit = SubmitPdu(sms_target, sms_text)
                       /\ cmgs_len = Len(submit) - 1)
  /\ sms_target # <<>> => submit # <<>>
  /\ received = Nothing \/ (/\ received.from = Digits(sms_target)
                            /\ received.text \in {sms_text, Unsupported})

\* The numbers and texts that are written have a SUBMIT.
LEMMA WritableSms ==
  ASSUME NEW target \in Numbers, NEW words \in SmsTexts, Len(Ucs2(words)) <= UdSize
  PROVE  Writable(target, words)
  <1>1. Digits(target) \in Seq(0 .. 9) /\ Len(Digits(target)) \in 1 .. 31
    BY CodecAssumption
  <1>2. IsUcs2(words)
    BY CodecAssumption DEF IsUcs2
  <1>3. Len(Ucs2(words)) \in Nat
    BY <1>2, TextRead, LenProperties, Zenon
  <1>4. UdSize \in 0 .. 140
    BY CodecAssumption
  <1>5. Len(Ucs2(words)) <= 140
    BY <1>3, <1>4
  <1>6. QED
    BY <1>1, <1>2, <1>5, Zenon DEF Writable

\* A SUBMIT is not empty, its first byte is 0 and its fifth the type of its number.
LEMMA SubmitHead ==
  ASSUME NEW num, NEW t, Writable(num, t)
  PROVE  /\ SubmitPdu(num, t) \in Seq(Byte) /\ Len(SubmitPdu(num, t)) \in Nat \ {0}
         /\ SubmitPdu(num, t)[1] = 0
         /\ Plus \in ToSet(num) => SubmitPdu(num, t)[5] = 145
  <1> DEFINE s == SubmitPdu(num, t)
             n == (Len(Digits(num)) + 1) \div 2
             l == Len(Ucs2(t))
             digits == Len(Digits(num))
  <1>1. /\ s \in Seq(Byte) /\ Len(s) = 8 + n + l /\ s[1] = 0
        /\ s[5] = EncodeNumber(num).toa
    BY SubmitBuilt, Zenon DEF SubmitOf
  <1>2. Digits(num) \in Seq(0 .. 9) /\ digits \in 1 .. 31 /\ IsUcs2(t)
    BY Zenon DEF Writable
  <1>3. l \in Nat
    BY <1>2, TextRead, LenProperties, Zenon
  <1>4. Plus \in ToSet(num) => EncodeNumber(num).toa = 145
    BY <1>2, NumberRead, Zenon
  <1> HIDE DEF s, l, digits
  <1>5. Len(s) \in Nat \ {0}
    BY <1>1, <1>2, <1>3
  <1>6. QED
    BY <1>1, <1>4, <1>5, Zenon DEF s

\* A message keeps being what was written when one is written.
LEMMA WriteKeeps ==
  ASSUME NEW target \in Numbers, NEW words \in SmsTexts, WriteSms(target, words)
  PROVE  SmsInv'
  <1>1. /\ Len(Ucs2(words)) <= UdSize
        /\ sms_target' = target /\ sms_text' = words
        /\ submit' = SubmitPdu(target, words)
        /\ cmgs_len' = Len(submit') - 1
        /\ received' = Nothing
    BY Zenon DEF WriteSms
  <1>2. Writable(target, words)
    BY <1>1, WritableSms, Zenon
  <1>3. Writable(sms_target, sms_text)'
    BY <1>1, <1>2, Zenon
  <1>4. SubmitPdu(sms_target, sms_text)' = SubmitPdu(target, words)
    BY <1>1, Zenon
  <1>5. submit' # <<>>
    <2>1. submit' \in Seq(Byte) /\ Len(submit') \in Nat \ {0}
      BY <1>1, <1>2, SubmitHead, Zenon
    <2>2. QED
      BY <2>1
  <1>6. QED
    BY <1>1, <1>3, <1>4, <1>5, Zenon DEF SmsInv

\* What is read of a message that comes is the message.
LEMMA ReceiveKeeps ==
  ASSUME SmsInv, NEW centre \in Centres, NEW dcs \in {0, 8}, ReceiveSms(centre, dcs)
  PROVE  SmsInv'
  <1> DEFINE d == DeliverPdu(submit, centre, dcs)
             hex == HexEncode(d)
  <1>1. submit # <<>> /\ UNCHANGED <<sms_target, sms_text, submit, cmgs_len>>
    BY Zenon DEF ReceiveSms
  <1>2. PICK k \in 1 .. Len(hex) :
          received' = IF HexDecode(SubSeq(hex, 1, k), 256).ok
                        THEN ReadDeliver(HexDecode(SubSeq(hex, 1, k), 256).bytes) ELSE Nothing
    BY Zenon DEF ReceiveSms
  <1>3. Writable(sms_target, sms_text) /\ submit = SubmitPdu(sms_target, sms_text)
    BY <1>1, Zenon DEF SmsInv
  <1>4. DeliverOf(d, Len(centre), sms_target, sms_text)
    <2>1. centre \in Seq(Byte) /\ Len(centre) <= 255
      <3>1. centre \in Seq(0 .. 255) /\ Len(centre) <= 255
        BY CodecAssumption
      <3>2. QED
        BY <3>1, Zenon DEF Byte
    <2>2. Len(centre) \in Byte
      <3>1. Len(centre) \in Nat
        BY <2>1, LenProperties, Zenon
      <3>2. QED
        BY <2>1, <3>1, SmallByte, Zenon
    <2>3. dcs \in Byte
      BY DEF Byte
    <2>4. QED
      BY <1>3, <2>1, <2>2, <2>3, MessageCarried, Zenon
  <1>5. d \in Seq(Byte)
    BY <1>4, Zenon DEF DeliverOf
  <1> HIDE DEF d
  <1>6. received' = Nothing \/ (/\ received'.from = Digits(sms_target)
                                /\ received'.text \in {sms_text, Unsupported})
    <2> DEFINE got == HexDecode(SubSeq(hex, 1, k), 256)
    <2>1. CASE ~got.ok
      BY <1>2, <2>1, Zenon
    <2>2. CASE got.ok
      <3> DEFINE size == 256
                 cut == HexDecode(SubSeq(HexEncode(d), 1, k), size)
                 b == cut.bytes
      <3>0. received' = ReadDeliver(b) /\ cut.ok
        BY <1>2, <2>2, Zenon
      <3> HIDE DEF size, got
      <3>4. cut.ok /\ k \in 1 .. Len(HexEncode(d))
        BY <1>2, <3>0, Zenon
      <3>1. PICK m \in 1 .. Len(d) : /\ b \in Seq(Byte) /\ Len(b) = m
                                     /\ \A i \in 1 .. m : b[i] = d[i]
        BY <1>5, <3>4, HexPrefix
      <3> HIDE DEF b
      <3>3. \/ ReadDeliver(b) = Nothing
            \/ /\ ReadDeliver(b).from = Digits(sms_target)
               /\ ReadDeliver(b).text \in {sms_text, Unsupported}
        <4>1. Writable(sms_target, sms_text) /\ b \in Seq(Byte) /\ Len(b) = m /\ m \in 1 .. Len(d)
          BY <1>3, <3>1, Zenon
        <4>2. \A i \in 1 .. m : b[i] = d[i]
          BY <3>1, Zenon
        <4>3. QED
          BY <1>4, <4>1, <4>2, ReadBack
      <3>5. QED
        BY <3>0, <3>3, Zenon
    <2>3. QED
      BY <2>1, <2>2, Zenon
  <1>7. QED
    BY <1>1, <1>6, Zenon DEF SmsInv

\* The inductive invariant of messages.
LEMMA SmsAlways == CodecSpec => []SmsInv
  <1>1. CodecInit => SmsInv
    BY DEF CodecInit, SmsInv
  <1>2. SmsInv /\ [CodecNext]_codecVars => SmsInv'
    <2> SUFFICES ASSUME SmsInv, [CodecNext]_codecVars PROVE SmsInv'
      BY Zenon
    <2>1. CASE UNCHANGED smsVars
      BY <2>1, Zenon DEF smsVars, SmsInv
    <2>2. ASSUME NEW target \in Numbers, NEW words \in SmsTexts, WriteSms(target, words)
          PROVE  SmsInv'
      BY <2>2, WriteKeeps, Zenon
    <2>3. ASSUME NEW centre \in Centres, NEW dcs \in {0, 8}, ReceiveSms(centre, dcs)
          PROVE  SmsInv'
      BY <2>3, ReceiveKeeps, Zenon
    <2>4. QED
      BY <2>1, <2>2, <2>3, Zenon DEF CodecNext, SmsNext, codecVars
  <1>3. QED
    BY <1>1, <1>2, PTL DEF CodecSpec

\* A message is read with the number and the text it was written with or not at all, for any
\* number of up to 31 digits, any text that fits, any centre, and wherever its report was cut
\* (dbb_handle.c:361-610).
THEOREM MessageReadAsWritten == CodecSpec => []MessageKept
  <1>1. SmsInv => MessageKept
    <2> SUFFICES ASSUME SmsInv, sms_target # <<>>
                 PROVE  /\ received = Nothing \/ (/\ received.from = Digits(sms_target)
                                                  /\ received.text \in {sms_text, Unsupported})
                        /\ cmgs_len = Len(submit) - 1 - submit[1]
                        /\ Plus \in ToSet(sms_target) => submit[5] = 145
      BY Zenon DEF MessageKept
    <2>1. /\ Writable(sms_target, sms_text) /\ submit = SubmitPdu(sms_target, sms_text)
          /\ cmgs_len = Len(submit) - 1
      BY Zenon DEF SmsInv
    <2>2. /\ Len(submit) \in Nat \ {0} /\ submit[1] = 0
          /\ Plus \in ToSet(sms_target) => submit[5] = 145
      <3> DEFINE s == SubmitPdu(sms_target, sms_text)
      <3>1. /\ Len(s) \in Nat \ {0} /\ s[1] = 0
            /\ Plus \in ToSet(sms_target) => s[5] = 145
        <4>1. Writable(sms_target, sms_text)
          BY <2>1, Zenon
        <4>2. QED
          BY <4>1, SubmitHead
      <3>2. submit = s
        BY <2>1, Zenon
      <3> HIDE DEF s
      <3>3. QED
        BY <3>1, <3>2, Zenon
    <2>3. cmgs_len = Len(submit) - 1 - submit[1]
      BY <2>1, <2>2
    <2>4. QED
      BY <2>2, <2>3, Zenon DEF SmsInv
  <1>2. QED
    BY <1>1, SmsAlways, PTL

\* A sequence cut into parts, flattened: cut[i] is where the i-th part ends.
LEMMA FlattenParts ==
  ASSUME NEW S, NEW w \in Seq(S), NEW n \in Nat, NEW cut \in [0 .. n -> 0 .. Len(w)],
         NEW seqs, Len(seqs) = n, seqs = <<>> \/ n > 0,
         cut[0] = 0, cut[n] = Len(w),
         \A i \in 1 .. n : cut[i - 1] <= cut[i] /\ seqs[i] = SubSeq(w, cut[i - 1] + 1, cut[i])
  PROVE  FlattenSeq(seqs) = w
  <1>1. CASE n = 0
    <2>1. seqs = <<>> /\ Len(w) = 0
      BY <1>1
    <2>2. w = <<>>
      BY <2>1, EmptySeq, Zenon
    <2>3. FlattenSeq(seqs) = seqs
      BY <1>1, Zenon DEF FlattenSeq
    <2>4. QED
      BY <2>1, <2>2, <2>3, Zenon
  <1>2. CASE n > 0
    <2>1. PICK f : /\ f[1] = seqs[1]
                   /\ \A i \in 2 .. n : f[i] = f[i - 1] \o seqs[i]
                   /\ FlattenSeq(seqs) = f[n]
      BY <1>2, FlattenLoop
    <2> DEFINE P == {k \in 0 .. n : k > 0 => f[k] = SubSeq(w, 1, cut[k])}
    <2>2. 0 \in P
      OBVIOUS
    <2>3. ASSUME NEW k \in 1 .. n, k - 1 \in P PROVE k \in P
      <3>1. k \in 0 .. n
        OBVIOUS
      <3>2. CASE k = 1
        <4>1. 1 \in 1 .. n /\ 1 - 1 = 0 /\ 0 + 1 = 1
          BY <1>2
        <4>2. seqs[1] = SubSeq(w, cut[0] + 1, cut[1])
          BY <4>1
        <4>3. f[1] = SubSeq(w, 1, cut[1])
          BY <2>1, <4>1, <4>2
        <4>4. QED
          BY <3>1, <3>2, <4>3
      <3>3. CASE k # 1
        <4> DEFINE a == cut[k - 1]
                   b == cut[k]
                   l == Len(w)
        <4>1. k \in 2 .. n /\ k - 1 \in 0 .. n /\ k - 1 > 0
          BY <3>3
        <4>2. f[k - 1] = SubSeq(w, 1, a) /\ f[k] = f[k - 1] \o seqs[k]
          BY <2>1, <2>3, <4>1
        <4>3. seqs[k] = SubSeq(w, a + 1, b) /\ a <= b /\ a \in 0 .. l /\ b \in 0 .. l /\ l \in Nat
          <5>1. seqs[k] = SubSeq(w, a + 1, b) /\ a <= b
            OBVIOUS
          <5>2. cut[k - 1] \in 0 .. Len(w) /\ cut[k] \in 0 .. Len(w)
            BY <3>1, <4>1
          <5>3. l \in Nat
            BY LenProperties, Zenon
          <5>4. QED
            BY <5>1, <5>2, <5>3, Zenon
        <4> HIDE DEF a, b, l
        <4>4. 1 \in 1 .. l + 1 /\ a \in 1 - 1 .. l /\ b \in a .. l
          BY <4>3
        <4>5. SubSeq(w, 1, a) \o SubSeq(w, a + 1, b) = SubSeq(w, 1, b)
          BY <4>4, ConcatAdjacentSubSeq, Zenon DEF l
        <4>6. f[k] = SubSeq(w, 1, b)
          BY <4>2, <4>3, <4>5, Zenon
        <4>7. QED
          BY <3>1, <4>6, Zenon DEF b
      <3>4. QED
        BY <3>2, <3>3
    <2>4. P \in SUBSET (0 .. n) /\ n \in 0 .. n
      OBVIOUS
    <2>5. n \in P
      <3> HIDE DEF P
      <3>1. QED
        BY <2>2, <2>3, <2>4, Upwards
    <2>6. f[n] = SubSeq(w, 1, Len(w))
      BY <1>2, <2>5
    <2>7. QED
      BY <2>1, <2>6, SubSeqFull, Zenon
  <1>3. QED
    BY <1>1, <1>2

\* One element of a sequence, as a part of it.
LEMMA OnePart ==
  ASSUME NEW w \in Seq(Nat), NEW i \in 1 .. Len(w)
  PROVE  SubSeq(w, i, i) = <<w[i]>>
  <1> DEFINE p == SubSeq(w, i, i)
             x == w[i]
  <1>1. i \in Int /\ \A j \in i .. i : w[j] \in Nat
    OBVIOUS
  <1>2. /\ p \in Seq(Nat) /\ Len(p) = IF i <= i THEN i - i + 1 ELSE 0
        /\ \A j \in 1 .. i - i + 1 : p[j] = w[i + j - 1]
    BY <1>1, SubSeqProperties
  <1> HIDE DEF p
  <1>3. i - i + 1 = 1 /\ i <= i /\ i + 1 - 1 = i /\ 1 \in 1 .. 1
    OBVIOUS
  <1>4. Len(p) = 1 /\ p[1] = x
    BY <1>2, <1>3
  <1>5. x \in Nat
    BY <1>1
  <1> HIDE DEF x
  <1>6. <<x>> \in Seq(Nat) /\ Len(<<x>>) = 1 /\ <<x>>[1] = x
    BY <1>5
  <1>7. \A j \in 1 .. Len(p) : p[j] = <<x>>[j]
    BY <1>4, <1>6
  <1>8. p = <<x>>
    BY <1>2, <1>4, <1>6, <1>7, SeqEqual, Zenon
  <1>9. QED
    BY <1>8, Zenon DEF p, x

\* s is w, but for a space at p.
OneSpace(s, n, p, w) ==
  /\ n \in Nat /\ Len(s) = n /\ p \in 1 .. n + 1
  /\ Len(w) = IF p <= n THEN n - 1 ELSE n
  /\ \A i \in 1 .. n : IF i = p THEN s[i] = Space ELSE s[i] = w[IF i < p THEN i ELSE i - 1]

\* It is passed over.
LEMMA SolidText ==
  ASSUME NEW w \in Seq(Nat), \A i \in 1 .. Len(w) : w[i] # Space,
         NEW s, NEW n, NEW p, OneSpace(s, n, p, w)
  PROVE  Solid(s) = w
  <1>0. /\ n \in Nat /\ Len(s) = n /\ p \in 1 .. n + 1
        /\ Len(w) = IF p <= n THEN n - 1 ELSE n
        /\ \A i \in 1 .. n : IF i = p THEN s[i] = Space ELSE s[i] = w[IF i < p THEN i ELSE i - 1]
    BY Zenon DEF OneSpace
  <1> DEFINE seqs == [i \in 1 .. n |-> IF s[i] = Space THEN <<>> ELSE <<s[i]>>]
             cut == [i \in 0 .. n |-> IF i < p THEN i ELSE i - 1]
             l == Len(w)
  <1>1. Solid(s) = FlattenSeq(seqs)
    BY <1>0, Zenon DEF Solid
  <1>2. Len(seqs) = n /\ (seqs = <<>> \/ n > 0)
    BY <1>0
  <1>3. \A i \in 0 .. n : cut[i] = IF i < p THEN i ELSE i - 1
    OBVIOUS
  <1>4. \A i \in 1 .. n : seqs[i] = IF s[i] = Space THEN <<>> ELSE <<s[i]>>
    BY Zenon
  <1>5. l \in Nat
    OBVIOUS
  <1>6. cut \in [0 .. n -> 0 .. l]
    <2>1. ASSUME NEW i \in 0 .. n PROVE (IF i < p THEN i ELSE i - 1) \in 0 .. l
      BY <1>0, <1>5
    <2> HIDE DEF l
    <2>2. QED
      BY <2>1
  <1>7. cut[0] = 0 /\ cut[n] = l
    BY <1>0
  <1> HIDE DEF seqs, cut, l
  <1>8. ASSUME NEW i \in 1 .. n
        PROVE  cut[i - 1] <= cut[i] /\ seqs[i] = SubSeq(w, cut[i - 1] + 1, cut[i])
    <2>1. i - 1 \in 0 .. n /\ i \in 0 .. n
      BY <1>0
    <2>2. /\ cut[i] = IF i < p THEN i ELSE i - 1
          /\ cut[i - 1] = IF i - 1 < p THEN i - 1 ELSE (i - 1) - 1
      BY <1>3, <2>1
    <2>3. CASE i = p
      <3>1. cut[i - 1] = i - 1 /\ cut[i] = i - 1 /\ i \in Int /\ i - 1 \in Int /\ i - 1 < i
        BY <1>0, <2>2, <2>3
      <3>2. SubSeq(w, i, i - 1) = <<>>
        BY <3>1, SubSeqEmpty, Zenon
      <3>3. seqs[i] = <<>>
        BY <1>0, <1>4, <2>3
      <3>4. cut[i - 1] + 1 = i /\ cut[i - 1] <= cut[i]
        BY <3>1
      <3>5. QED
        BY <3>1, <3>2, <3>3, <3>4
    <2>4. CASE i # p
      <3> DEFINE j == IF i < p THEN i ELSE i - 1
      <3>1. j \in 1 .. l /\ cut[i] = j /\ cut[i - 1] = j - 1
        BY <1>0, <1>5, <2>2, <2>4 DEF l
      <3>2. s[i] = w[j]
        BY <1>0, <2>4
      <3> HIDE DEF j
      <3>3. s[i] # Space
        BY <3>1, <3>2 DEF l
      <3>4. seqs[i] = <<w[j]>>
        BY <1>4, <3>2, <3>3, Zenon
      <3>5. SubSeq(w, j, j) = <<w[j]>>
        BY <3>1, OnePart, Zenon DEF l
      <3>6. (j - 1) + 1 = j /\ j - 1 <= j
        BY <1>5, <3>1
      <3>7. QED
        BY <3>1, <3>4, <3>5, <3>6, Zenon
    <2>5. QED
      BY <2>3, <2>4
  <1>9. FlattenSeq(seqs) = w
    BY <1>0, <1>2, <1>6, <1>7, <1>8, FlattenParts, Zenon DEF l
  <1>10. QED
    BY <1>1, <1>9, Zenon

\* What is as it was, or has a space put into it.
LEMMA WithoutSpace ==
  ASSUME NEW w \in Seq(Nat)
  PROVE  OneSpace(w, Len(w), Len(w) + 1, w)
  <1> DEFINE n == Len(w)
             p == n + 1
  <1>1. n \in Nat /\ p \in 1 .. n + 1 /\ Len(w) = IF p <= n THEN n - 1 ELSE n
    OBVIOUS
  <1>2. \A i \in 1 .. n : IF i = p THEN w[i] = Space ELSE w[i] = w[IF i < p THEN i ELSE i - 1]
    BY <1>1
  <1>3. QED
    BY <1>1, <1>2, Zenon DEF OneSpace

\* A space that is put into a text.
LEMMA Inserted ==
  ASSUME NEW w \in Seq(Nat), NEW k \in Nat, k < Len(w)
  PROVE  /\ InsertAt(w, k + 1, Space) \in Seq(Nat)
         /\ OneSpace(InsertAt(w, k + 1, Space), Len(w) + 1, k + 1, w)
  <1> DEFINE l == Len(w)
             x == Space
             a == SubSeq(w, 1, (k + 1) - 1)
             b == SubSeq(w, k + 1, l)
             c == <<x>>
             d == a \o c
             s == d \o b
  <1>1. InsertAt(w, k + 1, Space) = s
    BY Zenon DEF InsertAt
  <1>2. x \in Nat
    BY DEF Space
  <1> HIDE DEF x
  <1>3. l \in Nat /\ 1 \in Int /\ (k + 1) - 1 \in Int /\ k + 1 \in Int /\ l \in Int
    OBVIOUS
  <1>4. /\ a \in Seq(Nat) /\ Len(a) = k
        /\ \A i \in 1 .. k : a[i] = w[i]
    <2>1. \A i \in 1 .. (k + 1) - 1 : w[i] \in Nat
      OBVIOUS
    <2>2. /\ a \in Seq(Nat) /\ Len(a) = IF 1 <= (k + 1) - 1 THEN (k + 1) - 1 - 1 + 1 ELSE 0
          /\ \A i \in 1 .. (k + 1) - 1 - 1 + 1 : a[i] = w[1 + i - 1]
      BY <1>3, <2>1, SubSeqProperties
    <2> HIDE DEF a
    <2>3. QED
      BY <2>2
  <1>5. /\ b \in Seq(Nat) /\ Len(b) = l - k
        /\ \A i \in 1 .. l - k : b[i] = w[k + i]
    <2>1. \A i \in k + 1 .. l : w[i] \in Nat
      OBVIOUS
    <2>2. /\ b \in Seq(Nat) /\ Len(b) = IF k + 1 <= l THEN l - (k + 1) + 1 ELSE 0
          /\ \A i \in 1 .. l - (k + 1) + 1 : b[i] = w[k + 1 + i - 1]
      BY <1>3, <2>1, SubSeqProperties
    <2>3. l \in Nat /\ l - (k + 1) + 1 = l - k
          /\ (IF k + 1 <= l THEN l - (k + 1) + 1 ELSE 0) = l - k
      OBVIOUS
    <2>4. \A i \in 1 .. l - k : k + 1 + i - 1 = k + i
      OBVIOUS
    <2> HIDE DEF b, l
    <2>5. QED
      BY <2>2, <2>3, <2>4, Zenon
  <1>6. c \in Seq(Nat) /\ Len(c) = 1 /\ c[1] = x
    BY <1>2
  <1> HIDE DEF a, b, c, l
  <1>7. /\ d \in Seq(Nat) /\ Len(d) = k + 1
        /\ \A i \in 1 .. k + 1 : d[i] = IF i <= k THEN a[i] ELSE c[i - k]
    <2>1. /\ d \in Seq(Nat) /\ Len(d) = Len(a) + Len(c)
          /\ \A i \in 1 .. Len(a) + Len(c) : d[i] = IF i <= Len(a) THEN a[i] ELSE c[i - Len(a)]
      BY <1>4, <1>6, ConcatProperties, Zenon
    <2> HIDE DEF d
    <2>2. QED
      BY <1>4, <1>6, <2>1
  <1> HIDE DEF d
  <1>8. /\ s \in Seq(Nat) /\ Len(s) = l + 1
        /\ \A i \in 1 .. l + 1 : s[i] = IF i <= k + 1 THEN d[i] ELSE b[i - (k + 1)]
    <2>1. /\ s \in Seq(Nat) /\ Len(s) = Len(d) + Len(b)
          /\ \A i \in 1 .. Len(d) + Len(b) : s[i] = IF i <= Len(d) THEN d[i] ELSE b[i - Len(d)]
      BY <1>5, <1>7, ConcatProperties, Zenon
    <2> HIDE DEF s
    <2>2. QED
      BY <1>3, <1>5, <1>7, <2>1
  <1> HIDE DEF s
  <1> DEFINE n == l + 1
             p == k + 1
  <1>9. n \in Nat /\ p \in 1 .. n + 1 /\ p <= n /\ Len(w) = IF p <= n THEN n - 1 ELSE n
    BY <1>3 DEF l
  <1>10. ASSUME NEW i \in 1 .. n
         PROVE  IF i = p THEN s[i] = x ELSE s[i] = w[IF i < p THEN i ELSE i - 1]
    <2>1. CASE i < p
      <3>1. i \in 1 .. k /\ i <= k /\ i <= k + 1 /\ i \in 1 .. k + 1 /\ i # p
        BY <2>1
      <3>2. QED
        BY <1>4, <1>7, <1>8, <2>1, <3>1
    <2>2. CASE i = p
      <3>1. i \in 1 .. k + 1 /\ ~(i <= k) /\ i - k = 1 /\ i <= k + 1
        BY <2>2
      <3>2. QED
        BY <1>6, <1>7, <1>8, <2>2, <3>1
    <2>3. CASE i > p
      <3>1. /\ ~(i <= k + 1) /\ i - (k + 1) \in 1 .. l - k /\ k + (i - (k + 1)) = i - 1
            /\ i # p /\ ~(i < p)
        BY <1>3, <2>3
      <3>2. s[i] = w[i - 1]
        BY <1>5, <1>8, <3>1
      <3>3. QED
        BY <3>1, <3>2
    <2>4. QED
      BY <2>1, <2>2, <2>3
  <1> HIDE DEF n, p
  <1>11. Len(s) = n
    BY <1>8 DEF n
  <1>12. OneSpace(s, n, p, w)
    BY <1>9, <1>10, <1>11, Zenon DEF OneSpace, x
  <1>13. QED
    BY <1>1, <1>8, <1>12, Zenon DEF n, p, l

\* v is w as far as s goes, which is v but for a space.
LeftOf(s, m, v, w) ==
  /\ v \in Seq(Nat) /\ Len(v) \in {m - 1, m}
  /\ \A i \in 1 .. Len(v) : v[i] = w[i]
  /\ \E p : OneSpace(s, m, p, v)

\* A text that has a space put into it, cut: what is left of it, with or without the space.
LEMMA SpaceCut ==
  ASSUME NEW w \in Seq(Nat), NEW t \in Seq(Nat), NEW n, NEW p, OneSpace(t, n, p, w),
         NEW m \in Nat, m <= n
  PROVE  \E v : LeftOf(SubSeq(t, 1, m), m, v, w)
  <1> DEFINE s == SubSeq(t, 1, m)
             j == IF p <= m THEN m - 1 ELSE m
             v == SubSeq(w, 1, j)
             o == IF p <= m THEN p ELSE m + 1
  <1>1. /\ n \in Nat /\ Len(t) = n /\ p \in 1 .. n + 1
        /\ Len(w) = IF p <= n THEN n - 1 ELSE n
        /\ \A i \in 1 .. n : IF i = p THEN t[i] = Space ELSE t[i] = w[IF i < p THEN i ELSE i - 1]
    BY Zenon DEF OneSpace
  <1>2. /\ s \in Seq(Nat) /\ Len(s) = m
        /\ \A i \in 1 .. m : s[i] = t[i]
    <2>1. m \in Nat /\ m <= Len(t)
      BY <1>1
    <2>2. QED
      BY ONLY <2>1, t \in Seq(Nat)
  <1>3. j \in Nat /\ j <= Len(w) /\ j \in {m - 1, m} /\ (j = m - 1 => p <= n)
        /\ o \in 1 .. m + 1 /\ j = IF o <= m THEN m - 1 ELSE m
    BY <1>1
  <1> HIDE DEF j
  <1>4. v \in Seq(Nat) /\ Len(v) = j /\ \A i \in 1 .. j : v[i] = w[i]
    BY <1>3
  <1> HIDE DEF s, v
  <1>5. ASSUME NEW i \in 1 .. m
        PROVE  IF i = o THEN s[i] = Space ELSE s[i] = v[IF i < o THEN i ELSE i - 1]
    <2>1. i \in 1 .. n /\ (i = o <=> i = p) /\ (i < o <=> i < p)
      BY <1>1
    <2>2. IF i = p THEN s[i] = Space ELSE s[i] = w[IF i < p THEN i ELSE i - 1]
      BY <1>1, <1>2, <2>1
    <2>3. i # o => (IF i < o THEN i ELSE i - 1) \in 1 .. j
      BY <1>3
    <2> HIDE DEF o
    <2>4. QED
      BY <1>4, <2>1, <2>2, <2>3
  <1> HIDE DEF o
  <1>6. OneSpace(s, m, o, v)
    BY <1>2, <1>3, <1>4, <1>5, Zenon DEF OneSpace
  <1>7. LeftOf(s, m, v, w)
    BY <1>3, <1>4, <1>6, Zenon DEF LeftOf
  <1>8. QED
    BY <1>7, Zenon DEF s

\* Where a position is among groups of four.
LEMMA InFours ==
  ASSUME NEW g \in Nat \ {0}, NEW k \in 1 .. 4
  PROVE  (4 * g - 4 + k + 3) \div 4 = g /\ ((4 * g - 4 + k + 3) % 4) + 1 = k
  OBVIOUS

\* And every position is in one.
LEMMA FoursCover ==
  ASSUME NEW n \in Nat, NEW i \in 1 .. 4 * n
  PROVE  (i + 3) \div 4 \in 1 .. n /\ ((i + 3) % 4) + 1 \in 1 .. 4
  OBVIOUS

\* Groups of four, flattened.
InGroups(w, n, seqs) ==
  /\ w \in Seq(Nat) /\ Len(w) = 4 * n
  /\ \A g \in 1 .. n : SubSeq(w, 4 * g - 3, 4 * g) = seqs[g]
  /\ \A i \in 1 .. 4 * n : \E g \in 1 .. n, k \in 1 .. 4 : w[i] = seqs[g][k]

\* What groups of four flatten to.
LEMMA FoursFlat ==
  ASSUME NEW n \in Nat, NEW seqs, Len(seqs) = n, seqs = <<>> \/ n > 0,
         \A g \in 1 .. n : seqs[g] \in Seq(Nat) /\ Len(seqs[g]) = 4
  PROVE  InGroups(FlattenSeq(seqs), n, seqs)
  <1> DEFINE At(i) == seqs[(i + 3) \div 4][((i + 3) % 4) + 1]
             w == [i \in 1 .. 4 * n |-> At(i)]
             cut == [g \in 0 .. n |-> 4 * g]
  <1>1. ASSUME NEW g \in 1 .. n, NEW k \in 1 .. 4 PROVE seqs[g][k] \in Nat
    <2>1. seqs[g] \in Seq(Nat) /\ k \in 1 .. Len(seqs[g])
      OBVIOUS
    <2>2. QED
      BY <2>1
  <1>2. ASSUME NEW i \in 1 .. 4 * n PROVE At(i) \in Nat
    BY <1>1, FoursCover
  <1> HIDE DEF At
  <1>3. 4 * n \in Nat
    OBVIOUS
  <1>4. w \in Seq(Nat) /\ Len(w) = 4 * n /\ \A i \in 1 .. 4 * n : w[i] = At(i)
    BY <1>2, <1>3
  <1>5. \A g \in 0 .. n : cut[g] = 4 * g
    OBVIOUS
  <1>6. cut \in [0 .. n -> 0 .. 4 * n]
    OBVIOUS
  <1> HIDE DEF w, cut
  <1>7. ASSUME NEW g \in 1 .. n PROVE SubSeq(w, 4 * g - 3, 4 * g) = seqs[g]
    <2> DEFINE m == 4 * g - 3
               j == 4 * g
               p == SubSeq(w, m, j)
               s == seqs[g]
    <2>1. m \in Int /\ j \in Int /\ m <= j /\ j - m + 1 = 4
      OBVIOUS
    <2>2. \A i \in m .. j : w[i] \in Nat
      <3>1. \A i \in m .. j : i \in 1 .. 4 * n
        OBVIOUS
      <3>2. QED
        BY <1>2, <1>4, <3>1, Zenon
    <2> HIDE DEF m, j
    <2>3. /\ p \in Seq(Nat) /\ Len(p) = 4
          /\ \A i \in 1 .. 4 : p[i] = w[m + i - 1]
      <3>1. /\ p \in Seq(Nat) /\ Len(p) = IF m <= j THEN j - m + 1 ELSE 0
            /\ \A i \in 1 .. j - m + 1 : p[i] = w[m + i - 1]
        BY <2>1, <2>2, SubSeqProperties
      <3> HIDE DEF p
      <3>2. QED
        BY <2>1, <3>1
    <2> HIDE DEF p
    <2>4. ASSUME NEW k \in 1 .. 4 PROVE p[k] = s[k]
      <3> DEFINE i == 4 * g - 4 + k
      <3>1. i \in 1 .. 4 * n /\ m + k - 1 = i
        BY DEF m
      <3>2. w[i] = seqs[(i + 3) \div 4][((i + 3) % 4) + 1]
        BY <1>4, <3>1, Zenon DEF At
      <3>3. (i + 3) \div 4 = g /\ ((i + 3) % 4) + 1 = k
        BY InFours
      <3>4. p[k] = w[i]
        BY <2>3, <3>1
      <3> HIDE DEF i
      <3>5. QED
        BY <3>2, <3>3, <3>4
    <2>5. s \in Seq(Nat) /\ Len(s) = 4
      OBVIOUS
    <2> HIDE DEF s
    <2>6. \A k \in 1 .. Len(p) : p[k] = s[k]
      BY <2>3, <2>4, Zenon
    <2>7. p = s
      BY <2>3, <2>5, <2>6, SeqEqual, Zenon
    <2>8. QED
      BY <2>7, Zenon DEF p, s, m, j
  <1>8. FlattenSeq(seqs) = w
    <2>1. cut[0] = 0 /\ cut[n] = Len(w)
      BY <1>4, <1>5
    <2>2. ASSUME NEW g \in 1 .. n
          PROVE  cut[g - 1] <= cut[g] /\ seqs[g] = SubSeq(w, cut[g - 1] + 1, cut[g])
      <3>1. /\ g - 1 \in 0 .. n /\ g \in 0 .. n /\ 4 * (g - 1) + 1 = 4 * g - 3
            /\ 4 * (g - 1) <= 4 * g
        OBVIOUS
      <3>2. cut[g - 1] = 4 * (g - 1) /\ cut[g] = 4 * g
        BY <1>5, <3>1
      <3>3. QED
        BY <1>7, <3>1, <3>2
    <2>3. cut \in [0 .. n -> 0 .. Len(w)]
      BY <1>4, <1>6, Zenon
    <2>4. QED
      BY <1>4, <2>1, <2>2, <2>3, FlattenParts, ZenonT(60)
  <1>9. ASSUME NEW i \in 1 .. 4 * n
        PROVE  \E g \in 1 .. n, k \in 1 .. 4 : w[i] = seqs[g][k]
    BY <1>4, FoursCover DEF At
  <1>10. QED
    BY <1>4, <1>7, <1>8, <1>9, ZenonT(60) DEF InGroups

\* A number as its last six bits and what is before them.
LEMMA SixBits ==
  ASSUME NEW t \in Nat
  PROVE  t % 64 \in 0 .. 63 /\ t \div 64 \in Nat /\ t = 64 * (t \div 64) + (t % 64)
  OBVIOUS

\* A number as its last byte and what is before it.
LEMMA LastByte ==
  ASSUME NEW t, NEW u \in Nat, NEW z \in 0 .. 255, t = u * 256 + z
  PROVE  t \in Nat /\ t \div 256 = u /\ t % 256 = z
  OBVIOUS

\* What the digits of three bytes are.
SixesOf(t, x, y, z) ==
  /\ t \in Nat
  /\ ((t \div 64) \div 64) \div 64 \in 0 .. 63 /\ ((t \div 64) \div 64) % 64 \in 0 .. 63
  /\ (t \div 64) % 64 \in 0 .. 63 /\ t % 64 \in 0 .. 63
  /\ (((((t \div 64) \div 64) \div 64) * 64 + (((t \div 64) \div 64) % 64)) * 64
        + ((t \div 64) % 64)) * 64 + (t % 64) = t
  /\ (t \div 256) \div 256 = x /\ (t \div 256) % 256 = y /\ t % 256 = z
  /\ z = 0 => t % 64 = 0
  /\ y = 0 /\ z = 0 => (t \div 64) % 64 = 0

\* Three bytes as four digits of six bits, and back.
LEMMA FourDigits ==
  ASSUME NEW x \in 0 .. 255, NEW y \in 0 .. 255, NEW z \in 0 .. 255,
         NEW t, t = (x * 256 + y) * 256 + z
  PROVE  SixesOf(t, x, y, z)
  <1> DEFINE a == t \div 64
             b == a \div 64
             c == b \div 64
             v == t % 64
             w == a % 64
             q == b % 64
             s == x * 256 + y
  <1>1. s \in Nat /\ s <= 256 * 256 - 1 /\ t = s * 256 + z
    OBVIOUS
  <1>2. s \div 256 = x /\ s % 256 = y
    BY LastByte
  <1> HIDE DEF s
  <1>3. t \in Nat /\ t \div 256 = s /\ t % 256 = z
    BY <1>1, LastByte
  <1>4. v \in 0 .. 63 /\ a \in Nat /\ t = 64 * a + v
    BY <1>3, SixBits
  <1> HIDE DEF a
  <1>5. w \in 0 .. 63 /\ b \in Nat /\ a = 64 * b + w
    BY <1>4, SixBits
  <1> HIDE DEF b
  <1>6. q \in 0 .. 63 /\ c \in Nat /\ b = 64 * c + q
    BY <1>5, SixBits
  <1> HIDE DEF c, v, w, q
  <1>7. c \in 0 .. 63
    BY <1>1, <1>4, <1>5, <1>6
  <1>8. ((c * 64 + q) * 64 + w) * 64 + v = t
    BY <1>3, <1>4, <1>5, <1>6
  <1>9. z = 0 => v = 0
    BY <1>1, <1>4
  <1>10. y = 0 /\ z = 0 => w = 0
    <2>1. SUFFICES ASSUME y = 0, z = 0 PROVE w = 0
      OBVIOUS
    <2>2. v = 0 /\ s = x * 256
      BY <1>9, <2>1 DEF s
    <2>3. 64 * a = (x * 256) * 256
      BY <1>1, <1>4, <2>1, <2>2, SMT
    <2>4. a = x * 1024
      BY <1>4, <2>3, SMT
    <2>5. QED
      BY <1>5, <2>4
  <1>11. (t \div 256) \div 256 = x /\ (t \div 256) % 256 = y
    <2> DEFINE e == t \div 256
    <2>1. e = s
      BY <1>3
    <2> HIDE DEF e, s
    <2>2. e \div 256 = x /\ e % 256 = y
      BY <1>2, <2>1, SMT
    <2>3. QED
      BY <2>2, SMT DEF e
  <1>12. /\ c = ((t \div 64) \div 64) \div 64 /\ q = ((t \div 64) \div 64) % 64
         /\ w = (t \div 64) % 64 /\ v = t % 64
    BY Zenon DEF a, b, c, v, w, q
  <1>13. /\ ((t \div 64) \div 64) \div 64 \in 0 .. 63 /\ ((t \div 64) \div 64) % 64 \in 0 .. 63
         /\ (t \div 64) % 64 \in 0 .. 63 /\ t % 64 \in 0 .. 63
    BY <1>4, <1>5, <1>6, <1>7, <1>12, Zenon
  <1>14. (((((t \div 64) \div 64) \div 64) * 64 + (((t \div 64) \div 64) % 64)) * 64
            + ((t \div 64) % 64)) * 64 + (t % 64) = t
    BY <1>8, <1>12, Zenon
  <1>15. (z = 0 => t % 64 = 0) /\ (y = 0 /\ z = 0 => (t \div 64) % 64 = 0)
    BY <1>9, <1>10, <1>12, Zenon
  <1>16. QED
    BY <1>3, <1>11, <1>13, <1>14, <1>15, Zenon DEF SixesOf

\* The three bytes of a group.
ByteAt(b, i) == IF i <= Len(b) THEN b[i] ELSE 0

\* What a group is made of.
LEMMA GroupBytes ==
  ASSUME NEW b \in Seq(Byte), NEW g \in 1 .. (Len(b) + 2) \div 3
  PROVE  /\ 3 * g - 2 \in 1 .. Len(b)
         /\ ByteAt(b, 3 * g - 2) \in 0 .. 255 /\ ByteAt(b, 3 * g - 1) \in 0 .. 255
         /\ ByteAt(b, 3 * g) \in 0 .. 255
         /\ Triple(b, g) = (ByteAt(b, 3 * g - 2) * 256 + ByteAt(b, 3 * g - 1)) * 256 + ByteAt(b, 3 * g)
  <1>1. Len(b) \in Nat /\ \A i \in 1 .. Len(b) : b[i] \in 0 .. 255
    BY BytesAre DEF Byte
  <1>2. 3 * g - 2 \in 1 .. Len(b) /\ 3 * g - 1 \in Nat \ {0} /\ 3 * g \in Nat \ {0}
    BY <1>1
  <1>3. ASSUME NEW i \in Nat \ {0} PROVE ByteAt(b, i) \in 0 .. 255
    BY <1>1 DEF ByteAt
  <1>4. Triple(b, g) = (ByteAt(b, 3 * g - 2) * 256 + ByteAt(b, 3 * g - 1)) * 256 + ByteAt(b, 3 * g)
    BY Zenon DEF Triple, ByteAt
  <1>5. QED
    BY <1>2, <1>3, <1>4

\* A digit, and how many bytes are read, when r and s are the last two of a quartet.
Unpadded(c) == IF c = Pad THEN 0 ELSE c
Read(r, s) == IF r = Pad THEN 1 ELSE IF s = Pad THEN 2 ELSE 3

\* What a quartet is read as, by the number of pads at its end.
Three(t) == <<(t \div 256) \div 256, (t \div 256) % 256, t % 256>>
Written(p, q, r, s, t) ==
  /\ p \in 0 .. 63 /\ q \in 0 .. 63 /\ r \in 0 .. Pad /\ s \in 0 .. Pad
  /\ r = Pad => s = Pad
  /\ t = ((p * 64 + q) * 64 + Unpadded(r)) * 64 + Unpadded(s)

\* A quartet that was written is read.
LEMMA QuartetRead ==
  ASSUME NEW p, NEW q, NEW r, NEW s, NEW t, Written(p, q, r, s, t)
  PROVE  QuartetBytes(<<p, q, r, s>>)
           = SubSeq(Three(t), 1, Read(r, s))
  <1> DEFINE d == <<p, q, r, s>>
             Digit(k) == IF d[k] = Pad THEN 0 ELSE d[k]
             sum == ((Digit(1) * 64 + Digit(2)) * 64 + Digit(3)) * 64 + Digit(4)
             pads == {k \in 1 .. 4 : d[k] = Pad}
             size == IF pads = {} THEN 3 ELSE IF \E k \in 1 .. 4 : pads = {k} THEN 2 ELSE 1
  <1>0. /\ p \in 0 .. 63 /\ q \in 0 .. 63 /\ r \in 0 .. Pad /\ s \in 0 .. Pad
        /\ r = Pad => s = Pad
        /\ t = ((p * 64 + q) * 64 + Unpadded(r)) * 64 + Unpadded(s)
    BY Zenon DEF Written
  <1>1. QuartetBytes(d)
          = SubSeq(Three(sum), 1, size)
    BY ZenonT(40) DEF QuartetBytes, Three
  <1>2. d[1] = p /\ d[2] = q /\ d[3] = r /\ d[4] = s
    OBVIOUS
  <1>3. p # Pad /\ q # Pad
    BY <1>0 DEF Pad
  <1>4. Digit(1) = p /\ Digit(2) = q /\ Digit(3) = Unpadded(r) /\ Digit(4) = Unpadded(s)
    BY <1>2, <1>3, Zenon DEF Unpadded
  <1>5. sum = t
    BY <1>0, <1>4, ZenonT(60)
  <1>6. size = Read(r, s)
    <2> USE DEF Read
    <2> HIDE DEF d
    <2>1. CASE r = Pad
      <3>1. 3 \in pads /\ 4 \in pads
        BY <1>0, <1>2, <2>1
      <3> HIDE DEF pads
      <3>2. pads # {} /\ ~ \E k \in 1 .. 4 : pads = {k}
        BY <3>1
      <3>3. QED
        BY <2>1, <3>2
    <2>2. CASE r # Pad /\ s = Pad
      <3>1. pads = {4}
        BY <1>2, <1>3, <2>2
      <3> HIDE DEF pads
      <3>2. pads # {} /\ \E k \in 1 .. 4 : pads = {k}
        BY <3>1
      <3>3. QED
        BY <2>2, <3>2
    <2>3. CASE r # Pad /\ s # Pad
      <3>1. pads = {}
        BY <1>2, <1>3, <2>3
      <3> HIDE DEF pads
      <3>2. QED
        BY <2>3, <3>1
    <2>4. QED
      BY <2>1, <2>2, <2>3
  <1> HIDE DEF sum, size
  <1>7. QED
    BY <1>1, <1>5, <1>6

\* A quartet d, and the three bytes v that it stands for.
BytesOf(t, x, y, z) == (t \div 256) \div 256 = x /\ (t \div 256) % 256 = y /\ t % 256 = z
Reads(d, v, m) == QuartetBytes(d) = SubSeq(v, 1, m)
IsQuartet(d, p, q, r, s) == d = <<p, q, r, s>>
IsTriple(v, x, y, z) == v = <<x, y, z>>

\* The three bytes, by name.
LEMMA ThreeBytes ==
  ASSUME NEW t, NEW x, NEW y, NEW z, BytesOf(t, x, y, z), NEW v, IsTriple(v, x, y, z)
  PROVE  Three(t) = v
  <1>1. /\ (t \div 256) \div 256 = x /\ (t \div 256) % 256 = y /\ t % 256 = z
        /\ v = <<x, y, z>>
    BY DEF BytesOf, IsTriple
  <1>2. QED
    BY <1>1 DEF Three

\* And what is read of them.
LEMMA QuartetReads ==
  ASSUME NEW p, NEW q, NEW r, NEW s, NEW t, NEW v, NEW m, NEW d,
         Written(p, q, r, s, t), IsQuartet(d, p, q, r, s), Three(t) = v, Read(r, s) = m
  PROVE  Reads(d, v, m)
  <1>1. QuartetBytes(<<p, q, r, s>>) = SubSeq(Three(t), 1, Read(r, s))
    <2>1. Written(p, q, r, s, t)
      OBVIOUS
    <2>2. QED
      BY ONLY <2>1, QuartetRead, SMT
  <1>2. d = <<p, q, r, s>>
    BY DEF IsQuartet
  <1>3. QED
    BY ONLY <1>1, <1>2, Three(t) = v, Read(r, s) = m, SMT DEF Reads

\* A group is read as the bytes it was made of.
LEMMA GroupRead ==
  ASSUME NEW b \in Seq(Byte), NEW g \in 1 .. (Len(b) + 2) \div 3
  PROVE  /\ GroupDigits(b, g) \in Seq(Nat) /\ Len(GroupDigits(b, g)) = 4
         /\ \A k \in 1 .. 4 : GroupDigits(b, g)[k] \in 0 .. Pad
         /\ (\E k \in 1 .. 4 : GroupDigits(b, g)[k] = Pad) <=> ~(3 * g <= Len(b))
         /\ QuartetBytes(GroupDigits(b, g))
              = SubSeq(b, 3 * g - 2, IF 3 * g <= Len(b) THEN 3 * g ELSE Len(b))
  <1> DEFINE n == Len(b)
             x == ByteAt(b, 3 * g - 2)
             y == ByteAt(b, 3 * g - 1)
             z == ByteAt(b, 3 * g)
             t == Triple(b, g)
             p == ((t \div 64) \div 64) \div 64
             q == ((t \div 64) \div 64) % 64
             r0 == (t \div 64) % 64
             s0 == t % 64
             r == IF 3 * g - 1 <= n THEN r0 ELSE Pad
             s == IF 3 * g <= n THEN s0 ELSE Pad
             d == <<p, q, r, s>>
             v == <<x, y, z>>
             m == Read(r, s)
  <1>1. GroupDigits(b, g) = d
    BY Zenon DEF GroupDigits
  <1>2. /\ 3 * g - 2 \in 1 .. n /\ x \in 0 .. 255 /\ y \in 0 .. 255 /\ z \in 0 .. 255
        /\ t = (x * 256 + y) * 256 + z
    BY GroupBytes
  <1>3. /\ n \in Nat /\ g \in Nat /\ 3 * g - 2 <= n /\ 3 * g <= n + 2
    BY <1>2
  <1>4. /\ x = b[3 * g - 2]
        /\ y = IF 3 * g - 1 <= n THEN b[3 * g - 1] ELSE 0
        /\ z = IF 3 * g <= n THEN b[3 * g] ELSE 0
    BY <1>3, Zenon DEF ByteAt
  <1> HIDE DEF x, y, z, t
  <1>5. /\ t \in Nat /\ p \in 0 .. 63 /\ q \in 0 .. 63 /\ r0 \in 0 .. 63 /\ s0 \in 0 .. 63
        /\ ((p * 64 + q) * 64 + r0) * 64 + s0 = t
        /\ (t \div 256) \div 256 = x /\ (t \div 256) % 256 = y /\ t % 256 = z
        /\ z = 0 => s0 = 0
        /\ y = 0 /\ z = 0 => r0 = 0
    <2>1. SixesOf(t, x, y, z)
      BY <1>2, FourDigits, Zenon
    <2>2. QED
      BY <2>1, Zenon DEF SixesOf
  <1> HIDE DEF p, q, r0, s0
  <1>6. Pad \in Nat /\ Pad > 63
    BY DEF Pad
  <1>7. /\ r \in 0 .. Pad /\ s \in 0 .. Pad /\ (r = Pad => s = Pad)
        /\ r = Pad <=> ~(3 * g - 1 <= n)
        /\ s = Pad <=> ~(3 * g <= n)
    BY <1>3, <1>5, <1>6
  <1>8. Unpadded(r) = r0 /\ Unpadded(s) = s0
    BY <1>3, <1>4, <1>5, <1>6, <1>7 DEF Unpadded
  <1>9. QuartetBytes(d) = SubSeq(v, 1, m)
    <2>1. t = ((p * 64 + q) * 64 + Unpadded(r)) * 64 + Unpadded(s)
      BY <1>5, <1>8, Zenon
    <2>2. IsQuartet(d, p, q, r, s) /\ IsTriple(v, x, y, z) /\ Read(r, s) = m
      BY Zenon DEF IsQuartet, IsTriple
    <2> HIDE DEF r, s, d, v, m
    <2>3. Written(p, q, r, s, t)
      BY <1>5, <1>7, <2>1, Zenon DEF Written
    <2>4. Three(t) = v
      <3>1. BytesOf(t, x, y, z)
        BY <1>5, Zenon DEF BytesOf
      <3>2. QED
        BY <2>2, <3>1, ThreeBytes, Zenon
    <2>5. Reads(d, v, m)
      BY <2>2, <2>3, <2>4, QuartetReads, Zenon
    <2>6. QED
      BY <2>5, Zenon DEF Reads
  <1>10. /\ d \in Seq(Nat) /\ Len(d) = 4 /\ \A k \in 1 .. 4 : d[k] \in 0 .. Pad
    BY <1>5, <1>6, <1>7
  <1>11. (\E k \in 1 .. 4 : d[k] = Pad) <=> ~(3 * g <= n)
    <2>1. d[1] = p /\ d[2] = q /\ d[3] = r /\ d[4] = s /\ p # Pad /\ q # Pad
      BY <1>5, <1>6
    <2> HIDE DEF d, r, s
    <2>2. QED
      BY <1>7, <2>1
  <1> DEFINE j == IF 3 * g <= n THEN 3 * g ELSE n
             w == SubSeq(v, 1, m)
  <1>12. j \in Nat /\ j <= n /\ m = j - (3 * g - 2) + 1 /\ m \in 1 .. 3
    BY <1>3, <1>7 DEF Read
  <1>13. v \in Seq(Byte) /\ Len(v) = 3 /\ v[1] = x /\ v[2] = y /\ v[3] = z
    BY <1>2 DEF Byte
  <1>14. ASSUME NEW i \in 1 .. m PROVE v[i] = b[(3 * g - 2) - 1 + i]
    <2>1. CASE i = 1
      <3>1. (3 * g - 2) - 1 + i = 3 * g - 2
        BY <2>1
      <3>2. QED
        BY <1>4, <1>13, <2>1, <3>1
    <2>2. CASE i = 2
      <3>1. (3 * g - 2) - 1 + i = 3 * g - 1 /\ 3 * g - 1 <= n
        BY <1>7, <2>2 DEF Read
      <3>2. QED
        BY <1>4, <1>13, <2>2, <3>1
    <2>3. CASE i = 3
      <3>1. (3 * g - 2) - 1 + i = 3 * g /\ 3 * g <= n
        BY <1>7, <2>3 DEF Read
      <3>2. QED
        BY <1>4, <1>13, <2>3, <3>1
    <2>4. QED
      BY <1>12, <2>1, <2>2, <2>3
  <1> HIDE DEF v, m, j, d
  <1>15. w \in Seq(Byte) /\ Len(w) = m /\ \A i \in 1 .. m : w[i] = v[i]
    <2>1. m \in Nat /\ 1 \in Nat /\ 1 <= 1 /\ 1 + m <= Len(v) + 1 /\ 1 + m - 1 = m
      BY <1>12, <1>13
    <2>2. /\ SubSeq(v, 1, 1 + m - 1) \in Seq(Byte) /\ Len(SubSeq(v, 1, 1 + m - 1)) = m
          /\ \A i \in 1 .. m : SubSeq(v, 1, 1 + m - 1)[i] = v[1 - 1 + i]
      BY <1>13, <2>1, BytesPart, Zenon
    <2>3. \A i \in 1 .. m : 1 - 1 + i = i
      BY <1>12
    <2>4. QED
      BY <2>1, <2>2, <2>3, Zenon
  <1> HIDE DEF w
  <1>16. SubSeq(b, 3 * g - 2, j) = w
    <2>1. /\ 3 * g - 2 \in Nat /\ j \in Nat /\ 1 <= 3 * g - 2
          /\ j = (3 * g - 2) + m - 1 /\ j <= Len(b)
      BY <1>2, <1>3, <1>12 DEF n
    <2>2. \A i \in 1 .. m : b[(3 * g - 2) - 1 + i] = w[i]
      BY <1>14, <1>15
    <2> DEFINE o == 3 * g - 2
    <2>3. /\ o \in Nat /\ j \in Nat /\ 1 <= o /\ j = o + Len(w) - 1 /\ j <= Len(b)
          /\ \A i \in 1 .. Len(w) : b[o - 1 + i] = w[i]
      BY <1>15, <2>1, <2>2, Zenon
    <2> HIDE DEF o
    <2>4. SubSeq(b, o, j) = w
      BY <1>15, <2>3, PartIs, Zenon
    <2>5. QED
      BY <2>4, Zenon DEF o
  <1>17. QuartetBytes(d) = SubSeq(b, 3 * g - 2, j)
    BY <1>9, <1>16, Zenon DEF w
  <1>18. QED
    BY <1>1, <1>10, <1>11, <1>17, Zenon DEF j, n

\* What is known of the BASE64 digits of some bytes: k groups of four.
Coded(w, b, k) ==
  /\ k \in Nat /\ 3 * k <= Len(b) + 2 /\ Len(b) <= 3 * k
  /\ w \in Seq(Nat) /\ Len(w) = 4 * k
  /\ \A i \in 1 .. Len(w) : w[i] \in 0 .. Pad
  /\ \A g \in 1 .. k : QuartetAt(w, g) = GroupDigits(b, g)

\* The digits of an encoded text.
LEMMA EncodeCodes ==
  ASSUME NEW b \in Seq(Byte)
  PROVE  Coded(Base64Encode(b), b, (Len(b) + 2) \div 3)
  <1> DEFINE k == (Len(b) + 2) \div 3
             seqs == [g \in 1 .. k |-> GroupDigits(b, g)]
             w == FlattenSeq(seqs)
  <1>1. Base64Encode(b) = w
    BY Zenon DEF Base64Encode
  <1>2. k \in Nat /\ 3 * k <= Len(b) + 2 /\ Len(b) <= 3 * k
    OBVIOUS
  <1>3. ASSUME NEW g \in 1 .. k
        PROVE  /\ GroupDigits(b, g) \in Seq(Nat) /\ Len(GroupDigits(b, g)) = 4
               /\ \A i \in 1 .. 4 : GroupDigits(b, g)[i] \in 0 .. Pad
    BY GroupRead, Zenon
  <1> HIDE DEF k
  <1>4. Len(seqs) = k /\ (seqs = <<>> \/ k > 0) /\ \A g \in 1 .. k : seqs[g] = GroupDigits(b, g)
    BY <1>2
  <1> HIDE DEF seqs
  <1>5. \A g \in 1 .. k : seqs[g] \in Seq(Nat) /\ Len(seqs[g]) = 4
    BY <1>3, <1>4, Zenon
  <1>6. /\ w \in Seq(Nat) /\ Len(w) = 4 * k
        /\ \A g \in 1 .. k : SubSeq(w, 4 * g - 3, 4 * g) = seqs[g]
        /\ \A i \in 1 .. 4 * k : \E g \in 1 .. k, j \in 1 .. 4 : w[i] = seqs[g][j]
    <2>1. InGroups(w, k, seqs)
      BY <1>2, <1>4, <1>5, FoursFlat
    <2>2. QED
      BY <2>1, Zenon DEF InGroups
  <1> HIDE DEF w
  <1>7. ASSUME NEW i \in 1 .. Len(w) PROVE w[i] \in 0 .. Pad
    <2>1. i \in 1 .. 4 * k
      BY <1>6, Zenon
    <2>2. PICK g \in 1 .. k, j \in 1 .. 4 : w[i] = seqs[g][j]
      BY <1>6, <2>1, Zenon
    <2>3. QED
      BY <1>3, <1>4, <2>2, Zenon
  <1>8. ASSUME NEW g \in 1 .. k PROVE QuartetAt(w, g) = GroupDigits(b, g)
    <2> DEFINE j == 4 * g
    <2>1. j <= Len(w)
      BY <1>2, <1>6
    <2> HIDE DEF j
    <2>2. QuartetAt(w, g) = SubSeq(w, 4 * g - 3, j)
      BY <2>1, Zenon DEF QuartetAt, j
    <2>3. QED
      BY <1>4, <1>6, <2>2, Zenon DEF j
  <1>9. Coded(w, b, k)
    BY <1>2, <1>6, <1>7, <1>8, Zenon DEF Coded
  <1>10. QED
    BY <1>1, <1>9, Zenon DEF k

\* The groups that a decoder finds in them: it looks at the l-th last, and that is the last
\* one there is if it is padded, otherwise there is nothing left.
GoodAt(w, q) == Len(QuartetAt(w, q)) = 4 /\ Other \notin ToSet(QuartetAt(w, q))
MoreAt(w, q) == GoodAt(w, q) /\ Pad \notin ToSet(QuartetAt(w, q))

\* What a decoder finds at each place of such a text.
LEMMA CodedQuartets ==
  ASSUME NEW b \in Seq(Byte), NEW k, NEW w, Coded(w, b, k)
  PROVE  /\ \A q \in 1 .. k : GoodAt(w, q) /\ (MoreAt(w, q) <=> 3 * q <= Len(b))
         /\ QuartetAt(w, k + 1) = <<>> /\ ~GoodAt(w, k + 1)
  <1>1. /\ k \in Nat /\ 3 * k <= Len(b) + 2 /\ Len(b) <= 3 * k
        /\ w \in Seq(Nat) /\ Len(w) = 4 * k
        /\ \A g \in 1 .. k : QuartetAt(w, g) = GroupDigits(b, g)
    BY Zenon DEF Coded
  <1>2. ASSUME NEW q \in 1 .. k
        PROVE  GoodAt(w, q) /\ (MoreAt(w, q) <=> 3 * q <= Len(b))
    <2> DEFINE d == GroupDigits(b, q)
               p == 3 * q <= Len(b)
    <2>1. QuartetAt(w, q) = d
      BY <1>1, Zenon
    <2>2. q \in 1 .. (Len(b) + 2) \div 3
      BY <1>1
    <2>3. /\ d \in Seq(Nat) /\ Len(d) = 4
          /\ \A i \in 1 .. 4 : d[i] \in 0 .. Pad
          /\ (\E i \in 1 .. 4 : d[i] = Pad) <=> ~p
      BY <2>2, GroupRead, Zenon
    <2> HIDE DEF d, p
    <2>4. ToSet(d) = {d[i] : i \in 1 .. 4}
      BY <2>3 DEF ToSet
    <2>5. Other \notin 0 .. Pad
      BY DEF Other, Pad
    <2>6. Other \notin ToSet(d) /\ (Pad \notin ToSet(d) <=> p)
      BY <2>3, <2>4, <2>5, Zenon
    <2>7. QED
      BY <2>1, <2>3, <2>6, Zenon DEF GoodAt, MoreAt, p
  <1>3. QuartetAt(w, k + 1) = <<>>
    <2> DEFINE i == 4 * (k + 1) - 3
               j == 4 * (k + 1)
               l == Len(w)
    <2>1. i \in Int /\ l \in Int /\ l < i /\ ~(j <= l)
      BY <1>1
    <2> HIDE DEF i, j, l
    <2>2. QuartetAt(w, k + 1) = SubSeq(w, i, l)
      BY <2>1, Zenon DEF QuartetAt, i, j, l
    <2>3. SubSeq(w, i, l) = <<>>
      BY <1>1, <2>1
    <2>4. QED
      BY <2>2, <2>3, Zenon
  <1>4. ~GoodAt(w, k + 1)
    <2>1. Len(QuartetAt(w, k + 1)) # 4
      BY <1>3
    <2>2. QED
      BY <2>1, Zenon DEF GoodAt
  <1>5. QED
    BY <1>2, <1>3, <1>4, Zenon

\* The quartets of a coded text are its bytes.
LEMMA QuartetsRead ==
  ASSUME NEW b \in Seq(Byte), NEW k, NEW w, Coded(w, b, k)
  PROVE  FlattenSeq([q \in 1 .. k |-> QuartetBytes(QuartetAt(w, q))]) = b
  <1> DEFINE n == Len(b)
             seqs == [q \in 1 .. k |-> QuartetBytes(QuartetAt(w, q))]
             cut == [q \in 0 .. k |-> IF 3 * q <= n THEN 3 * q ELSE n]
  <1>1. /\ k \in Nat /\ 3 * k <= n + 2 /\ n <= 3 * k /\ n \in Nat
        /\ \A g \in 1 .. k : QuartetAt(w, g) = GroupDigits(b, g)
    BY DEF Coded
  <1>2. ASSUME NEW q \in 1 .. k
        PROVE  QuartetBytes(QuartetAt(w, q)) = SubSeq(b, 3 * q - 2, IF 3 * q <= n THEN 3 * q ELSE n)
    <2>1. q \in 1 .. (n + 2) \div 3
      BY <1>1
    <2>2. QuartetBytes(GroupDigits(b, q)) = SubSeq(b, 3 * q - 2, IF 3 * q <= n THEN 3 * q ELSE n)
      BY <2>1, GroupRead
    <2>3. QED
      BY <1>1, <2>2, Zenon
  <1>3. Len(seqs) = k /\ (seqs = <<>> \/ k > 0)
        /\ \A q \in 1 .. k : seqs[q] = QuartetBytes(QuartetAt(w, q))
    BY <1>1
  <1> HIDE DEF seqs, n
  <1>4. \A q \in 0 .. k : cut[q] = IF 3 * q <= n THEN 3 * q ELSE n
    OBVIOUS
  <1>5. cut \in [0 .. k -> 0 .. n]
    BY <1>1
  <1> HIDE DEF cut
  <1>6. cut[0] = 0 /\ cut[k] = n
    BY <1>1, <1>4
  <1>7. ASSUME NEW q \in 1 .. k
        PROVE  cut[q - 1] <= cut[q] /\ seqs[q] = SubSeq(b, cut[q - 1] + 1, cut[q])
    <2>1. /\ q - 1 \in 0 .. k /\ q \in 0 .. k /\ 3 * (q - 1) <= n /\ 3 * (q - 1) + 1 = 3 * q - 2
          /\ 3 * (q - 1) <= 3 * q
      BY <1>1
    <2>2. cut[q - 1] = 3 * (q - 1) /\ cut[q] = IF 3 * q <= n THEN 3 * q ELSE n
      BY <1>4, <2>1
    <2>3. cut[q - 1] <= cut[q]
      BY <1>1, <2>1, <2>2
    <2>4. seqs[q] = SubSeq(b, 3 * q - 2, cut[q])
      BY <1>2, <1>3, <2>2, Zenon
    <2>5. cut[q - 1] + 1 = 3 * q - 2
      BY <2>1, <2>2
    <2>6. QED
      BY <2>3, <2>4, <2>5, Zenon
  <1>8. QED
    BY <1>1, <1>3, <1>5, <1>6, <1>7, FlattenParts, Zenon DEF n, seqs

\* What a decoder says of bytes that are to be stored, and of others.
Got(b) == [ok |-> TRUE, bytes |-> b]
Outcome(got, fits, b) == IF fits THEN got = Got(b) ELSE got.ok = FALSE

\* A coded text, wherever it is broken by spaces, is decoded to its bytes.
LEMMA CodedRead ==
  ASSUME NEW b \in Seq(Byte), NEW k, NEW text, Coded(Solid(text), b, k)
  PROVE  Outcome(Base64Decode(text), Len(b) <= RawSize, b)
  <1> DEFINE w == Solid(text)
             n == Len(b)
             m == (Len(w) \div 4) + 1
             l == IF 3 * k <= n THEN k + 1 ELSE k
             last == CHOOSE q \in 1 .. m : ~MoreAt(w, q) /\ \A p \in 1 .. q - 1 : MoreAt(w, p)
             ok == GoodAt(w, last) \/ QuartetAt(w, last) = <<>>
             e == IF GoodAt(w, last) THEN last ELSE last - 1
             bytes == FlattenSeq([q \in 1 .. e |-> QuartetBytes(QuartetAt(w, q))])
  <1>1. Base64Decode(text)
          = IF Len(bytes) > RawSize THEN [ok |-> FALSE, bytes |-> SubSeq(bytes, 1, RawSize)]
                                    ELSE [ok |-> ok, bytes |-> bytes]
    BY Zenon DEF Base64Decode, GoodAt, MoreAt
  <1>2. /\ k \in Nat /\ 3 * k <= n + 2 /\ n <= 3 * k /\ n \in Nat /\ Len(w) = 4 * k
    BY DEF Coded
  <1>3. /\ \A q \in 1 .. k : GoodAt(w, q) /\ (MoreAt(w, q) <=> 3 * q <= n)
        /\ QuartetAt(w, k + 1) = <<>> /\ ~GoodAt(w, k + 1)
    BY CodedQuartets, Zenon
  <1> HIDE DEF w, n
  <1>4. m = k + 1 /\ l \in 1 .. m
    BY <1>2
  <1>5. ~MoreAt(w, l) /\ \A p \in 1 .. l - 1 : MoreAt(w, p)
    <2>1. \A p \in 1 .. l - 1 : p \in 1 .. k /\ 3 * p <= n
      BY <1>2
    <2>2. \A p \in 1 .. l - 1 : MoreAt(w, p)
      BY <1>3, <2>1
    <2>3. ~MoreAt(w, l)
      <3>1. CASE 3 * k <= n
        BY <1>3, <3>1 DEF MoreAt
      <3>2. CASE ~(3 * k <= n)
        <4>1. k \in 1 .. k /\ l = k
          BY <1>2, <3>2
        <4>2. QED
          BY <1>3, <3>2, <4>1
      <3>3. QED
        BY <3>1, <3>2
    <2>4. QED
      BY <2>2, <2>3, Zenon
  <1> HIDE DEF m, l
  <1>6. last = l
    <2>1. m \in Nat
      BY <1>2, <1>4
    <2>2. ASSUME NEW q \in 1 .. m, ~MoreAt(w, q), \A p \in 1 .. q - 1 : MoreAt(w, p)
          PROVE  q = l
      <3>1. CASE q < l
        <4>1. q \in 1 .. l - 1
          BY <1>4, <2>1, <3>1
        <4>2. QED
          BY <1>5, <2>2, <4>1, Zenon
      <3>2. CASE l < q
        <4>1. l \in 1 .. q - 1
          BY <1>4, <2>1, <3>2
        <4>2. QED
          BY <1>5, <2>2, <4>1, Zenon
      <3>3. QED
        BY <1>4, <2>1, <3>1, <3>2
    <2>3. QED
      BY <1>4, <1>5, <2>2, Zenon
  <1> HIDE DEF last
  <1>7. ok = TRUE /\ e = k
    <2>1. CASE 3 * k <= n
      <3>1. last = k + 1
        BY <1>6, <2>1 DEF l
      <3>2. QED
        BY <1>2, <1>3, <3>1
    <2>2. CASE ~(3 * k <= n)
      <3>1. last = k /\ k \in 1 .. k
        BY <1>2, <1>6, <2>2 DEF l
      <3>2. QED
        BY <1>3, <3>1
    <2>3. QED
      BY <2>1, <2>2
  <1> HIDE DEF e, ok
  <1>8. bytes = b
    BY <1>7, QuartetsRead, Zenon DEF w
  <1> HIDE DEF bytes
  <1>9. Len(b) > RawSize <=> ~(Len(b) <= RawSize)
    BY <1>2, CodecAssumption DEF n
  <1>10. CASE Len(b) <= RawSize
    BY <1>1, <1>7, <1>8, <1>9, <1>10, Zenon DEF Outcome, Got
  <1>11. CASE ~(Len(b) <= RawSize)
    <2>1. Base64Decode(text) = [ok |-> FALSE, bytes |-> SubSeq(b, 1, RawSize)]
      BY <1>1, <1>8, <1>9, <1>11, Zenon
    <2>2. Base64Decode(text).ok = FALSE
      BY <2>1
    <2>3. QED
      BY <1>11, <2>2, Zenon DEF Outcome
  <1>12. QED
    BY <1>10, <1>11, Zenon

\* The groups that the beginning of a coded text has whole are those of the text.
LEMMA CutQuartets ==
  ASSUME NEW w \in Seq(Nat), NEW v \in Seq(Nat), Len(v) <= Len(w),
         \A i \in 1 .. Len(v) : v[i] = w[i], NEW q \in Nat \ {0}, 4 * q <= Len(v)
  PROVE  QuartetAt(v, q) = QuartetAt(w, q)
  <1> DEFINE x == SubSeq(v, 4 * q - 3, 4 * q)
             y == SubSeq(w, 4 * q - 3, 4 * q)
  <1>1. 4 * q <= Len(w)
    OBVIOUS
  <1>2. QuartetAt(v, q) = x /\ QuartetAt(w, q) = y
    BY <1>1 DEF QuartetAt
  <1>3. x \in Seq(Nat) /\ Len(x) = 4 /\ \A i \in 1 .. 4 : x[i] = v[4 * q - 4 + i]
    OBVIOUS
  <1>4. y \in Seq(Nat) /\ Len(y) = 4 /\ \A i \in 1 .. 4 : y[i] = w[4 * q - 4 + i]
    OBVIOUS
  <1>5. \A i \in 1 .. 4 : 4 * q - 4 + i \in 1 .. Len(v)
    OBVIOUS
  <1> HIDE DEF x, y
  <1>6. \A i \in 1 .. Len(x) : x[i] = y[i]
    BY <1>3, <1>4, <1>5
  <1>7. x = y
    BY <1>3, <1>4, <1>6, SeqEqual, Zenon
  <1>8. QED
    BY <1>2, <1>7, Zenon

\* v is w as far as it goes, which is not the end of the group after the j-th.
CutWithin(v, w, j) == 4 * j < Len(v) /\ Len(v) < 4 * j + 4 /\ \A i \in 1 .. Len(v) : v[i] = w[i]

\* A coded text that is cut within a group is refused.
LEMMA CutRefused ==
  ASSUME NEW b \in Seq(Byte), NEW k, NEW w, Coded(w, b, k), NEW v \in Seq(Nat),
         NEW j \in Nat, CutWithin(v, w, j), j < k, NEW text, Solid(text) = v
  PROVE  Base64Decode(text).ok = FALSE
  <1> DEFINE m == (Len(v) \div 4) + 1
             last == CHOOSE q \in 1 .. m : ~MoreAt(v, q) /\ \A p \in 1 .. q - 1 : MoreAt(v, p)
             ok == GoodAt(v, last) \/ QuartetAt(v, last) = <<>>
             e == IF GoodAt(v, last) THEN last ELSE last - 1
             bytes == FlattenSeq([q \in 1 .. e |-> QuartetBytes(QuartetAt(v, q))])
  <1>1. Base64Decode(text)
          = IF Len(bytes) > RawSize THEN [ok |-> FALSE, bytes |-> SubSeq(bytes, 1, RawSize)]
                                    ELSE [ok |-> ok, bytes |-> bytes]
    BY Zenon DEF Base64Decode, GoodAt, MoreAt
  <1>0. 4 * j < Len(v) /\ Len(v) < 4 * j + 4 /\ \A i \in 1 .. Len(v) : v[i] = w[i]
    BY Zenon DEF CutWithin
  <1>2. /\ k \in Nat /\ 3 * k <= Len(b) + 2 /\ w \in Seq(Nat) /\ Len(w) = 4 * k
    BY DEF Coded
  <1>3. /\ m = j + 1 /\ m \in 1 .. m /\ Len(v) \in Nat /\ Len(v) <= Len(w)
        /\ \A q \in 1 .. j : q \in 1 .. k /\ q \in Nat \ {0} /\ 4 * q <= Len(v) /\ 3 * q <= Len(b)
    <2> DEFINE l == Len(v)
    <2>1. l \in Nat /\ 4 * j < l /\ l < 4 * j + 4 /\ l <= Len(w)
      BY <1>0, <1>2
    <2>2. Len(b) \in Nat
      OBVIOUS
    <2> HIDE DEF l
    <2>3. (l \div 4) + 1 = j + 1
      BY <2>1
    <2>4. \A q \in 1 .. j : q \in 1 .. k /\ q \in Nat \ {0} /\ 4 * q <= l
      BY <1>2, <2>1
    <2>5. \A q \in 1 .. j : 3 * q <= Len(b)
      BY <1>2, <2>2
    <2>6. (l \div 4) + 1 \in 1 .. (l \div 4) + 1
      BY <2>3
    <2>7. QED
      BY <2>1, <2>3, <2>4, <2>5, <2>6, Zenon DEF l
  <1> HIDE DEF m
  <1>4. ASSUME NEW q \in 1 .. m - 1 PROVE MoreAt(v, q)
    <2>1. q \in 1 .. j
      BY <1>3
    <2>2. QuartetAt(v, q) = QuartetAt(w, q)
      BY <1>0, <1>2, <1>3, <2>1, CutQuartets, Zenon
    <2>3. MoreAt(w, q)
      BY <1>3, <2>1, CodedQuartets, Zenon
    <2>4. QED
      BY <2>2, <2>3, Zenon DEF MoreAt, GoodAt
  <1>5. QuartetAt(v, m) # <<>> /\ Len(QuartetAt(v, m)) # 4
    <2> DEFINE x == SubSeq(v, 4 * j + 1, Len(v))
    <2>1. QuartetAt(v, m) = x
      <3> DEFINE u == 4 * m
      <3>1. ~(u <= Len(v)) /\ u - 3 = 4 * j + 1
        BY <1>0, <1>3
      <3> HIDE DEF u
      <3>2. QuartetAt(v, m) = SubSeq(v, u - 3, Len(v))
        BY <3>1, Zenon DEF QuartetAt, u
      <3>3. QED
        BY <3>1, <3>2, Zenon
    <2>2. Len(x) = Len(v) - 4 * j
      <3> DEFINE o == 4 * j + 1
                 l == Len(v)
      <3>1. o \in Int /\ 1 <= o /\ o <= Len(v)
        BY <1>0
      <3>4. l \in Int
        OBVIOUS
      <3> HIDE DEF o
      <3>2. Len(SubSeq(v, o, Len(v))) = Len(v) - o + 1
        BY ONLY <3>1, v \in Seq(Nat)
      <3> HIDE DEF l
      <3>5. l - (4 * j + 1) + 1 = l - 4 * j
        BY <3>4
      <3>3. QED
        BY <3>2, <3>5 DEF o, l
    <2> HIDE DEF x
    <2>3. Len(x) # 4 /\ Len(x) # 0
      BY <1>0, <1>3, <2>2
    <2>4. QED
      BY <2>1, <2>3
  <1>6. ~GoodAt(v, m) /\ ~MoreAt(v, m)
    BY <1>5, Zenon DEF GoodAt, MoreAt
  <1>7. last = m
    <2>1. ASSUME NEW q \in 1 .. m, ~MoreAt(v, q), \A p \in 1 .. q - 1 : MoreAt(v, p)
          PROVE  q = m
      <3>1. q \in 1 .. m - 1 \/ q = m
        BY <1>3
      <3>2. QED
        BY <1>4, <2>1, <3>1, Zenon
    <2>2. QED
      BY <1>3, <1>4, <1>6, <2>1, Zenon
  <1> HIDE DEF last
  <1>8. ~ok
    BY <1>5, <1>6, <1>7, Zenon
  <1> HIDE DEF ok, bytes, e
  <1>9. ok = FALSE
    <2>1. ok \in BOOLEAN
      BY DEF ok
    <2>2. QED
      BY <1>8, <2>1
  <1>10. QED
    BY <1>1, <1>9

\* What is seen of a text.
LEMMA SeenText ==
  ASSUME NEW t \in Seq(Nat)
  PROVE  /\ Len(t) <= TextSize => Seen(t) = t
         /\ ~(Len(t) <= TextSize) => Seen(t) = SubSeq(t, 1, TextSize)
  <1>1. SubSeq(t, 1, Len(t)) = t
    BY SubSeqFull, Zenon
  <1>2. QED
    BY <1>1, Zenon DEF Seen

\* The BASE64 text of some bytes, broken by a space or not, is decoded to them unless it
\* is longer than what is seen of it: then it is refused.
LEMMA Base64Seen ==
  ASSUME NEW b \in Seq(Byte), NEW t \in Seq(Nat), NEW n, NEW p,
         OneSpace(t, n, p, Base64Encode(b))
  PROVE  Outcome(Base64Decode(Seen(t)), Len(t) <= TextSize /\ Len(b) <= RawSize, b)
  <1> DEFINE w == Base64Encode(b)
             k == (Len(b) + 2) \div 3
  <1>1. Coded(w, b, k)
    BY EncodeCodes, Zenon
  <1> HIDE DEF w, k
  <1>2. /\ k \in Nat /\ w \in Seq(Nat) /\ Len(w) = 4 * k
        /\ \A i \in 1 .. Len(w) : w[i] # Space
    <2>1. /\ k \in Nat /\ w \in Seq(Nat) /\ Len(w) = 4 * k
          /\ \A i \in 1 .. Len(w) : w[i] \in 0 .. Pad
      BY <1>1, Zenon DEF Coded
    <2>2. Space \notin 0 .. Pad
      BY DEF Space, Pad
    <2>3. QED
      BY <2>1, <2>2, Zenon
  <1>3. OneSpace(t, n, p, w)
    BY Zenon DEF w
  <1>4. /\ n \in Nat /\ Len(t) = n /\ Len(w) = IF p <= n THEN n - 1 ELSE n
    BY <1>3, Zenon DEF OneSpace
  <1>5. CASE n <= TextSize
    <2>1. Seen(t) = t
      BY <1>4, <1>5, SeenText, Zenon
    <2>2. Solid(t) = w
      BY <1>2, <1>3, SolidText, Zenon
    <2>3. Coded(Solid(t), b, k)
      BY <1>1, <2>2, Zenon
    <2>4. QED
      BY <1>4, <1>5, <2>1, <2>3, CodedRead, Zenon DEF Outcome
  <1>6. CASE ~(n <= TextSize)
    <2>1. TextSize \in Nat /\ TextSize % 4 = 3
      BY CodecAssumption
    <2>2. Seen(t) = SubSeq(t, 1, TextSize)
      BY <1>4, <1>6, SeenText, Zenon
    <2>3. TextSize <= n
      BY <1>4, <1>6, <2>1
    <2> DEFINE s == SubSeq(t, 1, TextSize)
    <2>0. PICK v : LeftOf(s, TextSize, v, w)
      BY <1>2, <1>3, <2>1, <2>3, SpaceCut, Zenon
    <2>4. /\ v \in Seq(Nat) /\ Len(v) \in {TextSize - 1, TextSize}
          /\ \A i \in 1 .. Len(v) : v[i] = w[i]
          /\ \E q : OneSpace(s, TextSize, q, v)
      BY <2>0, Zenon DEF LeftOf
    <2> DEFINE j == TextSize \div 4
    <2>5. TextSize = 4 * j + 3 /\ j \in Nat
      BY <2>1
    <2> HIDE DEF j
    <2>6. Len(v) \in Nat /\ 4 * j < Len(v) /\ Len(v) < 4 * j + 4
      BY <2>4, <2>5
    <2>7. j < k
      BY <1>2, <1>4, <1>6, <2>5
    <2>8. Len(v) <= Len(w)
      <3>1. j + 1 <= k
        BY <1>2, <2>5, <2>7
      <3> DEFINE l == Len(v)
      <3>2. l \in Nat /\ l < 4 * j + 4
        BY <2>6
      <3> HIDE DEF l
      <3>3. l <= 4 * k
        BY <1>2, <2>5, <3>1, <3>2
      <3>4. QED
        BY <1>2, <3>3 DEF l
    <2>9. \A i \in 1 .. Len(v) : v[i] # Space
      BY <1>2, <2>4, <2>8
    <2>10. Solid(Seen(t)) = v
      BY <2>2, <2>4, <2>9, SolidText, Zenon DEF s
    <2>11. Base64Decode(Seen(t)).ok = FALSE
      <3>1. CutWithin(v, w, j)
        BY <2>4, <2>6, Zenon DEF CutWithin
      <3>2. v \in Seq(Nat) /\ j \in Nat
        BY <2>4, <2>5, Zenon
      <3>3. QED
        BY <1>1, <2>7, <2>10, <3>1, <3>2, CutRefused, Zenon
    <2>12. QED
      BY <1>4, <1>6, <2>11, Zenon DEF Outcome
  <1>7. QED
    BY <1>5, <1>6, Zenon

\* A hexadecimal text is decoded to its bytes, if there is room for them.
LEMMA HexWhole ==
  ASSUME NEW d \in Seq(Byte), HexEncode(d) # <<>>, NEW size \in Nat
  PROVE  /\ Outcome(HexDecode(HexEncode(d), size), Len(d) <= size, d)
         /\ HexEncode(d) \in Seq(Nat)
  <1> DEFINE n == Len(d)
             a == [i \in 1 .. n |-> d[i] \div 16]
             b == [i \in 1 .. n |-> d[i] % 16]
             hex == HexEncode(d)
  <1>1. n \in Nat /\ \A i \in 1 .. n : d[i] \in Byte
    BY BytesAre
  <1>2. \A i \in 1 .. n : a[i] = d[i] \div 16 /\ b[i] = d[i] % 16
    OBVIOUS
  <1>3. ASSUME NEW i \in 1 .. n
        PROVE  a[i] \in 0 .. 15 /\ b[i] \in 0 .. 15 /\ 16 * a[i] + b[i] = d[i]
    <2>1. d[i] \in 0 .. 255 /\ a[i] = d[i] \div 16 /\ b[i] = d[i] % 16
      BY <1>1, <1>2, Zenon DEF Byte
    <2> DEFINE x == d[i]
    <2>2. x \in 0 .. 255 /\ a[i] = x \div 16 /\ b[i] = x % 16
      BY <2>1, Zenon
    <2> HIDE DEF a, b, x
    <2>3. x \div 16 \in 0 .. 15 /\ x % 16 \in 0 .. 15 /\ 16 * (x \div 16) + (x % 16) = x
      BY <2>2, HexDigits, Zenon
    <2>4. a[i] \in 0 .. 15 /\ b[i] \in 0 .. 15 /\ 16 * a[i] + b[i] = x
      BY <2>2, <2>3, Zenon
    <2>5. QED
      BY <2>4, Zenon DEF x
  <1>4. a \in [1 .. n -> Nat] /\ b \in [1 .. n -> Nat]
    <2>1. \A i \in 1 .. n : a[i] \in Nat /\ b[i] \in Nat
      <3> HIDE DEF a, b
      <3>1. 0 .. 15 \subseteq Nat
        OBVIOUS
      <3>2. QED
        BY <1>3, <3>1, Zenon
    <2>2. QED
      BY <2>1, Zenon
  <1>5. PairsOf(hex, n, a, b)
    <2>1. hex = FlattenSeq([i \in 1 .. n |-> <<a[i], b[i]>>])
      <3>1. [i \in 1 .. n |-> <<a[i], b[i]>>] = [i \in 1 .. n |-> <<d[i] \div 16, d[i] % 16>>]
        BY <1>2
      <3>2. QED
        BY <3>1, Zenon DEF HexEncode
    <2> HIDE DEF a, b, hex
    <2>2. QED
      BY <1>1, <1>4, <2>1, PairsFlat, Zenon
  <1> HIDE DEF a, b, hex
  <1>6. /\ hex \in Seq(Nat) /\ Len(hex) = 2 * n
        /\ \A i \in 1 .. n : hex[2 * i - 1] = a[i] /\ hex[2 * i] = b[i]
    BY <1>5, Zenon DEF PairsOf
  <1>7. Len(hex) % 2 = 0 /\ Len(hex) \div 2 = n
    BY <1>1, <1>6
  <1>8. ASSUME NEW i \in 1 .. Len(hex) PROVE hex[i] <= 15
    <2>1. CASE i % 2 = 0
      <3> DEFINE j == i \div 2
      <3>1. j \in 1 .. n /\ 2 * j = i
        BY <1>1, <1>6, <2>1
      <3> HIDE DEF j
      <3>2. hex[i] = b[j] /\ b[j] \in 0 .. 15
        BY <1>3, <1>6, <3>1
      <3>3. QED
        BY <3>2
    <2>2. CASE i % 2 # 0
      <3> DEFINE j == (i \div 2) + 1
      <3>1. j \in 1 .. n /\ 2 * j - 1 = i
        <4>1. i \in 1 .. 2 * n
          BY <1>6, Zenon
        <4>2. QED
          BY <1>1, <2>2, <4>1
      <3> HIDE DEF j
      <3>2. hex[i] = a[j] /\ a[j] \in 0 .. 15
        BY <1>3, <1>6, <3>1
      <3>3. QED
        BY <3>2
    <2>3. QED
      BY <2>1, <2>2
  <1> DEFINE bytes == [i \in 1 .. Len(hex) \div 2 |-> 16 * hex[2*i - 1] + hex[2*i]]
  <1>9. bytes = d
    <2>1. bytes = [i \in 1 .. n |-> 16 * hex[2*i - 1] + hex[2*i]]
      BY <1>7, Zenon
    <2>2. \A i \in 1 .. n : 16 * hex[2*i - 1] + hex[2*i] = d[i]
      BY <1>3, <1>6
    <2>3. bytes = [i \in 1 .. n |-> d[i]]
      BY <2>1, <2>2, Zenon
    <2>4. d = [i \in 1 .. n |-> d[i]]
      OBVIOUS
    <2>5. QED
      BY <2>3, <2>4, Zenon
  <1>10. hex # <<>>
    BY Zenon DEF hex
  <1>11. CASE n <= size
    <2>1. Len(hex) \div 2 <= size
      BY <1>7, <1>11
    <2>2. HexDecode(hex, size) = [ok |-> TRUE, bytes |-> bytes]
      BY <1>7, <1>8, <1>10, <2>1, Zenon DEF HexDecode
    <2> HIDE DEF bytes
    <2>3. QED
      BY <1>6, <1>9, <1>11, <2>2, Zenon DEF Outcome, Got, hex
  <1>12. CASE ~(n <= size)
    <2>1. ~(Len(hex) \div 2 <= size)
      BY <1>7, <1>12
    <2>2. HexDecode(hex, size) = [ok |-> FALSE, bytes |-> <<>>]
      BY <2>1, Zenon DEF HexDecode
    <2>3. HexDecode(hex, size).ok = FALSE
      BY <2>2
    <2>4. QED
      BY <1>6, <1>12, <2>3, Zenon DEF Outcome, hex
  <1>13. QED
    BY <1>11, <1>12, Zenon

\* One that is longer than what is seen of it is refused, as an odd number of digits is seen.
LEMMA HexSeen ==
  ASSUME NEW d \in Seq(Byte), HexEncode(d) # <<>>
  PROVE  Outcome(HexDecode(Seen(HexEncode(d)), RawSize),
                 Len(HexEncode(d)) <= TextSize /\ Len(d) <= RawSize, d)
  <1> DEFINE hex == HexEncode(d)
  <1>1. RawSize \in Nat /\ TextSize \in Nat /\ TextSize % 4 = 3
    BY CodecAssumption
  <1>2. Outcome(HexDecode(hex, RawSize), Len(d) <= RawSize, d) /\ hex \in Seq(Nat)
    BY <1>1, HexWhole, Zenon
  <1> HIDE DEF hex
  <1>3. CASE Len(hex) <= TextSize
    <2>1. Seen(hex) = hex
      BY <1>2, <1>3, SeenText, Zenon
    <2>2. QED
      BY <1>2, <1>3, <2>1, Zenon DEF Outcome, hex
  <1>4. CASE ~(Len(hex) <= TextSize)
    <2> DEFINE x == SubSeq(hex, 1, TextSize)
    <2>1. Seen(hex) = x
      BY <1>2, <1>4, SeenText, Zenon
    <2>2. Len(x) = TextSize
      BY <1>1, <1>2, <1>4
    <2> HIDE DEF x
    <2>3. ~(Len(x) % 2 = 0)
      BY <1>1, <2>2
    <2>4. HexDecode(x, RawSize) = [ok |-> FALSE, bytes |-> <<>>]
      BY <2>3, Zenon DEF HexDecode
    <2>5. HexDecode(x, RawSize).ok = FALSE
      BY <2>4
    <2>6. QED
      BY <1>4, <2>1, <2>5, Zenon DEF Outcome, hex
  <1>5. QED
    BY <1>3, <1>4, Zenon

\* What is to be stored is stored whole, and nothing otherwise.
LEMMA GotStored ==
  ASSUME downlink_text = stored, NEW chset, NEW text, NEW b \in Seq(Byte),
         Outcome(Decode(chset, Seen(text)), Len(text) <= TextSize /\ Len(b) <= RawSize, b),
         TakeReport(chset, text), Expect(text, b)
  PROVE  StoredAsSent'
  <1> DEFINE fits == Len(text) <= TextSize /\ Len(b) <= RawSize
             got == Decode(chset, Seen(text))
  <1>1. CASE ~fits
    <2>1. ~got.ok
      BY <1>1, Zenon DEF Outcome
    <2>2. UNCHANGED downlink_text
      BY <2>1, Zenon DEF TakeReport
    <2>3. latest' = <<>> /\ UNCHANGED stored
      BY <1>1, Zenon DEF Expect
    <2>4. QED
      BY <2>2, <2>3, Zenon DEF StoredAsSent
  <1>2. CASE fits
    <2> DEFINE n == Len(b)
               raw == [i \in 1 .. RawSize |-> IF i <= n THEN b[i] ELSE downlink_raw[i]]
               p == SubSeq(raw, 1, n)
    <2>1. n \in Nat /\ n <= RawSize /\ RawSize \in Nat /\ 1 \in Int /\ n \in Int
      BY <1>2, CodecAssumption
    <2>2. downlink_raw' = raw /\ downlink_raw_len' = n /\ downlink_text' = b
      <3>1. got = Got(b)
        BY <1>2, Zenon DEF Outcome
      <3>2. Got(b).ok = TRUE /\ Got(b).bytes = b
        BY DEF Got
      <3>3. QED
        BY <3>1, <3>2, Zenon DEF TakeReport
    <2>3. latest' = b /\ stored' = b
      BY <1>2, Zenon DEF Expect
    <2>4. \A i \in 1 .. n : raw[i] = b[i] /\ b[i] \in Byte
      BY <2>1, BytesAre
    <2> HIDE DEF raw, fits, got
    <2>5. /\ p \in Seq(Byte) /\ Len(p) = IF 1 <= n THEN n - 1 + 1 ELSE 0
          /\ \A i \in 1 .. n - 1 + 1 : p[i] = raw[1 + i - 1]
      <3>1. \A i \in 1 .. n : raw[i] \in Byte
        BY <2>4, Zenon
      <3> HIDE DEF n
      <3>2. QED
        BY <2>1, <3>1, SubSeqProperties
    <2> HIDE DEF p
    <2>6. Len(p) = Len(b) /\ \A i \in 1 .. Len(p) : p[i] = b[i]
      BY <2>1, <2>4, <2>5
    <2>7. p = b
      BY <2>5, <2>6, SeqEqual, Zenon
    <2>8. SubSeq(downlink_raw', 1, downlink_raw_len') = b
      BY <2>2, <2>7, Zenon DEF p
    <2>9. QED
      BY <2>2, <2>3, <2>8, Zenon DEF StoredAsSent
  <1>3. QED
    BY <1>1, <1>2, Zenon

\* What is sent are bytes.
LEMMA PayloadBytes ==
  ASSUME NEW b \in Payloads
  PROVE  b \in Seq(Byte)
  <1>1. PICK m \in 0 .. MaxBytes : b \in [1 .. m -> Bytes]
    BY Zenon DEF Payloads, BoundedSeq, SeqOf
  <1>2. Bytes \subseteq Byte /\ m \in Nat
    BY CodecAssumption DEF Byte
  <1>3. b \in [1 .. m -> Byte]
    BY <1>1, <1>2, Zenon
  <1>4. QED
    BY <1>2, <1>3

\* A downlink that came whole is stored as it was sent, in either encoding, for bytes of any
\* value and number and wherever its text was broken, if its bytes and its text fit; one
\* that does not fit leaves what was stored (dbb_handle.c:62-188, 233-264, 801-857).
THEOREM DownlinkStoredAsSent == CodecSpec => []StoredAsSent
  <1>1. CodecInit => StoredAsSent
    BY Zenon DEF CodecInit, StoredAsSent
  <1>2. StoredAsSent /\ [CodecNext]_codecVars => StoredAsSent'
    <2> SUFFICES ASSUME StoredAsSent, [CodecNext]_codecVars PROVE StoredAsSent'
      BY Zenon
    <2>1. CASE UNCHANGED downlinkVars
      BY <2>1, Zenon DEF downlinkVars, StoredAsSent
    <2>2. ASSUME NEW chset \in Charsets, NEW bytes \in Payloads, WholeReport(chset, bytes)
          PROVE  StoredAsSent'
      <3> DEFINE text == Encode(chset, bytes)
      <3>1. TakeReport(chset, text) /\ Expect(text, bytes)
        BY <2>2, Zenon DEF WholeReport
      <3>2. bytes \in Seq(Byte) /\ text # <<>>
        BY <3>1, PayloadBytes, Zenon DEF TakeReport
      <3>3. Outcome(Decode(chset, Seen(text)), Len(text) <= TextSize /\ Len(bytes) <= RawSize, bytes)
        <4>1. CASE chset = "HEX"
          <5>1. text = HexEncode(bytes)
            BY <4>1, Zenon DEF Encode
          <5>2. Decode(chset, Seen(text)) = HexDecode(Seen(text), RawSize)
            BY <4>1, Zenon DEF Decode
          <5> HIDE DEF text
          <5>3. QED
            BY <3>2, <5>1, <5>2, HexSeen, Zenon
        <4>2. CASE chset # "HEX"
          <5>1. text = Base64Encode(bytes)
            BY <4>2, Zenon DEF Encode
          <5>2. Decode(chset, Seen(text)) = Base64Decode(Seen(text))
            BY <4>2, Zenon DEF Decode
          <5> HIDE DEF text
          <5>3. text \in Seq(Nat)
            BY <3>2, <5>1, EncodeCodes, Zenon DEF Coded
          <5>4. OneSpace(text, Len(text), Len(text) + 1, Base64Encode(bytes))
            BY <5>1, <5>3, WithoutSpace, Zenon
          <5>5. QED
            BY <3>2, <5>2, <5>3, <5>4, Base64Seen, Zenon
        <4>3. QED
          BY <4>1, <4>2, Zenon
      <3> HIDE DEF text
      <3>4. QED
        BY <3>1, <3>2, <3>3, GotStored, Zenon DEF StoredAsSent
    <2>3. ASSUME NEW bytes \in Payloads, NEW k \in 0 .. 2 * MaxBytes, Broken(bytes, k)
          PROVE  StoredAsSent'
      <3> DEFINE w == Base64Encode(bytes)
                 text == InsertAt(w, k + 1, Space)
      <3>1. k < Len(w) /\ TakeReport("BASE64", text) /\ Expect(text, bytes)
        <4>1. Encode("BASE64", bytes) = w
          BY DEF Encode
        <4>2. QED
          BY <2>3, <4>1, Zenon DEF Broken
      <3>2. bytes \in Seq(Byte) /\ k \in Nat
        BY PayloadBytes
      <3>3. w \in Seq(Nat)
        BY <3>2, EncodeCodes, Zenon DEF Coded
      <3>4. text \in Seq(Nat) /\ OneSpace(text, Len(w) + 1, k + 1, w)
        BY <3>1, <3>2, <3>3, Inserted, Zenon
      <3>5. Decode("BASE64", Seen(text)) = Base64Decode(Seen(text))
        BY DEF Decode
      <3> HIDE DEF text
      <3>6. Outcome(Decode("BASE64", Seen(text)), Len(text) <= TextSize /\ Len(bytes) <= RawSize, bytes)
        BY <3>2, <3>4, <3>5, Base64Seen, Zenon
      <3>7. QED
        BY <3>1, <3>2, <3>6, GotStored, Zenon DEF StoredAsSent
    <2>4. ASSUME NEW chset \in Charsets, NEW bytes \in Payloads, NEW k \in 0 .. 2 * MaxBytes,
                 Damaged(chset, bytes, k)
          PROVE  StoredAsSent'
      BY <2>4, Zenon DEF Damaged, StoredAsSent
    <2>5. QED
      BY <2>1, <2>2, <2>3, <2>4, Zenon DEF CodecNext, DownlinkNext, codecVars
  <1>3. QED
    BY <1>1, <1>2, PTL DEF CodecSpec
==============================================================================
