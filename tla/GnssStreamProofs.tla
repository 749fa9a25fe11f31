--------------------------- MODULE GnssStreamProofs ---------------------------
(***************************************************************************)
(* Proofs about GnssStream, for buffers and reads of every size and every  *)
(* number of items: what the scanner and the line assembler make of the    *)
(* stream, wherever the reads cut it.                                      *)
(*                                                                         *)
(* What is in a buffer is always older than what is to come, and in order; *)
(* and the item that is cut by the end of a read is in the buffer as far   *)
(* as it has come, unless the histories say otherwise.                     *)
(***************************************************************************)
EXTENDS GnssStream, GnssDecode, SequenceTheorems, WellFoundedInduction, TLAPS

SizeOf(kind) == IF kind = "sentence" THEN 3 ELSE IF kind = "cut" THEN 2 ELSE 4

Cell == {c \in [id: Nat, kind: Kinds, at: 1 .. 4, byte: {"$", "lf", "x"}, last: BOOLEAN] :
           /\ c.at <= SizeOf(c.kind)
           /\ c.last <=> c.at = SizeOf(c.kind)
           /\ c.kind = "sentence" => c.byte = <<"$", "x", "lf">>[c.at]}

\* the order of the stream
Before(c, d) == c.id < d.id \/ (c.id = d.id /\ c.at < d.at)
Sorted(s) == \A i, j \in 1 .. Len(s) : i < j => Before(s[i], s[j])

\* nothing is lost between the module and the read
Follows(c, d) == IF c.last THEN d.at = 1
                 ELSE d.id = c.id /\ d.at = c.at + 1 /\ d.kind = c.kind

\* c is past the first cell of item id
Past(id, c) == id < c.id \/ (id = c.id /\ c.at > 1)

ComingInv ==
  /\ coming \in Seq(Cell) /\ items \in Nat
  /\ Sorted(coming)
  /\ \A i \in 1 .. Len(coming) : coming[i].id <= items
  /\ \A i \in 1 .. Len(coming) - 1 : Follows(coming[i], coming[i + 1])
  /\ coming # <<>> => coming[Len(coming)].last

RawInv ==
  /\ data_raw \in Seq(Cell) /\ Len(data_raw) <= RawSize
  /\ Sorted(data_raw)
  /\ \A i \in 1 .. Len(data_raw) :
       data_raw[i].id <= items /\ \A j \in 1 .. Len(coming) : Before(data_raw[i], coming[j])

DecodedInv ==
  /\ decoded \in Seq(Nat) /\ RecordsOnce
  /\ \A i \in 1 .. Len(decoded) :
       /\ decoded[i] <= items
       /\ \A j \in 1 .. Len(data_raw) : Past(decoded[i], data_raw[j])
       /\ \A j \in 1 .. Len(coming) : Past(decoded[i], coming[j])

\* the item that the last read cut is at the end of the buffer
RawTail ==
  coming # <<>> /\ coming[1].id \notin unscanned =>
    LET have == coming[1].at - 1
    IN  /\ have <= Len(data_raw)
        /\ \A j \in 1 .. have :
             LET c == data_raw[Len(data_raw) - have + j]
             IN  c.id = coming[1].id /\ c.at = j /\ c.kind = coming[1].kind

ScanInv == RawInv /\ DecodedInv /\ RawTail /\ RecordsDecoded

\* the assembler before it takes coming[i + 1]
LineState(line, good, i) ==
  /\ line \in Seq(Cell) /\ Len(line) < LineSize
  /\ Sorted(line)
  /\ \A x \in 1 .. Len(line) :
       line[x].id <= items /\ \A j \in i + 1 .. Len(coming) : Before(line[x], coming[j])
  /\ good \in Seq(Nat) /\ Increasing(good)
  /\ \A y \in 1 .. Len(good) :
       /\ good[y] <= items
       /\ \A x \in 1 .. Len(line) : Past(good[y], line[x])
       /\ \A j \in i + 1 .. Len(coming) : Past(good[y], coming[j])

\* the sentence that coming[i + 1] goes on with is the line so far
LineTail(line, i) ==
  i < Len(coming) /\ coming[i + 1].at > 1 /\ coming[i + 1].kind = "sentence"
  /\ coming[i + 1].id \notin unlined =>
    /\ Len(line) = coming[i + 1].at - 1
    /\ \A j \in 1 .. Len(line) :
         line[j].id = coming[i + 1].id /\ line[j].at = j /\ line[j].kind = "sentence"

LineInv == LineState(data_nmea, lines, 0) /\ LineTail(data_nmea, 0) /\ SentencesHeard

IInv == ComingInv /\ ScanInv /\ LineInv

-----------------------------------------------------------------------------
(* The recursive functions *)

\* A set of naturals that is not empty has a least member.
LEMMA LeastMember ==
  ASSUME NEW T \in SUBSET Nat, T # {}
  PROVE  \E i \in T : \A j \in T : i <= j
  <1>1. PICK i \in T : \A j \in T : ~(<<j, i>> \in OpToRel(<, Nat))
    BY NatLessThanWellFounded, WFMin
  <1>2. ASSUME NEW j \in T PROVE i <= j
    <2>1. <<j, i>> \in Nat \X Nat /\ ~(<<j, i>> \in OpToRel(<, Nat))
      BY <1>1
    <2>2. ~(j < i)
      BY <2>1, Zenon DEF OpToRel
    <2>3. QED
      BY <2>2
  <1>3. QED
    BY <1>2

\* What holds of the end of an interval, and of a position when it holds of all later
\* ones, holds of its beginning.
LEMMA Downwards ==
  ASSUME NEW n \in Nat, NEW P \in SUBSET (1 .. n + 1), n + 1 \in P,
         \A k \in 1 .. n : (\A q \in k + 1 .. n + 1 : q \in P) => k \in P
  PROVE  \A k \in 1 .. n + 1 : k \in P
  <1> DEFINE T == {m \in 0 .. n : n + 1 - m \notin P}
  <1>1. SUFFICES ASSUME T # {} PROVE FALSE
    <2>1. ASSUME NEW k \in 1 .. n + 1, k \notin P PROVE FALSE
      <3>1. n + 1 - k \in 0 .. n /\ n + 1 - (n + 1 - k) = k
        OBVIOUS
      <3>2. n + 1 - k \in T
        BY <3>1, <2>1
      <3>3. QED
        BY <3>2, <1>1
    <2>2. QED
      BY <2>1
  <1>2. PICK m \in T : \A j \in T : m <= j
    <2>1. T \in SUBSET Nat
      OBVIOUS
    <2>2. QED
      BY <1>1, <2>1, LeastMember
  <1> DEFINE k == n + 1 - m
  <1>3. m \in 0 .. n /\ k \notin P
    OBVIOUS
  <1>4. m # 0 /\ k \in 1 .. n
    BY <1>3
  <1>5. ASSUME NEW q \in k + 1 .. n + 1 PROVE q \in P
    <2>1. n + 1 - q \in 0 .. n /\ n + 1 - q < m /\ n + 1 - (n + 1 - q) = q
      BY <1>3
    <2>2. n + 1 - q \notin T
      BY <1>2, <2>1
    <2>3. QED
      BY <2>1, <2>2
  <1>6. QED
    BY <1>3, <1>4, <1>5

\* The scan is well defined.
LEMMA ScanDefined ==
  ASSUME NEW buf, Len(buf) \in Nat
  PROVE  \E scan : /\ scan = [p \in 1 .. Len(buf) + 1 |-> ScanAt(buf, p, scan)]
                   /\ Scan(buf) = scan[1]
  <1> DEFINE n == Len(buf)
             From(k, g) == g = [p \in k .. n + 1 |-> ScanAt(buf, p, g)]
             P == {k \in 1 .. n + 1 : \E g : From(k, g)}
  <1>1. n + 1 \in P
    <2> DEFINE last == [p \in n + 1 .. n + 1 |-> [found |-> <<>>, done |-> 0]]
    <2>1. \A p \in n + 1 .. n + 1 : ScanAt(buf, p, last) = [found |-> <<>>, done |-> 0]
      BY DEF ScanAt, Overhead
    <2>2. From(n + 1, last)
      BY <2>1
    <2>3. QED
      BY <2>2
  <1>2. ASSUME NEW k \in 1 .. n, \A q \in k + 1 .. n + 1 : q \in P
        PROVE  k \in P
    <2>1. PICK g : From(k + 1, g)
      BY <1>2
    <2> DEFINE h == [p \in k .. n + 1 |-> IF p = k THEN ScanAt(buf, k, g) ELSE g[p]]
    <2>2. ASSUME NEW p \in k .. n + 1 PROVE ScanAt(buf, p, h) = ScanAt(buf, p, g)
      <3>1. CASE p + Overhead > n
        BY <3>1, SMTT(30) DEF ScanAt
      <3>2. CASE p + Overhead <= n
        <4>1. h[p + 1] = g[p + 1] /\ h[p + ClaimedLength] = g[p + ClaimedLength]
          BY <3>2 DEF Overhead, ClaimedLength
        <4>2. QED
          BY <4>1 DEF ScanAt
      <3>3. QED
        BY <3>1, <3>2 DEF Overhead
    <2>3. \A p \in k + 1 .. n + 1 : g[p] = ScanAt(buf, p, g)
      BY <2>1
    <2>4. From(k, h)
      <3>1. \A p \in k .. n + 1 : h[p] = ScanAt(buf, p, h)
        BY <2>2, <2>3
      <3>2. QED
        BY <3>1
    <2> HIDE DEF h
    <2>5. \E f : From(k, f)
      BY <2>4
    <2>6. QED
      BY <2>5
  <1>3. 1 \in P
    <2>1. P \in SUBSET (1 .. n + 1) /\ n \in Nat
      OBVIOUS
    <2> HIDE DEF P
    <2>2. QED
      BY <1>1, <1>2, <2>1, Downwards
  <1>4. \E g : From(1, g)
    BY <1>3
  <1> DEFINE scan == CHOOSE g : From(1, g)
  <1>5. From(1, scan)
    BY <1>4
  <1>6. Scan(buf) = scan[1]
    BY DEF Scan
  <1>7. QED
    BY <1>5, <1>6
\* What the scan of buf from q on finds: every record from there, once and in order; it is
\* done with nothing behind the header of the last one.
ScanFacts(buf, q, r) ==
  /\ r.found \in Seq(Nat) /\ Increasing(r.found)
  /\ r.done \in 0 .. Len(buf)
  /\ r.done > 0 => r.done - 1 \in q .. Len(buf) /\ Found(buf, r.done - 1)
  /\ \A i \in 1 .. Len(r.found) : \E p \in q .. Len(buf) :
       Found(buf, p) /\ buf[p].id = r.found[i] /\ p < r.done
  /\ \A p \in q .. Len(buf) : Found(buf, p) => \E i \in 1 .. Len(r.found) : r.found[i] = buf[p].id

\* What a record that was found is.
LEMMA FoundRecord ==
  ASSUME NEW buf \in Seq(Cell), NEW p \in 1 .. Len(buf), Found(buf, p)
  PROVE  /\ p + 3 <= Len(buf) /\ buf[p].at = 1
         /\ buf[p + 1].id = buf[p].id /\ buf[p + 1].at = 2
         /\ buf[p + 2].id = buf[p].id /\ buf[p + 2].at = 3
         /\ buf[p + 3].id = buf[p].id /\ buf[p + 3].at = 4
  <1>1. /\ p + 2 + 2 - 1 <= Len(buf) /\ buf[p].at = 1
        /\ \A k \in 0 .. 2 + 2 - 1 : buf[p + k].id = buf[p].id /\ buf[p + k].at = k + 1
    BY DEF Found, Header, ChecksOut, Overhead, ClaimedLength
  <1>2. 0 \in 0 .. 3 /\ 1 \in 0 .. 3 /\ 2 \in 0 .. 3 /\ 3 \in 0 .. 3
    OBVIOUS
  <1>3. QED
    BY <1>1, <1>2

\* A record goes in front of those found behind it.
LEMMA RecordFirst ==
  ASSUME NEW buf \in Seq(Cell), Sorted(buf), NEW q \in 1 .. Len(buf), Found(buf, q),
         NEW rest, ScanFacts(buf, q + 2, rest)
  PROVE  ScanFacts(buf, q, [found |-> <<buf[q].id>> \o rest.found,
                            done  |-> IF rest.done > 0 THEN rest.done ELSE q + 1])
  <1> DEFINE r == [found |-> <<buf[q].id>> \o rest.found,
                   done  |-> IF rest.done > 0 THEN rest.done ELSE q + 1]
             n == Len(buf)
  <1>1. /\ q + 3 <= n /\ buf[q].at = 1 /\ buf[q + 1].at = 2 /\ n \in Nat
    BY FoundRecord
  <1>2. buf[q].id \in Nat
    BY DEF Cell
  <1>3. /\ rest.found \in Seq(Nat) /\ Increasing(rest.found) /\ rest.done \in 0 .. n
        /\ rest.done > 0 => rest.done - 1 \in q + 2 .. n /\ Found(buf, rest.done - 1)
    BY DEF ScanFacts
  <1>4. /\ r.found \in Seq(Nat) /\ Len(r.found) = 1 + Len(rest.found)
        /\ Len(rest.found) \in Nat /\ r.found[1] = buf[q].id
        /\ \A i \in 2 .. Len(r.found) : i - 1 \in 1 .. Len(rest.found) /\ r.found[i] = rest.found[i - 1]
    <2>1. <<buf[q].id>> \in Seq(Nat) /\ Len(<<buf[q].id>>) = 1 /\ <<buf[q].id>>[1] = buf[q].id
      BY <1>2
    <2>2. QED
      BY <1>3, <2>1, ConcatProperties
  <1>5. /\ r.done \in 0 .. n /\ r.done > q /\ (rest.done > 0 => r.done = rest.done)
        /\ r.done - 1 \in q .. n /\ Found(buf, r.done - 1)
    BY <1>1, <1>3
  <1> HIDE DEF r
  <1>6. ASSUME NEW i \in 2 .. Len(r.found)
        PROVE  \E p \in q + 2 .. n : Found(buf, p) /\ buf[p].id = r.found[i] /\ p < r.done
    <2>1. PICK p \in q + 2 .. n : Found(buf, p) /\ buf[p].id = r.found[i] /\ p < rest.done
      <3>1. PICK k \in 1 .. Len(rest.found) : r.found[i] = rest.found[k]
        BY <1>4, Zenon
      <3>2. \E p \in q + 2 .. Len(buf) : Found(buf, p) /\ buf[p].id = rest.found[k] /\ p < rest.done
        BY Zenon DEF ScanFacts
      <3>3. QED
        BY <3>1, <3>2, Zenon
    <2>2. p < r.done
      BY <1>3, <1>5, <2>1
    <2>3. QED
      BY <2>1, <2>2
  <1>7. ASSUME NEW i \in 2 .. Len(r.found) PROVE r.found[1] < r.found[i]
    <2>1. PICK p \in q + 2 .. n : Found(buf, p) /\ buf[p].id = r.found[i]
      BY <1>6
    <2>2. buf[p].at = 1 /\ Before(buf[q], buf[p])
      BY <2>1, <1>1, FoundRecord DEF Sorted
    <2>3. QED
      BY <2>1, <2>2, <1>1, <1>4 DEF Before
  <1>8. Increasing(r.found)
    <2>1. SUFFICES ASSUME NEW i \in 1 .. Len(r.found), NEW j \in 1 .. Len(r.found), i < j
                   PROVE  r.found[i] < r.found[j]
      BY DEF Increasing
    <2>2. CASE i = 1
      BY <2>1, <2>2, <1>4, <1>7
    <2>3. CASE i # 1
      <3>1. i \in 2 .. Len(r.found) /\ j \in 2 .. Len(r.found)
        BY <2>1, <2>3, <1>4
      <3>2. /\ i - 1 \in 1 .. Len(rest.found) /\ j - 1 \in 1 .. Len(rest.found) /\ i - 1 < j - 1
            /\ r.found[i] = rest.found[i - 1] /\ r.found[j] = rest.found[j - 1]
        BY <3>1, <2>1, <1>4
      <3>3. QED
        BY <3>2, <1>3 DEF Increasing
    <2>4. QED
      BY <2>2, <2>3
  <1>9. ASSUME NEW p \in q .. n, Found(buf, p)
        PROVE  \E i \in 1 .. Len(r.found) : r.found[i] = buf[p].id
    <2>1. CASE p = q
      BY <2>1, <1>4
    <2>2. CASE p # q
      <3>1. p # q + 1
        <4>1. p \in 1 .. Len(buf)
          OBVIOUS
        <4>2. buf[p].at = 1
          BY <1>9, <4>1, FoundRecord
        <4>3. QED
          BY <4>2, <1>1
      <3>2. p \in q + 2 .. n
        BY <2>2, <3>1
      <3>3. PICK i \in 1 .. Len(rest.found) : rest.found[i] = buf[p].id
        BY <3>2, <1>9 DEF ScanFacts
      <3>4. i + 1 \in 2 .. Len(r.found) /\ (i + 1) - 1 = i
        BY <1>4
      <3>5. i + 1 \in 1 .. Len(r.found)
        BY <1>4
      <3>6. r.found[i + 1] = rest.found[i]
        BY <3>4, <1>4, Zenon
      <3>7. QED
        BY <3>3, <3>5, <3>6
    <2>3. QED
      BY <2>1, <2>2
  <1>10. ASSUME NEW i \in 1 .. Len(r.found)
         PROVE  \E p \in q .. n : Found(buf, p) /\ buf[p].id = r.found[i] /\ p < r.done
    <2>1. CASE i = 1
      BY <2>1, <1>1, <1>4, <1>5
    <2>2. CASE i # 1
      <3>1. PICK p \in q + 2 .. n : Found(buf, p) /\ buf[p].id = r.found[i] /\ p < r.done
        BY <2>2, <1>4, <1>6
      <3>2. QED
        BY <3>1
    <2>3. QED
      BY <2>1, <2>2
  <1>11. QED
    BY <1>4, <1>5, <1>8, <1>9, <1>10 DEF ScanFacts, r

\* The scan finds what there is.
LEMMA ScanFinds ==
  ASSUME NEW buf \in Seq(Cell), Sorted(buf)
  PROVE  ScanFacts(buf, 1, Scan(buf))
  <1> DEFINE n == Len(buf)
  <1>1. n \in Nat
    OBVIOUS
  <1>2. PICK scan : /\ scan = [p \in 1 .. n + 1 |-> ScanAt(buf, p, scan)]
                    /\ Scan(buf) = scan[1]
    BY <1>1, ScanDefined
  <1> DEFINE P == {q \in 1 .. n + 1 : ScanFacts(buf, q, scan[q])}
  <1>3. ASSUME NEW q \in 1 .. n + 1, q + 2 > n
        PROVE  q \in P
    <2>1. scan[q] = [found |-> <<>>, done |-> 0]
      BY <1>2, <1>3 DEF ScanAt, Overhead
    <2>2. \A p \in q .. n : ~Found(buf, p)
      BY <1>3, FoundRecord
    <2>3. scan[q].found \in Seq(Nat) /\ Len(scan[q].found) = 0 /\ scan[q].done = 0
      BY <2>1
    <2>4. ScanFacts(buf, q, scan[q])
      BY <2>2, <2>3, <1>1 DEF ScanFacts, Increasing
    <2>5. QED
      BY <2>4
  <1>4. ASSUME NEW q \in 1 .. n, \A k \in q + 1 .. n + 1 : k \in P
        PROVE  q \in P
    <2>1. CASE q + 2 > n
      BY <2>1, <1>3
    <2>2. CASE q + 2 <= n /\ Found(buf, q)
      <3>1. q + 2 \in P
        BY <2>2, <1>4
      <3>2. ScanFacts(buf, q + 2, scan[q + 2])
        BY <3>1
      <3>3. scan[q] = [found |-> <<buf[q].id>> \o scan[q + 2].found,
                       done  |-> IF scan[q + 2].done > 0 THEN scan[q + 2].done ELSE q + 1]
        <4>1. scan[q] = ScanAt(buf, q, scan)
          BY <1>2
        <4>2. q - 1 + 2 = q + 1
          OBVIOUS
        <4>3. QED
          BY <2>2, <4>1, <4>2 DEF ScanAt, Overhead, ClaimedLength
      <3>4. ScanFacts(buf, q, scan[q])
        BY <2>2, <3>2, <3>3, RecordFirst
      <3>5. QED
        BY <3>4
    <2>3. CASE q + 2 <= n /\ ~Found(buf, q)
      <3>1. scan[q] = scan[q + 1]
        <4>1. scan[q] = ScanAt(buf, q, scan)
          BY <1>2
        <4>2. ~(q + Overhead > Len(buf))
          BY <2>3, <1>1 DEF Overhead
        <4>3. QED
          BY <2>3, <4>1, <4>2 DEF ScanAt
      <3>2. ScanFacts(buf, q + 1, scan[q + 1])
        BY <1>4
      <3>3. ASSUME NEW p \in q .. n, Found(buf, p) PROVE p \in q + 1 .. n
        BY <3>3, <2>3
      <3>4. \A p \in q + 1 .. n : p \in q .. n
        OBVIOUS
      <3> HIDE DEF n
      <3> DEFINE t == scan[q + 1]
      <3>5. /\ t.found \in Seq(Nat) /\ Increasing(t.found) /\ t.done \in 0 .. n
            /\ t.done > 0 => t.done - 1 \in q .. n /\ Found(buf, t.done - 1)
        BY <3>2, <3>4 DEF ScanFacts, n
      <3>6. \A i \in 1 .. Len(t.found) : \E p \in q .. n :
              Found(buf, p) /\ buf[p].id = t.found[i] /\ p < t.done
        <4>1. \A i \in 1 .. Len(t.found) : \E p \in q + 1 .. n :
                Found(buf, p) /\ buf[p].id = t.found[i] /\ p < t.done
          BY <3>2 DEF ScanFacts, n
        <4>2. QED
          BY <4>1, <3>4
      <3>7. \A p \in q .. n : Found(buf, p) => \E i \in 1 .. Len(t.found) : t.found[i] = buf[p].id
        BY <3>2, <3>3 DEF ScanFacts, n
      <3>8. ScanFacts(buf, q, t)
        BY <3>5, <3>6, <3>7 DEF ScanFacts, n
      <3>9. ScanFacts(buf, q, scan[q])
        BY <3>1, <3>8
      <3>10. QED
        BY <3>9 DEF n
    <2>4. QED
      BY <2>1, <2>2, <2>3
  <1>5. n + 1 \in P
    BY <1>1, <1>3
  <1>6. P \in SUBSET (1 .. n + 1) /\ 1 \in 1 .. n + 1
    BY <1>1
  <1> HIDE DEF P
  <1>7. 1 \in P
    BY <1>1, <1>4, <1>5, <1>6, Downwards
  <1>8. QED
    BY <1>2, <1>7 DEF P
-----------------------------------------------------------------------------
(* The stream *)

\* The first cells of an item that has come so far are before the cell it goes on with.
LEMMA SameItem ==
  ASSUME ComingInv, NEW m \in 1 .. Len(coming), NEW j \in 1 .. coming[m].at,
         m - coming[m].at + j >= 1
  PROVE  /\ m - coming[m].at + j \in 1 .. m
         /\ coming[m - coming[m].at + j].id = coming[m].id
         /\ coming[m - coming[m].at + j].at = j
         /\ coming[m - coming[m].at + j].kind = coming[m].kind
  <1>1. coming \in Seq(Cell) /\ coming[m].at \in 1 .. 4 /\ Len(coming) \in Nat
    BY DEF ComingInv, Cell
  <1>2. ASSUME NEW i \in 1 .. Len(coming), i > 1, coming[i].at > 1
        PROVE  /\ i - 1 \in 1 .. Len(coming) /\ coming[i - 1].id = coming[i].id
               /\ coming[i - 1].at = coming[i].at - 1 /\ coming[i - 1].kind = coming[i].kind
    <2>1. i - 1 \in 1 .. Len(coming) - 1 /\ (i - 1) + 1 = i
      BY <1>2
    <2>2. Follows(coming[i - 1], coming[i])
      BY <2>1 DEF ComingInv
    <2>3. coming[i - 1] \in Cell
      BY <2>1, <1>1
    <2>4. QED
      BY <1>2, <2>1, <2>2, <2>3 DEF Follows, Cell
  <1> DEFINE a == coming[m].at
  <1>3. CASE a - j = 0
    BY <1>1, <1>3
  <1>4. ASSUME a - j >= 1
        PROVE  /\ m - 1 \in 1 .. Len(coming) /\ coming[m - 1].id = coming[m].id
               /\ coming[m - 1].at = a - 1 /\ coming[m - 1].kind = coming[m].kind
    BY <1>1, <1>2, <1>4
  <1>5. ASSUME a - j >= 2
        PROVE  /\ m - 2 \in 1 .. Len(coming) /\ coming[m - 2].id = coming[m].id
               /\ coming[m - 2].at = a - 2 /\ coming[m - 2].kind = coming[m].kind
    <2>1. m - 1 > 1 /\ a - 1 > 1 /\ (m - 1) - 1 = m - 2
      BY <1>1, <1>5
    <2>2. QED
      BY <1>1, <1>2, <1>4, <1>5, <2>1, SMTT(30)
  <1>6. ASSUME a - j >= 3
        PROVE  /\ m - 3 \in 1 .. Len(coming) /\ coming[m - 3].id = coming[m].id
               /\ coming[m - 3].at = a - 3 /\ coming[m - 3].kind = coming[m].kind
    <2>1. m - 2 > 1 /\ a - 2 > 1 /\ (m - 2) - 1 = m - 3
      BY <1>1, <1>6
    <2>2. QED
      BY <1>1, <1>2, <1>5, <1>6, <2>1
  <1>7. a - j \in 0 .. 3
    BY <1>1
  <1>8. CASE a - j = 1
    <2>1. m - a + j = m - 1 /\ j = a - 1
      BY <1>1, <1>8
    <2>2. QED
      BY <1>1, <1>4, <1>8, <2>1
  <1>9. CASE a - j = 2
    <2>1. m - a + j = m - 2 /\ j = a - 2
      BY <1>1, <1>9
    <2>2. QED
      BY <1>1, <1>5, <1>9, <2>1
  <1>10. CASE a - j = 3
    <2>1. m - a + j = m - 3 /\ j = a - 3
      BY <1>1, <1>10
    <2>2. QED
      BY <1>1, <1>6, <1>10, <2>1
  <1>11. QED
    BY <1>3, <1>7, <1>8, <1>9, <1>10

\* What a read of n cells takes, and leaves.
LEMMA ReadTakes ==
  ASSUME ComingInv, NEW n \in 1 .. Len(coming), coming' = SubSeq(coming, n + 1, Len(coming)),
         items' = items
  PROVE  /\ SubSeq(coming, 1, n) \in Seq(Cell) /\ Len(SubSeq(coming, 1, n)) = n
         /\ \A i \in 1 .. n : SubSeq(coming, 1, n)[i] = coming[i]
         /\ coming' \in Seq(Cell) /\ Len(coming') = Len(coming) - n
         /\ \A i \in 1 .. Len(coming') : n + i \in 1 .. Len(coming) /\ coming'[i] = coming[n + i]
         /\ ComingInv'
  <1>1. coming \in Seq(Cell) /\ Len(coming) \in Nat
    BY DEF ComingInv
  <1>2. /\ SubSeq(coming, 1, n) \in Seq(Cell) /\ Len(SubSeq(coming, 1, n)) = n
        /\ \A i \in 1 .. n : SubSeq(coming, 1, n)[i] = coming[i]
    <2>1. \A i \in 1 .. n : coming[i] \in Cell
      BY <1>1
    <2>2. 1 <= n /\ n - 1 + 1 = n /\ \A i \in 1 .. n : 1 + i - 1 = i
      OBVIOUS
    <2>3. QED
      BY <2>1, <2>2, SubSeqProperties
  <1>3. /\ coming' \in Seq(Cell) /\ Len(coming') = Len(coming) - n
        /\ \A i \in 1 .. Len(coming') : n + i \in 1 .. Len(coming) /\ coming'[i] = coming[n + i]
    <2>1. \A i \in n + 1 .. Len(coming) : coming[i] \in Cell
      BY <1>1
    <2> DEFINE m == Len(coming)
    <2>2. /\ coming' \in Seq(Cell)
          /\ Len(coming') = IF n + 1 <= m THEN m - (n + 1) + 1 ELSE 0
          /\ \A i \in 1 .. m - (n + 1) + 1 : coming'[i] = coming[n + 1 + i - 1]
      BY <1>1, <2>1, SubSeqProperties
    <2>3. Len(coming') = m - n /\ \A i \in 1 .. m - n : n + 1 + i - 1 = n + i
      BY <1>1, <2>2
    <2>4. QED
      BY <1>1, <2>2, <2>3
  <1>4. Sorted(coming')
    BY <1>1, <1>3 DEF ComingInv, Sorted
  <1>5. \A i \in 1 .. Len(coming') - 1 : Follows(coming'[i], coming'[i + 1])
    <2>1. ASSUME NEW i \in 1 .. Len(coming') - 1
          PROVE  /\ n + i \in 1 .. Len(coming) - 1 /\ coming'[i] = coming[n + i]
                 /\ coming'[i + 1] = coming[(n + i) + 1]
      BY <1>1, <1>3
    <2>2. QED
      BY <2>1 DEF ComingInv
  <1>6. coming' # <<>> => coming'[Len(coming')].last
    <2>1. ASSUME coming' # <<>>
          PROVE  coming'[Len(coming')] = coming[Len(coming)] /\ coming # <<>>
      <3>1. Len(coming') \in Nat \ {0}
        BY <2>1, <1>3, EmptySeq
      <3>2. Len(coming') \in 1 .. Len(coming') /\ n + Len(coming') = Len(coming)
        BY <3>1, <1>1, <1>3
      <3>3. coming'[Len(coming')] = coming[Len(coming)]
        BY <3>2, <1>3
      <3>4. coming # <<>>
        <4>1. Len(coming) # 0
          BY <1>1
        <4>2. QED
          BY <4>1
      <3>5. QED
        BY <3>3, <3>4
    <2>2. QED
      BY <2>1 DEF ComingInv
  <1>7. \A i \in 1 .. Len(coming') : coming'[i].id <= items'
    BY <1>3 DEF ComingInv
  <1>8. items' \in Nat
    BY DEF ComingInv
  <1>9. QED
    BY <1>2, <1>3, <1>4, <1>5, <1>6, <1>7, <1>8 DEF ComingInv
-----------------------------------------------------------------------------
(* The record scanner *)

\* What is scanned: as much as was kept, size cells, and as much of the read as fitted,
\* copied cells.
InScan(n, size, copied, buf) ==
  /\ size \in Nat /\ size = IF Len(data_raw) = RawSize THEN 0 ELSE Len(data_raw)
  /\ copied \in 0 .. n /\ buf \in Seq(Cell) /\ Len(buf) = size + copied /\ Len(buf) <= RawSize
  /\ \A i \in 1 .. size : buf[i] = data_raw[i]
  /\ \A i \in 1 .. copied : buf[size + i] = coming[i]

\* What is in unscanned afterwards.
Unscanned(n, copied) ==
  /\ \A i \in 1 .. Len(coming) : coming[i].id \in unscanned => coming[i].id \in unscanned'
  /\ Len(data_raw) = RawSize => \A i \in 1 .. Len(data_raw) : data_raw[i].id \in unscanned'
  /\ \A i \in copied + 1 .. n : coming[i].id \in unscanned'

\* What ScanChunk does, its sequences spelled out.
LEMMA ChunkScanned ==
  ASSUME ComingInv, RawInv, NEW n \in 1 .. Len(coming), ScanChunk(SubSeq(coming, 1, n))
  PROVE  \E size \in Nat, copied \in Nat, buf \in Seq(Cell) :
           /\ InScan(n, size, copied, buf) /\ Unscanned(n, copied)
           /\ decoded' = decoded \o Scan(buf).found
           /\ data_raw' = SubSeq(buf, Scan(buf).done + 1, Len(buf))
  <1> DEFINE chunk == SubSeq(coming, 1, n)
             full == Len(data_raw) = RawSize
             kept == IF full THEN <<>> ELSE data_raw
             size == Len(kept)
             copied == MinOf(Len(chunk), Room(kept))
             copy == SubSeq(chunk, 1, copied)
             buf == kept \o copy
  <1>1. /\ chunk \in Seq(Cell) /\ Len(chunk) = n /\ \A i \in 1 .. n : chunk[i] = coming[i]
    <2>1. /\ coming \in Seq(Cell) /\ \A i \in 1 .. n : coming[i] \in Cell
          /\ 1 <= n /\ n - 1 + 1 = n /\ \A i \in 1 .. n : 1 + i - 1 = i
      BY DEF ComingInv
    <2>2. QED
      BY <2>1, SubSeqProperties
  <1>2. /\ kept \in Seq(Cell) /\ size \in Nat /\ size <= RawSize
        /\ size = IF full THEN 0 ELSE Len(data_raw)
        /\ \A i \in 1 .. size : kept[i] = data_raw[i]
    <2>1. CASE full
      BY <2>1, StreamAssumption
    <2>2. CASE ~full
      BY <2>2 DEF RawInv
    <2>3. QED
      BY <2>1, <2>2
  <1> HIDE DEF chunk, kept, full
  <1>3. copied \in 0 .. n /\ size + copied <= RawSize
    <2>1. copied = IF n < RawSize - size THEN n ELSE RawSize - size
      BY <1>1 DEF MinOf, Room
    <2>2. n \in Nat /\ n >= 1 /\ RawSize \in Nat /\ size \in Nat /\ size <= RawSize
      BY <1>2, StreamAssumption DEF ComingInv
    <2> HIDE DEF copied, size
    <2>3. QED
      BY <2>1, <2>2
  <1> HIDE DEF size, copied
  <1>4. copy \in Seq(Cell) /\ Len(copy) = copied /\ \A i \in 1 .. copied : copy[i] = coming[i]
    <2>1. /\ \A i \in 1 .. copied : chunk[i] \in Cell /\ chunk[i] = coming[i]
          /\ (IF 1 <= copied THEN copied - 1 + 1 ELSE 0) = copied
          /\ copied - 1 + 1 = copied
          /\ \A i \in 1 .. copied : 1 + i - 1 = i
      BY <1>1, <1>3
    <2>2. /\ copy \in Seq(Cell) /\ Len(copy) = IF 1 <= copied THEN copied - 1 + 1 ELSE 0
          /\ \A i \in 1 .. copied - 1 + 1 : copy[i] = chunk[1 + i - 1]
      BY <1>3, <2>1, SubSeqProperties
    <2>3. QED
      BY <2>1, <2>2
  <1>5. /\ buf \in Seq(Cell) /\ Len(buf) = size + copied
        /\ \A i \in 1 .. size : buf[i] = data_raw[i]
        /\ \A i \in 1 .. copied : buf[size + i] = coming[i]
    <2>1. /\ buf \in Seq(Cell) /\ Len(buf) = Len(kept) + Len(copy)
          /\ \A i \in 1 .. Len(kept) + Len(copy) :
               buf[i] = IF i <= Len(kept) THEN kept[i] ELSE copy[i - Len(kept)]
      BY <1>2, <1>4, ConcatProperties
    <2>2. Len(kept) = size
      BY DEF size
    <2> HIDE DEF copy, buf
    <2>3. \A i \in 1 .. size : i \in 1 .. Len(kept) + Len(copy) /\ i <= Len(kept)
      BY <2>2, <1>2, <1>3, <1>4
    <2>4. \A i \in 1 .. copied : /\ size + i \in 1 .. Len(kept) + Len(copy)
                                 /\ ~(size + i <= Len(kept)) /\ (size + i) - Len(kept) = i
      BY <2>2, <1>2, <1>3, <1>4
    <2>5. QED
      BY <2>1, <2>2, <2>3, <2>4, <1>2, <1>4
  <1>6. /\ decoded' = decoded \o Scan(buf).found
        /\ data_raw' = SubSeq(buf, Scan(buf).done + 1, Len(buf))
        /\ unscanned' = Unread(unscanned) \cup (IF full THEN Ids(data_raw) ELSE {})
                          \cup Ids(SubSeq(chunk, Len(copy) + 1, Len(chunk)))
    BY DEF ScanChunk, Unhandled, chunk, kept, full, copied
  <1>7. Unscanned(n, copied)
    <2>1. \A i \in 1 .. Len(coming) : coming[i].id \in unscanned => coming[i].id \in unscanned'
      BY <1>6 DEF Unread
    <2>2. full => \A i \in 1 .. Len(data_raw) : data_raw[i].id \in unscanned'
      BY <1>6 DEF Ids
    <2>3. ASSUME NEW i \in copied + 1 .. n PROVE coming[i].id \in unscanned'
      <3> DEFINE rest == SubSeq(chunk, copied + 1, n)
      <3>1. /\ \A k \in copied + 1 .. n : chunk[k] \in Cell
            /\ copied + 1 <= n /\ n - (copied + 1) + 1 = n - copied
            /\ i - copied \in 1 .. n - copied /\ copied + 1 + (i - copied) - 1 = i
            /\ chunk[i] = coming[i]
        BY <1>1, <1>3
      <3>2. Len(rest) = n - copied /\ \A k \in 1 .. n - copied : rest[k] = chunk[copied + 1 + k - 1]
        BY <1>3, <3>1, SubSeqProperties
      <3>3. i - copied \in 1 .. Len(rest) /\ rest[i - copied] = coming[i]
        BY <3>1, <3>2
      <3>4. coming[i].id \in Ids(rest)
        BY <3>3, Zenon DEF Ids
      <3>5. QED
        BY <3>4, <1>1, <1>4, <1>6
    <2>4. QED
      BY <2>1, <2>2, <2>3 DEF Unscanned, full
  <1>8. InScan(n, size, copied, buf)
    BY <1>2, <1>3, <1>5 DEF InScan, full
  <1> HIDE DEF buf
  <1>9. size \in Nat /\ copied \in Nat /\ buf \in Seq(Cell)
    BY <1>2, <1>3, <1>5 DEF buf
  <1>10. QED
    BY <1>6, <1>7, <1>8, <1>9

\* where the cells of buf are from
Origins(n, size, buf) ==
  \A i \in 1 .. Len(buf) :
    \/ i <= size /\ i \in 1 .. Len(data_raw) /\ buf[i] = data_raw[i]
    \/ i > size /\ i - size \in 1 .. n /\ buf[i] = coming[i - size]

\* What is scanned is in order.
LEMMA ScanSorted ==
  ASSUME ComingInv, RawInv, NEW n \in Nat, n \in 1 .. Len(coming),
         NEW size \in Nat, NEW copied \in Nat, NEW buf,
         InScan(n, size, copied, buf)
  PROVE  Sorted(buf) /\ Origins(n, size, buf)
  <1>1. ASSUME NEW i \in 1 .. Len(buf)
        PROVE  \/ i <= size /\ i \in 1 .. Len(data_raw) /\ buf[i] = data_raw[i]
               \/ i > size /\ i - size \in 1 .. n /\ buf[i] = coming[i - size]
    <2>1. CASE i <= size
      BY <2>1 DEF InScan, RawInv
    <2>2. CASE i > size
      <3>1. i - size \in 1 .. copied /\ size + (i - size) = i
        BY <2>2 DEF InScan
      <3>2. buf[i] = coming[i - size]
        BY <3>1 DEF InScan
      <3>3. QED
        BY <2>2, <3>1, <3>2 DEF InScan
    <2>3. QED
      BY <2>1, <2>2 DEF InScan
  <1>2. ASSUME NEW i \in 1 .. Len(buf), NEW j \in 1 .. Len(buf), i < j
        PROVE  Before(buf[i], buf[j])
    <2>1. CASE j <= size
      BY <1>1, <1>2, <2>1 DEF RawInv, Sorted, InScan
    <2>2. CASE i <= size /\ j > size
      <3>1. j - size \in 1 .. Len(coming)
        BY <1>1, <2>2 DEF InScan
      <3>2. ~(i > size) /\ ~(j <= size)
        BY <2>2 DEF InScan
      <3>3. /\ i \in 1 .. Len(data_raw) /\ buf[i] = data_raw[i]
            /\ buf[j] = coming[j - size]
        BY <1>1, <3>2, Zenon
      <3>4. QED
        BY <3>1, <3>3 DEF RawInv
    <2>3. CASE i > size
      <3>1. i - size < j - size /\ i - size \in 1 .. Len(coming) /\ j - size \in 1 .. Len(coming)
            /\ buf[i] = coming[i - size] /\ buf[j] = coming[j - size]
        BY <1>1, <1>2, <2>3, SMTT(30) DEF InScan
      <3>2. QED
        BY <3>1 DEF ComingInv, Sorted
    <2>4. QED
      BY <2>1, <2>2, <2>3 DEF InScan
  <1>3. QED
    BY <1>1, <1>2 DEF Sorted, Origins

\* an item nothing of which was missed is in what is scanned as far as it was read
ScansAll(n, size, buf) ==
  \A m \in 1 .. Len(coming), j \in 1 .. 4 :
    /\ m <= n + 1 /\ coming[m].id \notin unscanned'
    /\ j <= coming[m].at /\ m - coming[m].at + j <= n
    => LET q == size + m - coming[m].at + j
       IN  q \in 1 .. Len(buf) /\ buf[q].id = coming[m].id /\ buf[q].at = j
           /\ buf[q].kind = coming[m].kind

\* It is.
LEMMA Gathered ==
  ASSUME ComingInv, RawInv, RawTail, NEW n \in Nat, n \in 1 .. Len(coming),
         NEW size \in Nat, NEW copied \in Nat, NEW buf,
         InScan(n, size, copied, buf), Unscanned(n, copied)
  PROVE  ScansAll(n, size, buf)
  <1> SUFFICES ASSUME NEW m \in Nat, m \in 1 .. Len(coming), m <= n + 1,
                      coming[m].id \notin unscanned',
                      NEW a \in 1 .. 4, a = coming[m].at, NEW j \in 1 .. a, m - a + j <= n
               PROVE  LET q == size + m - a + j
                      IN  q \in 1 .. Len(buf) /\ buf[q].id = coming[m].id /\ buf[q].at = j
                          /\ buf[q].kind = coming[m].kind
    <2>1. ASSUME NEW m \in 1 .. Len(coming) PROVE m \in Nat /\ coming[m].at \in 1 .. 4
      <3>1. coming[m] \in Cell
        BY DEF ComingInv
      <3>2. QED
        BY <3>1 DEF Cell
    <2>2. \A a \in 1 .. 4, j \in 1 .. 4 : j <= a => j \in 1 .. a
      OBVIOUS
    <2>3. ASSUME NEW m \in 1 .. Len(coming), NEW j \in 1 .. 4, m <= n + 1,
                 coming[m].id \notin unscanned', j <= coming[m].at, m - coming[m].at + j <= n
          PROVE  LET q == size + m - coming[m].at + j
                 IN  q \in 1 .. Len(buf) /\ buf[q].id = coming[m].id /\ buf[q].at = j
                     /\ buf[q].kind = coming[m].kind
      <3>1. j \in 1 .. coming[m].at
        BY <2>1, <2>2, <2>3
      <3>2. QED
        BY <2>1, <2>3, <3>1, Zenon
    <2>4. QED
      BY <2>3 DEF ScansAll
  <1>1. PICK t \in Int : t = m - a + j
    OBVIOUS
  <1>2. Len(coming) \in Nat /\ m >= 1
    BY DEF ComingInv
  <1>3. t <= n /\ size + m - a + j = size + t
    BY <1>1
  <1>4. copied <= n /\ Len(buf) = size + copied
    BY DEF InScan
  <1>5. /\ size = IF Len(data_raw) = RawSize THEN 0 ELSE Len(data_raw)
        /\ \A i \in 1 .. size : buf[i] = data_raw[i]
        /\ \A i \in 1 .. copied : buf[size + i] = coming[i]
    BY DEF InScan
  <1>6. CASE t >= 1
    <2>1. t \in 1 .. n
      BY <1>3, <1>6
    <2>2. coming[t].id = coming[m].id /\ coming[t].at = j /\ coming[t].kind = coming[m].kind
      BY <1>1, <1>6, SameItem
    <2>3. t <= copied
      <3>1. SUFFICES ASSUME t > copied PROVE FALSE
        OBVIOUS
      <3>2. t \in copied + 1 .. n
        BY <1>3, <3>1
      <3>3. QED
        BY <2>2, <3>2, Zenon DEF Unscanned
    <2>4. t \in 1 .. copied /\ size + t \in 1 .. size + copied
      BY <1>6, <2>3
    <2>5. buf[size + t] = coming[t]
      BY <1>5, <2>4, Zenon
    <2>6. QED
      BY <1>3, <1>4, <2>2, <2>4, <2>5, Zenon
  <1>7. CASE t <= 0
    <2>1. PICK f \in Int : f = a - m + 1
      OBVIOUS
    <2>2. f \in 1 .. a /\ f > j /\ f - 1 = j - t /\ m - a + f = 1
      <3>1. f - 1 = j - t /\ m - a + f = 1
        BY <1>1, <2>1, SMTT(30)
      <3>2. f <= a
        BY <1>2, <2>1
      <3>3. f > j
        BY <1>7, <3>1
      <3>4. QED
        BY <3>1, <3>2, <3>3
    <2>3. coming[1].id = coming[m].id /\ coming[1].at = f /\ coming[1].kind = coming[m].kind
      <3>1. f \in 1 .. coming[m].at /\ m - coming[m].at + f = 1
        BY <2>2
      <3>2. 1 >= 1
        OBVIOUS
      <3>3. LET k == m - coming[m].at + f
            IN  k >= 1 => coming[k].id = coming[m].id /\ coming[k].at = f
                          /\ coming[k].kind = coming[m].kind
        BY <3>1, SameItem
      <3>4. QED
        BY <3>1, <3>2, <3>3, Zenon
    <2>4. 1 \in 1 .. Len(coming) /\ coming # <<>>
      <3>1. Len(coming) # 0
        BY <1>2
      <3>2. QED
        BY <1>2, <3>1
    <2>5. coming[1].id \notin unscanned
      BY <2>3, <2>4 DEF Unscanned
    <2>6. j \in 1 .. f - 1
      BY <2>2
    <2>7. PICK len \in Nat : len = Len(data_raw)
      BY DEF RawInv
    <2>8. PICK d \in Int : d = len - (f - 1) + j
      OBVIOUS
    <2>9. /\ f - 1 <= len
          /\ data_raw[d].id = coming[1].id /\ data_raw[d].at = j /\ data_raw[d].kind = coming[1].kind
      BY <2>3, <2>4, <2>5, <2>6, <2>7, <2>8 DEF RawTail
    <2>10. d \in 1 .. len /\ d = len + t
      BY <2>2, <2>6, <2>8, <2>9
    <2>11. size = len
      BY <1>5, <2>3, <2>7, <2>9, <2>10 DEF Unscanned
    <2>12. size + t = d /\ d \in 1 .. size /\ d \in 1 .. size + copied
      BY <2>10, <2>11
    <2>13. buf[d] = data_raw[d]
      BY <1>5, <2>12, Zenon
    <2>14. QED
      BY <1>3, <1>4, <2>3, <2>9, <2>12, <2>13, Zenon
  <1>8. QED
    BY <1>6, <1>7

\* what is in data_raw after the scan of buf was done with done cells
Leaves(buf, done) ==
  /\ Len(data_raw') = Len(buf) - done
  /\ \A i \in 1 .. Len(data_raw') : data_raw'[i] = buf[done + i]

\* What the scan is not done with, and what it has decoded.
LEMMA ScanLeaves ==
  ASSUME ComingInv, RawInv, DecodedInv, NEW n \in Nat, n \in 1 .. Len(coming),
         NEW size \in Nat, NEW copied \in Nat, NEW buf,
         coming' = SubSeq(coming, n + 1, Len(coming)), items' = items,
         InScan(n, size, copied, buf), ScanFacts(buf, 1, Scan(buf)),
         decoded' = decoded \o Scan(buf).found,
         data_raw' = SubSeq(buf, Scan(buf).done + 1, Len(buf))
  PROVE  RawInv' /\ DecodedInv' /\ Leaves(buf, Scan(buf).done)
  <1> DEFINE done == Scan(buf).done
             found == Scan(buf).found
             N == Len(buf)
  <1>1. buf \in Seq(Cell) /\ N \in Nat /\ N <= RawSize /\ done \in 0 .. N /\ found \in Seq(Nat)
        /\ Len(coming) \in Nat
    BY DEF InScan, ScanFacts, ComingInv
  <1>2. /\ coming' \in Seq(Cell) /\ Len(coming') = Len(coming) - n
        /\ \A i \in 1 .. Len(coming') : n + i \in 1 .. Len(coming) /\ coming'[i] = coming[n + i]
    BY ReadTakes
  <1>3. /\ Sorted(buf)
        /\ \A i \in 1 .. N :
             \/ i <= size /\ i \in 1 .. Len(data_raw) /\ buf[i] = data_raw[i]
             \/ i > size /\ i - size \in 1 .. n /\ buf[i] = coming[i - size]
    <2>1. Sorted(buf) /\ Origins(n, size, buf)
      BY ScanSorted
    <2>2. QED
      BY <2>1 DEF Origins
  <1> HIDE DEF done, found, N
  <1>4. /\ data_raw' \in Seq(Cell) /\ Len(data_raw') = N - done
        /\ \A i \in 1 .. N - done : data_raw'[i] = buf[done + i] /\ done + i \in 1 .. N
    <2>1. /\ \A i \in done + 1 .. N : buf[i] \in Cell
          /\ done + 1 \in Int /\ N \in Int
          /\ (IF done + 1 <= N THEN N - (done + 1) + 1 ELSE 0) = N - done
          /\ N - (done + 1) + 1 = N - done
          /\ \A i \in 1 .. N - done : done + 1 + i - 1 = done + i /\ done + i \in 1 .. N
      BY <1>1 DEF N
    <2>2. /\ data_raw' \in Seq(Cell)
          /\ Len(data_raw') = IF done + 1 <= N THEN N - (done + 1) + 1 ELSE 0
          /\ \A i \in 1 .. N - (done + 1) + 1 : data_raw'[i] = buf[done + 1 + i - 1]
      BY <2>1, SubSeqProperties, SMTT(30) DEF done, N
    <2>3. QED
      BY <2>1, <2>2
  <1>5. ASSUME NEW i \in 1 .. N
        PROVE  buf[i].id <= items /\ \A j \in 1 .. Len(coming') : Before(buf[i], coming'[j])
    <2>1. CASE i \in 1 .. Len(data_raw) /\ buf[i] = data_raw[i]
      BY <2>1, <1>2 DEF RawInv
    <2>2. CASE i - size \in 1 .. n /\ buf[i] = coming[i - size]
      <3>1. PICK k \in Int : k = i - size
        OBVIOUS
      <3>2. k \in 1 .. n /\ k \in 1 .. Len(coming) /\ buf[i] = coming[k]
        BY <2>2, <3>1, <1>1
      <3>3. ASSUME NEW j \in Nat, j \in 1 .. Len(coming') PROVE Before(coming[k], coming[n + j])
        <4>1. n + j \in 1 .. Len(coming) /\ k < n + j
          BY <3>2, <3>3, <1>2, SMTT(30)
        <4>2. QED
          BY <3>2, <4>1 DEF ComingInv, Sorted
      <3>4. \A j \in 1 .. Len(coming') : Before(coming[k], coming'[j])
        BY <3>3, <1>2
      <3>5. QED
        BY <3>2, <3>4 DEF ComingInv
    <2>3. QED
      BY <2>1, <2>2, <1>3
  <1>6. RawInv'
    <2>1. Sorted(data_raw')
      <3>1. ASSUME NEW i \in 1 .. Len(data_raw'), NEW j \in 1 .. Len(data_raw'), i < j
            PROVE  Before(data_raw'[i], data_raw'[j])
        <4>1. /\ data_raw'[i] = buf[done + i] /\ data_raw'[j] = buf[done + j]
              /\ done + i \in 1 .. N /\ done + j \in 1 .. N
          BY <1>4
        <4>2. done + i < done + j
          BY <3>1, <1>1, <1>4
        <4>3. QED
          BY <4>1, <4>2, <1>3 DEF Sorted, N
      <3>2. QED
        BY <3>1 DEF Sorted
    <2>2. \A i \in 1 .. Len(data_raw') :
            data_raw'[i].id <= items' /\ \A j \in 1 .. Len(coming') : Before(data_raw'[i], coming'[j])
      BY <1>4, <1>5
    <2>3. Len(data_raw') <= RawSize
      BY <1>1, <1>4, StreamAssumption, SMTT(30)
    <2>4. QED
      BY <1>4, <2>1, <2>2, <2>3 DEF RawInv
  <1>7. ASSUME NEW i \in 1 .. Len(decoded)
        PROVE  /\ decoded[i] <= items
               /\ \A j \in 1 .. N : Past(decoded[i], buf[j])
               /\ \A j \in 1 .. Len(coming') : Past(decoded[i], coming'[j])
    <2>1. ASSUME NEW j \in 1 .. N PROVE Past(decoded[i], buf[j])
      <3>1. CASE j \in 1 .. Len(data_raw) /\ buf[j] = data_raw[j]
        BY <3>1 DEF DecodedInv
      <3>2. CASE j - size \in 1 .. n /\ buf[j] = coming[j - size]
        <4>1. j - size \in 1 .. Len(coming)
          BY <3>2, <1>1
        <4>2. QED
          BY <4>1, <3>2 DEF DecodedInv
      <3>3. QED
        BY <1>3, <3>1, <3>2
    <2>2. QED
      BY <1>2, <2>1 DEF DecodedInv
  <1>8. ASSUME NEW i \in 1 .. Len(found)
        PROVE  /\ found[i] \in Nat /\ found[i] <= items
               /\ \A j \in done + 1 .. N : Past(found[i], buf[j])
               /\ \A j \in 1 .. Len(coming') : Past(found[i], coming'[j])
               /\ \A k \in 1 .. Len(decoded) : decoded[k] < found[i]
    <2>1. PICK p \in 1 .. N : Found(buf, p) /\ buf[p].id = found[i] /\ p < done
      BY DEF ScanFacts, N, found, done
    <2>2. buf[p].at = 1
      BY <2>1, FoundRecord, <1>1 DEF N
    <2>3. \A j \in done + 1 .. N : p < j /\ j \in 1 .. N
      BY <2>1, <1>1
    <2>4. \A j \in done + 1 .. N : Before(buf[p], buf[j])
      BY <2>3, <1>3 DEF Sorted, N
    <2>5. \A j \in 1 .. Len(coming') : Before(buf[p], coming'[j])
      BY <1>5
    <2>6. \A k \in 1 .. Len(decoded) : Past(decoded[k], buf[p])
      BY <1>7
    <2>7. buf[p].id \in Nat
      <3>1. buf[p] \in Cell
        BY <1>1 DEF N
      <3>2. QED
        BY <3>1 DEF Cell
    <2>8. found[i] \in Nat /\ found[i] <= items
      BY <2>1, <2>7, <1>5
    <2>9. \A j \in done + 1 .. N : Past(found[i], buf[j])
      BY <2>1, <2>2, <2>4, Zenon DEF Before, Past
    <2>10. \A j \in 1 .. Len(coming') : Past(found[i], coming'[j])
      BY <2>1, <2>2, <2>5, Zenon DEF Before, Past
    <2>11. \A k \in 1 .. Len(decoded) : decoded[k] < found[i]
      BY <2>1, <2>2, <2>6 DEF Past
    <2>12. QED
      BY <2>8, <2>9, <2>10, <2>11
  <1>9. /\ decoded' \in Seq(Nat) /\ Len(decoded') = Len(decoded) + Len(found)
        /\ Len(decoded) \in Nat /\ Len(found) \in Nat
        /\ \A i \in 1 .. Len(decoded') :
             \/ i <= Len(decoded) /\ i \in 1 .. Len(decoded) /\ decoded'[i] = decoded[i]
             \/ /\ i > Len(decoded) /\ i - Len(decoded) \in 1 .. Len(found)
                /\ decoded'[i] = found[i - Len(decoded)]
    <2>1. decoded \in Seq(Nat)
      BY DEF DecodedInv
    <2>2. /\ decoded' \in Seq(Nat) /\ Len(decoded') = Len(decoded) + Len(found)
          /\ \A i \in 1 .. Len(decoded) + Len(found) :
               decoded'[i] = IF i <= Len(decoded) THEN decoded[i] ELSE found[i - Len(decoded)]
      BY <1>1, <2>1, ConcatProperties DEF found
    <2>3. Len(decoded) \in Nat /\ Len(found) \in Nat
      BY <1>1, <2>1
    <2>4. ASSUME NEW i \in 1 .. Len(decoded')
          PROVE  \/ i <= Len(decoded) /\ i \in 1 .. Len(decoded) /\ decoded'[i] = decoded[i]
                 \/ /\ i > Len(decoded) /\ i - Len(decoded) \in 1 .. Len(found)
                    /\ decoded'[i] = found[i - Len(decoded)]
      <3>1. i \in 1 .. Len(decoded) + Len(found)
        BY <2>2
      <3>2. decoded'[i] = IF i <= Len(decoded) THEN decoded[i] ELSE found[i - Len(decoded)]
        BY <2>2, <3>1
      <3>3. QED
        BY <2>3, <3>1, <3>2
    <2>5. QED
      BY <2>2, <2>3, <2>4
  <1>10. RecordsOnce'
    <2>1. Increasing(decoded) /\ Increasing(found)
      BY DEF DecodedInv, RecordsOnce, ScanFacts, found
    <2>2. ASSUME NEW i \in 1 .. Len(decoded'), NEW j \in 1 .. Len(decoded'), i < j
          PROVE  decoded'[i] < decoded'[j]
      <3>1. CASE j <= Len(decoded)
        <4>1. /\ i \in 1 .. Len(decoded) /\ j \in 1 .. Len(decoded)
              /\ decoded'[i] = decoded[i] /\ decoded'[j] = decoded[j]
          BY <3>1, <2>2, <1>9
        <4>2. QED
          BY <4>1, <2>1, <2>2 DEF Increasing
      <3>2. CASE i <= Len(decoded) /\ j > Len(decoded)
        <4>1. /\ i \in 1 .. Len(decoded) /\ j - Len(decoded) \in 1 .. Len(found)
              /\ decoded'[i] = decoded[i] /\ decoded'[j] = found[j - Len(decoded)]
          <5>1. ~(i > Len(decoded)) /\ ~(j <= Len(decoded))
            BY <3>2, <1>9
          <5>2. i \in 1 .. Len(decoded) /\ decoded'[i] = decoded[i]
            BY <1>9, <5>1, Zenon
          <5>3. j - Len(decoded) \in 1 .. Len(found) /\ decoded'[j] = found[j - Len(decoded)]
            BY <1>9, <5>1, Zenon
          <5>4. QED
            BY <5>2, <5>3
        <4>2. QED
          BY <4>1, <1>8
      <3>3. CASE i > Len(decoded)
        <4>1. ~(i <= Len(decoded)) /\ ~(j <= Len(decoded)) /\ i - Len(decoded) < j - Len(decoded)
          BY <3>3, <2>2, <1>9, SMTT(30)
        <4>2. /\ i - Len(decoded) \in 1 .. Len(found) /\ j - Len(decoded) \in 1 .. Len(found)
              /\ decoded'[i] = found[i - Len(decoded)] /\ decoded'[j] = found[j - Len(decoded)]
          BY <4>1, <1>9, Zenon
        <4>3. QED
          BY <4>1, <4>2, <2>1 DEF Increasing
      <3>4. QED
        BY <3>1, <3>2, <3>3, <1>9
    <2>3. QED
      BY <2>2 DEF RecordsOnce, Increasing
  <1>11. ASSUME NEW i \in 1 .. Len(decoded')
         PROVE  /\ decoded'[i] <= items'
                /\ \A j \in 1 .. Len(data_raw') : Past(decoded'[i], data_raw'[j])
                /\ \A j \in 1 .. Len(coming') : Past(decoded'[i], coming'[j])
    <2>1. ASSUME NEW j \in 1 .. Len(data_raw')
          PROVE  done + j \in 1 .. N /\ done + j \in done + 1 .. N /\ data_raw'[j] = buf[done + j]
      <3>1. PICK k \in Nat : k = done
        BY <1>1
      <3>2. PICK l \in Nat : l = N
        BY <1>1
      <3>3. j \in 1 .. l - k /\ j \in Nat
        BY <3>1, <3>2, <1>4, SMTT(30)
      <3>4. k + j \in 1 .. l /\ k + j \in k + 1 .. l
        BY <3>3
      <3>5. QED
        BY <3>1, <3>2, <3>4, <1>4
    <2>2. CASE i \in 1 .. Len(decoded) /\ decoded'[i] = decoded[i]
      BY <2>1, <2>2, <1>7
    <2>3. CASE i - Len(decoded) \in 1 .. Len(found) /\ decoded'[i] = found[i - Len(decoded)]
      BY <2>1, <2>3, <1>8
    <2>4. QED
      BY <2>2, <2>3, <1>9
  <1>12. DecodedInv'
    BY <1>9, <1>10, <1>11 DEF DecodedInv
  <1>13. QED
    BY <1>4, <1>6, <1>12 DEF Leaves, done, N
\* The item that the read cut stays in the buffer as far as it was read.
LEMMA TailStays ==
  ASSUME ComingInv, RawInv, RawTail, NEW n \in Nat, n \in 1 .. Len(coming),
         NEW size \in Nat, NEW copied \in Nat, NEW buf, NEW done \in Nat,
         coming' = SubSeq(coming, n + 1, Len(coming)), items' = items,
         InScan(n, size, copied, buf), Unscanned(n, copied),
         done <= Len(buf), done > 0 => done - 1 \in 1 .. Len(buf) /\ Found(buf, done - 1),
         Leaves(buf, done)
  PROVE  RawTail'
  <1> SUFFICES ASSUME coming' # <<>>, coming'[1].id \notin unscanned'
               PROVE  LET have == coming'[1].at - 1
                      IN  /\ have <= Len(data_raw')
                          /\ \A j \in 1 .. have :
                               LET c == data_raw'[Len(data_raw') - have + j]
                               IN  c.id = coming'[1].id /\ c.at = j /\ c.kind = coming'[1].kind
    BY DEF RawTail
  <1>1. n + 1 \in 1 .. Len(coming) /\ coming'[1] = coming[n + 1] /\ coming'[1] \in Cell
    <2>1. Len(coming') \in Nat \ {0} /\ 1 \in 1 .. Len(coming')
      BY ReadTakes, EmptySeq
    <2>2. /\ coming' \in Seq(Cell)
          /\ \A i \in 1 .. Len(coming') : n + i \in 1 .. Len(coming) /\ coming'[i] = coming[n + i]
      BY ReadTakes
    <2>3. coming'[1] \in Cell
      BY <2>1, <2>2
    <2>4. QED
      BY <2>1, <2>2, <2>3, Zenon
  <1>2. PICK a \in 1 .. 4 : a = coming'[1].at
    BY <1>1 DEF Cell
  <1>3. buf \in Seq(Cell) /\ Len(buf) \in Nat /\ Len(buf) = size + copied /\ copied <= n
    BY DEF InScan
  <1>4. ASSUME NEW j \in 1 .. a, j < a
        PROVE  LET q == size + (n + 1) - a + j
               IN  q \in 1 .. Len(buf) /\ buf[q].id = coming'[1].id /\ buf[q].at = j
                   /\ buf[q].kind = coming'[1].kind
    <2>1. PICK m \in 1 .. Len(coming) : m = n + 1
      BY <1>1
    <2>2. m - a + j <= n /\ m <= n + 1 /\ j \in 1 .. 4 /\ j <= a
      <3>1. PICK k \in Nat : k = m
        BY <2>1
      <3>2. k = n + 1
        BY <2>1, <3>1
      <3>3. k - a + j <= n /\ k <= n + 1 /\ j \in 1 .. 4 /\ j <= a
        BY <1>4, <3>2
      <3>4. QED
        BY <3>1, <3>3
    <2>3. coming[m].id \notin unscanned' /\ a = coming[m].at
      BY <1>1, <1>2, <2>1
    <2>4. LET q == size + m - coming[m].at + j
          IN  q \in 1 .. Len(buf) /\ buf[q].id = coming[m].id /\ buf[q].at = j
              /\ buf[q].kind = coming[m].kind
      <3>1. ScansAll(n, size, buf)
        BY Gathered
      <3>2. m - coming[m].at + j <= n /\ j <= coming[m].at
        BY <2>2, <2>3
      <3>3. QED
        BY <2>2, <2>3, <3>1, <3>2, Zenon DEF ScansAll
    <2>5. QED
      BY <1>1, <2>1, <2>3, <2>4
  <1>5. CASE a = 1
    <2>1. Len(data_raw') \in Nat /\ a - 1 = 0
      BY <1>3, <1>5 DEF Leaves
    <2>2. QED
      BY <1>2, <2>1
  <1>6. CASE a > 1
    <2>1. a - 1 \in 1 .. a /\ a - 1 < a
      BY <1>6
    <2>2. size + (n + 1) - a + (a - 1) \in 1 .. Len(buf)
      BY <1>4, <2>1
    <2>3. copied = n /\ Len(buf) = size + n
      BY <1>3, <2>2, SMTT(30)
    <2>4. PICK N \in Nat : N = Len(buf)
      BY <1>3
    <2>5. N = size + n
      BY <2>3, <2>4
    <2>6. done <= N - (a - 1)
      <3>1. SUFFICES ASSUME done > N - (a - 1) PROVE FALSE
        BY <2>4
      <3>2. PICK j \in Int : j = done - (N - (a - 1))
        OBVIOUS
      <3>3. j \in 1 .. a /\ j < a /\ size + (n + 1) - a + j = done
        BY <1>3, <2>4, <2>5, <3>1, <3>2
      <3>4. buf[done].at = j /\ done \in 1 .. Len(buf)
        BY <1>4, <3>3
      <3>5. done - 1 \in 1 .. Len(buf) /\ Found(buf, done - 1)
        BY <3>4
      <3>6. (done - 1) + 3 <= Len(buf) /\ buf[(done - 1) + 1].at = 2 /\ (done - 1) + 1 = done
        <4>1. PICK d \in 1 .. Len(buf) : d = done - 1
          BY <3>5
        <4>2. d + 3 <= Len(buf) /\ buf[d + 1].at = 2
          BY <3>5, <4>1, <1>3, FoundRecord
        <4>3. QED
          BY <4>1, <4>2
      <3>7. j = 2 /\ done + 2 <= N
        BY <2>4, <3>4, <3>6
      <3>8. QED
        BY <3>2, <3>7, <3>3
    <2>7. ASSUME NEW j \in 1 .. a - 1
          PROVE  LET c == data_raw'[Len(data_raw') - (a - 1) + j]
                 IN  c.id = coming'[1].id /\ c.at = j /\ c.kind = coming'[1].kind
      <3>1. PICK q \in Int : q = size + (n + 1) - a + j
        OBVIOUS
      <3>2. j \in 1 .. a /\ j < a
        OBVIOUS
      <3>3. buf[q].id = coming'[1].id /\ buf[q].at = j /\ buf[q].kind = coming'[1].kind
        BY <1>4, <3>1, <3>2
      <3>4. PICK k \in Int : k = N - done - (a - 1) + j
        OBVIOUS
      <3>5. k \in 1 .. N - done /\ done + k = q
        BY <2>5, <2>6, <3>1, <3>4
      <3>6. Len(data_raw') = N - done
        BY <2>4 DEF Leaves
      <3>7. Len(data_raw') - (a - 1) + j = k /\ k \in 1 .. Len(data_raw')
        BY <3>4, <3>5, <3>6
      <3>8. data_raw'[k] = buf[q]
        BY <3>5, <3>7, Zenon DEF Leaves
      <3>9. QED
        BY <3>3, <3>7, <3>8
    <2>8. a - 1 <= Len(data_raw')
      BY <2>4, <2>6 DEF Leaves
    <2>9. QED
      BY <1>2, <2>7, <2>8
  <1>7. QED
    BY <1>5, <1>6

\* A record the last byte of which was read is found.
LEMMA RecordFound ==
  ASSUME ComingInv, RawInv, RawTail, NEW n \in Nat, n \in 1 .. Len(coming),
         NEW size \in Nat, NEW copied \in Nat, NEW buf,
         InScan(n, size, copied, buf), Unscanned(n, copied), ScanFacts(buf, 1, Scan(buf)),
         NEW m \in Nat, m \in 1 .. n, coming[m].last, coming[m].kind = "record",
         coming[m].id \notin unscanned'
  PROVE  \E i \in 1 .. Len(Scan(buf).found) : Scan(buf).found[i] = coming[m].id
  <1>1. m \in 1 .. Len(coming) /\ m <= n + 1 /\ Len(coming) \in Nat
    BY DEF ComingInv
  <1>2. coming[m] \in Cell
    BY <1>1 DEF ComingInv
  <1>3. coming[m].at = 4
    BY <1>2 DEF Cell, SizeOf
  <1>4. ASSUME NEW j \in 1 .. 4
        PROVE  LET q == size + m - 4 + j
               IN  q \in 1 .. Len(buf) /\ buf[q].id = coming[m].id /\ buf[q].at = j
                   /\ buf[q].kind = "record"
    <2>1. m - coming[m].at + j <= n /\ j <= coming[m].at
      BY <1>3
    <2>2. LET q == size + m - coming[m].at + j
          IN  q \in 1 .. Len(buf) /\ buf[q].id = coming[m].id /\ buf[q].at = j
              /\ buf[q].kind = coming[m].kind
      <3>1. ScansAll(n, size, buf)
        BY Gathered
      <3>2. QED
        BY <1>1, <2>1, <3>1, Zenon DEF ScansAll
    <2>3. QED
      BY <1>3, <2>2
  <1> DEFINE p == size + m - 3
  <1>5. Len(buf) \in Nat
    BY DEF InScan
  <1>6. ASSUME NEW k \in 0 .. 3
        PROVE  p + k \in 1 .. Len(buf) /\ buf[p + k].id = coming[m].id /\ buf[p + k].at = k + 1
               /\ buf[p + k].kind = "record"
    <2>1. k + 1 \in 1 .. 4 /\ size + m - 4 + (k + 1) = p + k
      OBVIOUS
    <2>2. QED
      BY <1>4, <2>1
  <1> HIDE DEF p
  <1>7. p + 0 = p /\ p \in Int
    BY DEF p
  <1>8. p \in 1 .. Len(buf) /\ buf[p].id = coming[m].id /\ buf[p].at = 1 /\ buf[p].kind = "record"
    <2>1. 0 \in 0 .. 3
      OBVIOUS
    <2>2. QED
      BY <1>6, <1>7, <2>1
  <1>9. p + 3 <= Len(buf)
    <2>1. 3 \in 0 .. 3
      OBVIOUS
    <2>2. p + 3 \in 1 .. Len(buf)
      BY <1>6, <2>1
    <2>3. QED
      BY <2>2, <1>5, <1>7
  <1>10. Found(buf, p)
    <2>1. p + 2 + 2 - 1 <= Len(buf) /\ 2 + 2 - 1 = 3
      BY <1>7, <1>9
    <2>2. \A k \in 0 .. 3 : buf[p + k].id = buf[p].id /\ buf[p + k].at = k + 1
      BY <1>6, <1>8
    <2>3. QED
      BY <1>8, <2>1, <2>2 DEF Found, Header, ChecksOut, Overhead, ClaimedLength
  <1>11. QED
    BY <1>8, <1>10 DEF ScanFacts
\* What a read was the last of.
WholeIs(n) ==
  whole' = {[id |-> coming[i].id, kind |-> coming[i].kind] : i \in {k \in 1 .. n : coming[k].last}}

\* A read that is scanned.
LEMMA ChunkScans ==
  ASSUME ComingInv, ScanInv, NEW n \in Nat, n \in 1 .. Len(coming),
         coming' = SubSeq(coming, n + 1, Len(coming)), items' = items,
         ScanChunk(SubSeq(coming, 1, n)), WholeIs(n)
  PROVE  ScanInv'
  <1>1. RawInv /\ DecodedInv /\ RawTail
    BY DEF ScanInv
  <1>2. PICK size \in Nat, copied \in Nat, buf \in Seq(Cell) :
           /\ InScan(n, size, copied, buf) /\ Unscanned(n, copied)
           /\ decoded' = decoded \o Scan(buf).found
           /\ data_raw' = SubSeq(buf, Scan(buf).done + 1, Len(buf))
    BY <1>1, ChunkScanned
  <1>3. buf \in Seq(Cell) /\ Sorted(buf)
    <2>1. buf \in Seq(Cell)
      BY <1>2, Zenon DEF InScan
    <2>2. Sorted(buf)
      BY <1>1, <1>2, ScanSorted
    <2>3. QED
      BY <2>1, <2>2
  <1>4. ScanFacts(buf, 1, Scan(buf))
    BY <1>3, ScanFinds
  <1>5. RawInv' /\ DecodedInv' /\ Leaves(buf, Scan(buf).done)
    BY <1>1, <1>2, <1>4, ScanLeaves
  <1>6. RawTail'
    <2>1. /\ Scan(buf).done \in Nat /\ Scan(buf).done <= Len(buf)
          /\ Scan(buf).done > 0 => /\ Scan(buf).done - 1 \in 1 .. Len(buf)
                                   /\ Found(buf, Scan(buf).done - 1)
      BY <1>4 DEF ScanFacts
    <2>2. QED
      BY <1>1, <1>2, <1>5, <2>1, TailStays
  <1>7. RecordsDecoded'
    <2>1. SUFFICES ASSUME NEW w \in whole', w.kind = "record", w.id \notin unscanned'
                   PROVE  w.id \in ToSet(decoded')
      BY DEF RecordsDecoded
    <2>2. PICK m \in 1 .. n : /\ coming[m].last
                              /\ w = [id |-> coming[m].id, kind |-> coming[m].kind]
      BY DEF WholeIs
    <2>3. m \in Nat /\ coming[m].kind = "record" /\ coming[m].id \notin unscanned' /\ w.id = coming[m].id
      BY <2>1, <2>2
    <2>4. PICK i \in 1 .. Len(Scan(buf).found) : Scan(buf).found[i] = w.id
      BY <1>1, <1>2, <1>4, <2>2, <2>3, RecordFound
    <2>5. /\ decoded \in Seq(Nat) /\ Scan(buf).found \in Seq(Nat)
          /\ Len(decoded) \in Nat /\ Len(Scan(buf).found) \in Nat
      BY <1>1, <1>4 DEF DecodedInv, ScanFacts
    <2>6. /\ Len(decoded') = Len(decoded) + Len(Scan(buf).found)
          /\ \A k \in 1 .. Len(decoded) + Len(Scan(buf).found) :
               decoded'[k] = IF k <= Len(decoded) THEN decoded[k]
                                                  ELSE Scan(buf).found[k - Len(decoded)]
      BY <1>2, <2>5, ConcatProperties
    <2>7. /\ Len(decoded) + i \in 1 .. Len(decoded')
          /\ ~(Len(decoded) + i <= Len(decoded)) /\ (Len(decoded) + i) - Len(decoded) = i
      BY <2>5, <2>6
    <2>8. decoded'[Len(decoded) + i] = w.id
      BY <2>4, <2>6, <2>7
    <2>9. decoded' \in Seq(Nat)
      BY <1>5 DEF DecodedInv
    <2>10. QED
      BY <2>7, <2>8, <2>9 DEF ToSet
  <1>8. QED
    BY <1>5, <1>6, <1>7 DEF ScanInv

\* A read that is not.
LEMMA ChunkPasses ==
  ASSUME ComingInv, ScanInv, NEW n \in Nat, n \in 1 .. Len(coming),
         coming' = SubSeq(coming, n + 1, Len(coming)), items' = items, WholeIs(n),
         UNCHANGED <<data_raw, decoded>>,
         unscanned' = Unread(unscanned) \cup Ids(SubSeq(coming, 1, n))
  PROVE  ScanInv'
  <1>1. Len(coming) \in Nat /\ coming \in Seq(Cell)
    BY DEF ComingInv
  <1>2. /\ Len(coming') = Len(coming) - n /\ coming' \in Seq(Cell)
        /\ \A i \in 1 .. Len(coming') : n + i \in 1 .. Len(coming) /\ coming'[i] = coming[n + i]
    BY ReadTakes
  <1>3. \A i \in 1 .. n : coming[i].id \in unscanned'
    <2>1. /\ Len(SubSeq(coming, 1, n)) = n
          /\ \A i \in 1 .. n : SubSeq(coming, 1, n)[i] = coming[i]
      BY ReadTakes
    <2>2. \A i \in 1 .. n : coming[i].id \in Ids(SubSeq(coming, 1, n))
      BY <2>1 DEF Ids
    <2>3. QED
      BY <2>2
  <1>4. RawInv'
    BY <1>2 DEF ScanInv, RawInv, Sorted
  <1>5. DecodedInv'
    BY <1>2 DEF ScanInv, DecodedInv, RecordsOnce, Increasing
  <1>6. RawTail'
    <2>1. SUFFICES ASSUME coming' # <<>>, coming'[1].id \notin unscanned'
                   PROVE  coming'[1].at = 1
      <3>1. Len(data_raw) \in Nat /\ data_raw' = data_raw
        BY DEF ScanInv, RawInv
      <3>2. CASE ~(coming' # <<>> /\ coming'[1].id \notin unscanned')
        BY <3>2 DEF RawTail
      <3>3. CASE coming'[1].at = 1
        BY <3>1, <3>3 DEF RawTail
      <3>4. QED
        BY <2>1, <3>2, <3>3
    <2>2. 1 \in 1 .. Len(coming') /\ n + 1 \in 1 .. Len(coming) /\ coming'[1] = coming[n + 1]
      <3>1. Len(coming') \in Nat \ {0}
        BY <2>1, <1>2, EmptySeq
      <3>2. QED
        BY <3>1, <1>2
    <2>3. PICK a \in 1 .. 4 : a = coming[n + 1].at
      BY <2>2, <1>1 DEF Cell
    <2>4. CASE a > 1
      <3>1. a - 1 \in 1 .. coming[n + 1].at /\ n + 1 - coming[n + 1].at + (a - 1) = n /\ n >= 1
        BY <2>3, <2>4
      <3>2. PICK m \in 1 .. Len(coming) : m = n + 1
        BY <2>2
      <3>3. a - 1 \in 1 .. coming[m].at /\ m - coming[m].at + (a - 1) = n
        BY <2>3, <2>4, <3>1, <3>2, SMTT(30)
      <3>4. coming[n].id = coming[m].id
        BY <3>1, <3>3, SameItem
      <3>5. coming[n].id \in unscanned'
        BY <3>1, <1>3
      <3>6. QED
        BY <3>2, <3>4, <3>5, <2>1, <2>2
    <2>5. QED
      BY <2>2, <2>3, <2>4
  <1>7. RecordsDecoded'
    <2>1. \A w \in whole' : w.id \in unscanned'
      BY <1>3 DEF WholeIs
    <2>2. QED
      BY <2>1 DEF RecordsDecoded
  <1>8. QED
    BY <1>4, <1>5, <1>6, <1>7 DEF ScanInv
-----------------------------------------------------------------------------
(* The line assembler *)

\* What holds of 0, and of a position when it holds of the one before, holds of all.
LEMMA Upwards ==
  ASSUME NEW n \in Nat, NEW P \in SUBSET (0 .. n), 0 \in P,
         \A k \in 1 .. n : k - 1 \in P => k \in P
  PROVE  \A k \in 0 .. n : k \in P
  <1> DEFINE T == (0 .. n) \ P
  <1>1. SUFFICES ASSUME T # {} PROVE FALSE
    OBVIOUS
  <1>2. T \in SUBSET Nat
    OBVIOUS
  <1>3. PICK k \in T : \A j \in T : k <= j
    BY <1>1, <1>2, LeastMember
  <1>4. k \in 1 .. n
    OBVIOUS
  <1>5. k - 1 \in 0 .. n /\ ~(k <= k - 1)
    BY <1>4
  <1>6. k - 1 \notin T
    BY <1>3, <1>5
  <1>7. QED
    BY <1>4, <1>5, <1>6

\* after is the assembler's loop over chunk
LoopOf(after, n, first, chunk, start) ==
  after = [i \in 0 .. n |-> IF i = 0 THEN first ELSE TakeByte(after[i - 1], chunk[i], start)]

\* The loop is well defined.
LEMMA LoopDefined ==
  ASSUME NEW n \in Nat, NEW first, NEW chunk, NEW start
  PROVE  \E after : LoopOf(after, n, first, chunk, start)
  <1> DEFINE Value(f, i) == IF i = 0 THEN first ELSE TakeByte(f[i - 1], chunk[i], start)
             To(k, f) == f = [i \in 0 .. k |-> Value(f, i)]
             P == {k \in 0 .. n : \E f : To(k, f)}
  <1>1. 0 \in P
    <2> DEFINE f == [i \in 0 .. 0 |-> first]
    <2>1. \A i \in 0 .. 0 : Value(f, i) = first
      OBVIOUS
    <2> HIDE DEF Value
    <2>2. To(0, f)
      BY <2>1
    <2>3. \E g : To(0, g)
      BY <2>2
    <2>4. QED
      BY <2>3
  <1>2. ASSUME NEW k \in 1 .. n, k - 1 \in P PROVE k \in P
    <2>1. PICK f : To(k - 1, f)
      BY <1>2
    <2> DEFINE h == [i \in 0 .. k |-> IF i = k THEN Value(f, k) ELSE f[i]]
    <2>2. ASSUME NEW i \in 0 .. k PROVE Value(h, i) = Value(f, i)
      <3>1. CASE i = 0
        BY <3>1
      <3>2. CASE i # 0
        <4>1. h[i - 1] = f[i - 1]
          BY <3>2
        <4> HIDE DEF h
        <4>2. QED
          BY <4>1
      <3>3. QED
        BY <3>1, <3>2
    <2>3. \A i \in 0 .. k - 1 : f[i] = Value(f, i)
      BY <2>1
    <2> HIDE DEF Value
    <2>4. To(k, h)
      <3>1. \A i \in 0 .. k : h[i] = Value(h, i)
        BY <2>2, <2>3
      <3>2. QED
        BY <3>1
    <2> HIDE DEF h
    <2>5. \E g : To(k, g)
      BY <2>4
    <2>6. QED
      BY <2>5
  <1>3. P \in SUBSET (0 .. n) /\ n \in 0 .. n
    OBVIOUS
  <1> HIDE DEF P
  <1>4. n \in P
    BY <1>1, <1>2, <1>3, Upwards
  <1>5. QED
    BY <1>4 DEF P, LoopOf

\* the assembler's state between two bytes
Acc == [line : Seq(Cell), good : Seq(Nat)]

\* what TakeByte may come to
Dropped(acc, r) == r = [line |-> <<>>, good |-> acc.good]
Taken(acc, line, cell, r) ==
  /\ Len(line) < LineSize - 1
  /\ r = [line |-> Append(line, cell), good |-> acc.good]
Accepted(acc, line, r) ==
  /\ IsSentence(line)
  /\ r = [line |-> <<>>, good |-> Append(acc.good, line[1].id)]

\* A byte is dropped with the line, appended, or ends a sentence.
LEMMA ByteTaken ==
  ASSUME NEW acc \in Acc, NEW cell \in Cell, NEW start \in BOOLEAN
  PROVE  \E line \in {acc.line, <<>>} :
           LET r == TakeByte(acc, cell, start)
           IN  \/ Dropped(acc, r)
               \/ Taken(acc, line, cell, r)
               \/ Accepted(acc, line, r)
  <1> DEFINE line == IF start /\ cell.byte = "$" THEN <<>> ELSE acc.line
             r == TakeByte(acc, cell, start)
  <1>1. line \in {acc.line, <<>>} /\ line \in Seq(Cell) /\ acc.good \in Seq(Nat)
    BY DEF Acc
  <1>2. CASE line = <<>> /\ start /\ cell.byte # "$"
    <2>1. ~IsSentence(line)
      BY <1>2 DEF IsSentence
    <2>2. acc.good \o <<>> = acc.good
      BY <1>1, ConcatEmptySeq
    <2>3. r = [line |-> <<>>, good |-> acc.good]
      BY <1>2, <2>1, <2>2 DEF TakeByte, Acc
    <2>4. QED
      BY <1>1, <2>3 DEF Dropped
  <1>3. CASE ~(line = <<>> /\ start /\ cell.byte # "$") /\ cell.byte = "lf"
    <2>1. r = [line |-> <<>>,
               good |-> acc.good \o (IF IsSentence(line) THEN <<line[1].id>> ELSE <<>>)]
      BY <1>3 DEF TakeByte
    <2>2. CASE IsSentence(line)
      <3>1. line[1].id \in Nat
        <4>1. line # <<>> /\ line \in Seq(Cell)
          BY <1>1, <2>2 DEF IsSentence
        <4> HIDE DEF line
        <4>2. line[1] \in Cell
          BY <4>1
        <4>3. QED
          BY <4>2 DEF Cell
      <3>2. acc.good \o <<line[1].id>> = Append(acc.good, line[1].id)
        BY <1>1, <3>1, AppendIsConcat
      <3>3. Accepted(acc, line, r)
        BY <2>1, <2>2, <3>2 DEF Accepted
      <3>4. QED
        BY <1>1, <3>3
    <2>3. CASE ~IsSentence(line)
      <3>1. acc.good \o <<>> = acc.good
        BY <1>1, ConcatEmptySeq
      <3>2. QED
        BY <1>1, <2>1, <2>3, <3>1 DEF Dropped
    <2>4. QED
      BY <2>2, <2>3
  <1>4. CASE ~(line = <<>> /\ start /\ cell.byte # "$") /\ cell.byte # "lf"
    <2>1. r = [acc EXCEPT !.line = IF Len(line) < LineSize - 1 THEN Append(line, cell) ELSE <<>>]
      BY <1>4 DEF TakeByte
    <2>2. r = [line |-> IF Len(line) < LineSize - 1 THEN Append(line, cell) ELSE <<>>,
               good |-> acc.good]
      BY <2>1 DEF Acc
    <2>3. QED
      BY <1>1, <2>2 DEF Dropped, Taken
  <1>5. QED
    BY <1>2, <1>3, <1>4
\* What is in line is before what is to come, and so is what is accepted.
LEMMA ByteKeeps ==
  ASSUME ComingInv, NEW i \in Nat, i + 1 \in 1 .. Len(coming), NEW start \in BOOLEAN,
         NEW acc \in Acc, LineState(acc.line, acc.good, i)
  PROVE  LET r == TakeByte(acc, coming[i + 1], start)
         IN  r \in Acc /\ LineState(r.line, r.good, i + 1)
  <1> DEFINE cell == coming[i + 1]
             good == acc.good
             r == TakeByte(acc, cell, start)
  <1>1. /\ Len(coming) \in Nat /\ cell \in Cell /\ cell.id \in Nat /\ cell.id <= items /\ items \in Nat
        /\ \A j \in i + 2 .. Len(coming) : Before(cell, coming[j])
    <2>1. coming \in Seq(Cell) /\ Len(coming) \in Nat /\ cell \in Cell
      BY DEF ComingInv
    <2>2. cell.id \in Nat
      BY <2>1 DEF Cell
    <2>3. \A j \in i + 2 .. Len(coming) : j \in 1 .. Len(coming) /\ i + 1 < j
      BY <2>1
    <2>4. QED
      BY <2>1, <2>2, <2>3 DEF ComingInv, Sorted
  <1>2. /\ good \in Seq(Nat) /\ Len(good) \in Nat /\ Increasing(good)
        /\ \A y \in 1 .. Len(good) : good[y] \in Nat /\ good[y] <= items /\ Past(good[y], cell)
        /\ \A y \in 1 .. Len(good), j \in i + 2 .. Len(coming) : Past(good[y], coming[j])
    <2>1. /\ good \in Seq(Nat) /\ Increasing(good)
          /\ \A y \in 1 .. Len(good) :
               good[y] <= items /\ \A j \in i + 1 .. Len(coming) : Past(good[y], coming[j])
      BY DEF LineState
    <2>2. i + 1 \in i + 1 .. Len(coming) /\ i + 2 .. Len(coming) \subseteq i + 1 .. Len(coming)
      BY <1>1
    <2>3. QED
      BY <2>1, <2>2
  <1>3. /\ acc.line \in Seq(Cell) /\ Len(acc.line) \in Nat /\ Len(acc.line) < LineSize
        /\ Sorted(acc.line)
        /\ \A x \in 1 .. Len(acc.line) :
             /\ acc.line[x].id <= items /\ Before(acc.line[x], cell)
             /\ \A j \in i + 2 .. Len(coming) : Before(acc.line[x], coming[j])
             /\ \A y \in 1 .. Len(good) : Past(good[y], acc.line[x])
    <2>1. /\ acc.line \in Seq(Cell) /\ Len(acc.line) < LineSize /\ Sorted(acc.line)
          /\ \A x \in 1 .. Len(acc.line) :
               acc.line[x].id <= items /\ \A j \in i + 1 .. Len(coming) : Before(acc.line[x], coming[j])
          /\ \A y \in 1 .. Len(good), x \in 1 .. Len(acc.line) : Past(good[y], acc.line[x])
      BY DEF LineState
    <2>2. i + 1 \in i + 1 .. Len(coming) /\ i + 2 .. Len(coming) \subseteq i + 1 .. Len(coming)
      BY <1>1
    <2>3. QED
      BY <2>1, <2>2
  <1>4. PICK line \in {acc.line, <<>>} :
          Dropped(acc, r) \/ Taken(acc, line, cell, r) \/ Accepted(acc, line, r)
    BY <1>1, ByteTaken
  <1>5. /\ line \in Seq(Cell) /\ Len(line) \in Nat /\ Sorted(line)
        /\ \A x \in 1 .. Len(line) :
             /\ line[x].id <= items /\ Before(line[x], cell)
             /\ \A j \in i + 2 .. Len(coming) : Before(line[x], coming[j])
             /\ \A y \in 1 .. Len(good) : Past(good[y], line[x])
    <2>1. CASE line = acc.line
      BY <1>3, <2>1
    <2>2. CASE line = <<>>
      BY <2>2 DEF Sorted
    <2>3. QED
      BY <2>1, <2>2
  <1>6. LineSize \in Nat /\ LineSize > 2 /\ (i + 1) + 1 = i + 2
    BY StreamAssumption
  <1> HIDE DEF cell, good, r
  <1>7. CASE Dropped(acc, r)
    <2>1. r.line = <<>> /\ r.good = good /\ r \in Acc /\ Len(r.line) = 0
      BY <1>2, <1>7 DEF Dropped, Acc, good
    <2>2. LineState(r.line, r.good, i + 1)
      BY <2>1, <1>2, <1>6 DEF LineState, Sorted
    <2>3. QED
      BY <2>1, <2>2 DEF r, cell
  <1>8. CASE Taken(acc, line, cell, r)
    <2>1. /\ r.line \in Seq(Cell) /\ Len(r.line) = Len(line) + 1 /\ r.good = good
          /\ \A x \in 1 .. Len(line) : r.line[x] = line[x]
          /\ r.line[Len(line) + 1] = cell
      BY <1>1, <1>5, <1>8, AppendProperties DEF Taken, good
    <2>2. r \in Acc
      BY <2>1, <1>2, <1>8 DEF Taken, Acc
    <2>3. \A x \in 1 .. Len(r.line) : x \in 1 .. Len(line) \/ x = Len(line) + 1
      BY <2>1, <1>5
    <2>4. Sorted(r.line)
      <3>1. ASSUME NEW x \in 1 .. Len(r.line), NEW z \in 1 .. Len(r.line), x < z
            PROVE  Before(r.line[x], r.line[z])
        <4>1. x \in 1 .. Len(line)
          BY <3>1, <2>1, <1>5
        <4>2. CASE z \in 1 .. Len(line)
          BY <3>1, <4>1, <4>2, <2>1, <1>5 DEF Sorted
        <4>3. CASE z = Len(line) + 1
          BY <4>1, <4>3, <2>1, <1>5
        <4>4. QED
          BY <4>2, <4>3, <2>3
      <3>2. QED
        BY <3>1 DEF Sorted
    <2>5. ASSUME NEW x \in 1 .. Len(r.line)
          PROVE  /\ r.line[x].id <= items
                 /\ \A j \in i + 2 .. Len(coming) : Before(r.line[x], coming[j])
                 /\ \A y \in 1 .. Len(good) : Past(good[y], r.line[x])
      <3>1. CASE x \in 1 .. Len(line)
        BY <3>1, <2>1, <1>5
      <3>2. CASE x = Len(line) + 1
        BY <3>2, <2>1, <1>1, <1>2
      <3>3. QED
        BY <3>1, <3>2, <2>3
    <2>6. Len(r.line) < LineSize
      BY <2>1, <1>5, <1>6, <1>8 DEF Taken
    <2>7. LineState(r.line, r.good, i + 1)
      BY <2>1, <2>4, <2>5, <2>6, <1>2, <1>6 DEF LineState
    <2>8. QED
      BY <2>2, <2>7 DEF r, cell
  <1>9. CASE Accepted(acc, line, r)
    <2>1. Len(line) > 0 /\ 1 \in 1 .. Len(line) /\ line[1].at = 1
      <3>1. line # <<>> /\ \A x \in 1 .. Len(line) : line[x].at = x
        BY <1>9, Zenon DEF Accepted, IsSentence
      <3>2. QED
        BY <3>1, <1>5, EmptySeq
    <2>2. line[1] \in Cell /\ line[1].id \in Nat
      BY <2>1, <1>5 DEF Cell
    <2>3. /\ r.line = <<>> /\ r.good \in Seq(Nat) /\ Len(r.good) = Len(good) + 1
          /\ \A y \in 1 .. Len(good) : r.good[y] = good[y]
          /\ r.good[Len(good) + 1] = line[1].id
      BY <2>2, <1>2, <1>9, AppendProperties DEF Accepted, good
    <2>4. r \in Acc /\ Len(r.line) = 0
      BY <2>3, <1>9 DEF Accepted, Acc
    <2>5. \A y \in 1 .. Len(r.good) : y \in 1 .. Len(good) \/ y = Len(good) + 1
      BY <2>3, <1>2
    <2>6. \A y \in 1 .. Len(good) : good[y] < line[1].id
      BY <2>1, <1>5 DEF Past
    <2>7. \A j \in i + 2 .. Len(coming) : Past(line[1].id, coming[j])
      BY <2>1, <1>5, Zenon DEF Before, Past
    <2>8. Increasing(r.good)
      <3>1. ASSUME NEW x \in 1 .. Len(r.good), NEW z \in 1 .. Len(r.good), x < z
            PROVE  r.good[x] < r.good[z]
        <4>1. x \in 1 .. Len(good)
          BY <3>1, <2>3, <1>2
        <4>2. CASE z \in 1 .. Len(good)
          BY <3>1, <4>1, <4>2, <2>3, <1>2 DEF Increasing
        <4>3. CASE z = Len(good) + 1
          BY <4>1, <4>3, <2>3, <2>6
        <4>4. QED
          BY <4>2, <4>3, <2>5
      <3>2. QED
        BY <3>1 DEF Increasing
    <2>9. ASSUME NEW y \in 1 .. Len(r.good)
          PROVE  r.good[y] <= items /\ \A j \in i + 2 .. Len(coming) : Past(r.good[y], coming[j])
      <3>1. CASE y \in 1 .. Len(good)
        BY <3>1, <2>3, <1>2
      <3>2. CASE y = Len(good) + 1
        BY <3>2, <2>1, <2>3, <2>7, <1>5
      <3>3. QED
        BY <3>1, <3>2, <2>5
    <2>10. LineState(r.line, r.good, i + 1)
      BY <2>3, <2>4, <2>8, <2>9, <1>6 DEF LineState, Sorted
    <2>11. QED
      BY <2>4, <2>10 DEF r, cell
  <1>10. QED
    BY <1>4, <1>7, <1>8, <1>9
\* the sentences that ended in the first i cells to come are accepted
Heard(good, i) ==
  \A k \in 1 .. i : coming[k].last /\ coming[k].kind = "sentence" /\ coming[k].id \notin unlined =>
    \E y \in 1 .. Len(good) : good[y] = coming[k].id

\* the line is what came of a sentence before cell
UpTo(line, cell) ==
  /\ Len(line) = cell.at - 1
  /\ \A j \in 1 .. Len(line) : line[j].id = cell.id /\ line[j].at = j /\ line[j].kind = "sentence"

\* what a byte makes of the line and the sentences in AUTO mode
Takes(acc, cell, r) == r = TakeByte(acc, cell, TRUE)

\* A cell of a sentence goes behind those before it, and the last one ends it.
LEMMA SentenceByte ==
  ASSUME NEW acc \in Acc, NEW cell \in Cell, cell.kind = "sentence",
         cell.at > 1 => UpTo(acc.line, cell),
         NEW r, Takes(acc, cell, r)
  PROVE  /\ cell.at = 1 => r.line = <<cell>> /\ r.good = acc.good
         /\ cell.at = 2 => r.line = Append(acc.line, cell) /\ r.good = acc.good
         /\ cell.at = 3 => r.line = <<>> /\ r.good = Append(acc.good, cell.id)
  <1>1. cell.id \in Nat /\ cell.byte = <<"$", "x", "lf">>[cell.at] /\ cell.at \in 1 .. 3
    BY DEF Cell, SizeOf
  <1>2. cell.at > 1 =>
          /\ Len(acc.line) = cell.at - 1
          /\ \A j \in 1 .. Len(acc.line) :
               acc.line[j].id = cell.id /\ acc.line[j].at = j /\ acc.line[j].kind = "sentence"
    BY DEF UpTo
  <1>3. acc.line \in Seq(Cell) /\ acc.good \in Seq(Nat) /\ LineSize > 2 /\ LineSize \in Nat
    BY StreamAssumption DEF Acc
  <1>4. CASE cell.at = 1
    <2>1. cell.byte = "$"
      BY <1>1, <1>4
    <2>2. r = [acc EXCEPT !.line = IF Len(<<>>) < LineSize - 1 THEN Append(<<>>, cell) ELSE <<>>]
      BY <2>1 DEF Takes, TakeByte
    <2>3. Len(<<>>) < LineSize - 1 /\ Append(<<>>, cell) = <<cell>>
      BY <1>3
    <2>4. r = [line |-> <<cell>>, good |-> acc.good]
      BY <2>2, <2>3 DEF Acc
    <2>5. r.line = <<cell>> /\ r.good = acc.good
      BY <2>4
    <2>6. QED
      BY <1>4, <2>5
  <1>5. CASE cell.at = 2
    <2>1. cell.byte = "x"
      BY <1>1, <1>5
    <2>2. Len(acc.line) = 1
      BY <1>2, <1>5
    <2>3. acc.line # <<>> /\ Len(acc.line) < LineSize - 1
      <3>1. acc.line # <<>>
        <4>1. Len(<<>>) = 0
          OBVIOUS
        <4>2. ASSUME acc.line = <<>> PROVE 1 = 0
          BY <2>2, <4>1, <4>2, Zenon
        <4>3. QED
          BY <4>2
      <3>2. 1 < LineSize - 1
        BY <1>3
      <3>3. QED
        BY <3>1, <3>2, <2>2
    <2>4. r = [acc EXCEPT !.line = Append(acc.line, cell)]
      BY <2>1, <2>3 DEF Takes, TakeByte
    <2>5. r = [line |-> Append(acc.line, cell), good |-> acc.good]
      BY <2>4 DEF Acc
    <2>6. r.line = Append(acc.line, cell) /\ r.good = acc.good
      BY <2>5
    <2>7. QED
      BY <1>5, <2>6
  <1>6. CASE cell.at = 3
    <2>1. cell.byte = "lf"
      BY <1>1, <1>6
    <2>2. /\ Len(acc.line) = 2
          /\ \A j \in 1 .. Len(acc.line) :
               acc.line[j].id = cell.id /\ acc.line[j].at = j /\ acc.line[j].kind = "sentence"
      BY <1>2, <1>6
    <2>3. acc.line # <<>> /\ acc.line[1].id = cell.id
      BY <1>3, <2>2
    <2>4. IsSentence(acc.line)
      <3>1. Len(BytesOf("sentence", "x")) - 1 = 2
        BY DEF BytesOf
      <3>2. QED
        BY <2>2, <2>3, <3>1 DEF IsSentence
    <2>5. r = [line |-> <<>>, good |-> acc.good \o <<cell.id>>]
      BY <2>1, <2>3, <2>4 DEF Takes, TakeByte
    <2>6. acc.good \o <<cell.id>> = Append(acc.good, cell.id)
      BY <1>1, <1>3, AppendIsConcat
    <2>7. r.line = <<>> /\ r.good = Append(acc.good, cell.id)
      BY <2>5, <2>6
    <2>8. QED
      BY <1>6, <2>7
  <1>7. QED
    BY <1>1, <1>4, <1>5, <1>6

\* What is accepted stays accepted.
LEMMA GoodStays ==
  ASSUME NEW acc \in Acc, NEW cell \in Cell, NEW r, Takes(acc, cell, r)
  PROVE  /\ Len(acc.good) \in Nat /\ Len(r.good) \in Nat /\ Len(acc.good) <= Len(r.good)
         /\ \A y \in 1 .. Len(acc.good) : r.good[y] = acc.good[y]
  <1>1. acc.good \in Seq(Nat) /\ Len(acc.good) \in Nat
    BY DEF Acc
  <1>3. PICK line \in {acc.line, <<>>} :
          Dropped(acc, r) \/ Taken(acc, line, cell, r) \/ Accepted(acc, line, r)
    <2>1. TRUE \in BOOLEAN
      OBVIOUS
    <2>2. QED
      BY <2>1, ByteTaken DEF Takes
  <1>4. CASE Dropped(acc, r) \/ Taken(acc, line, cell, r)
    <2>1. r.good = acc.good
      BY <1>4 DEF Dropped, Taken, Acc
    <2>2. QED
      BY <1>1, <2>1
  <1>5. CASE Accepted(acc, line, r)
    <2>1. r.good = Append(acc.good, line[1].id)
      BY <1>5 DEF Accepted, Acc
    <2>2. line \in Seq(Cell) /\ line # <<>>
      BY <1>3, <1>5, Zenon DEF Accepted, IsSentence, Acc
    <2>3. line[1] \in Cell
      BY <2>2
    <2>4. line[1].id \in Nat
      BY <2>3 DEF Cell
    <2>5. /\ Len(r.good) = Len(acc.good) + 1
          /\ \A y \in 1 .. Len(acc.good) : r.good[y] = acc.good[y]
      BY <1>1, <2>1, <2>4, AppendProperties
    <2>6. QED
      BY <1>1, <2>5
  <1>6. QED
    BY <1>3, <1>4, <1>5

\* In AUTO mode a sentence is put together cell by cell, and accepted at its line feed.
LEMMA ByteHeard ==
  ASSUME ComingInv, NEW i \in Nat, i + 1 \in 1 .. Len(coming), NEW acc \in Acc,
         LineTail(acc.line, i), Heard(acc.good, i),
         NEW r, Takes(acc, coming[i + 1], r)
  PROVE  LineTail(r.line, i + 1) /\ Heard(r.good, i + 1)
  <1>1. Len(coming) \in Nat /\ coming \in Seq(Cell)
    BY DEF ComingInv
  <1>2. PICK cell \in Cell : cell = coming[i + 1]
    BY <1>1
  <1>3. Takes(acc, cell, r)
    BY <1>2
  <1>4. cell.kind = "sentence" /\ cell.id \notin unlined /\ cell.at > 1 => UpTo(acc.line, cell)
    <2>1. i < Len(coming)
      BY <1>1
    <2>2. QED
      BY <1>2, <2>1 DEF LineTail, UpTo
  <1>5. /\ Len(acc.good) \in Nat /\ Len(r.good) \in Nat /\ Len(acc.good) <= Len(r.good)
        /\ \A y \in 1 .. Len(acc.good) : r.good[y] = acc.good[y]
    BY <1>3, GoodStays
  <1>6. cell.kind = "sentence" /\ cell.id \notin unlined =>
          /\ cell.at = 1 => r.line = <<cell>> /\ r.good = acc.good
          /\ cell.at = 2 => r.line = Append(acc.line, cell) /\ r.good = acc.good
          /\ cell.at = 3 => r.line = <<>> /\ r.good = Append(acc.good, cell.id)
    BY <1>3, <1>4, SentenceByte
  <1>7. LineTail(r.line, i + 1)
    <2>1. SUFFICES ASSUME i + 1 < Len(coming),
                          NEW next \in Cell, next = coming[i + 2],
                          next.at > 1, next.kind = "sentence", next.id \notin unlined
                   PROVE  UpTo(r.line, next)
      <3>1. (i + 1) + 1 = i + 2 /\ (i + 1 < Len(coming) => i + 2 \in 1 .. Len(coming))
        BY <1>1
      <3>2. i + 1 < Len(coming) => coming[i + 2] \in Cell
        BY <1>1, <3>1
      <3>3. QED
        BY <2>1, <3>1, <3>2 DEF LineTail, UpTo
    <2>2. PICK a \in 1 .. 3 : a = next.at
      BY <2>1 DEF Cell, SizeOf
    <2>3. PICK m \in 1 .. Len(coming) : m = i + 2
      BY <2>1, <1>1
    <2>4. a - 1 \in 1 .. coming[m].at /\ m - coming[m].at + (a - 1) = i + 1 /\ i + 1 >= 1
      BY <2>1, <2>2, <2>3
    <2>5. LET k == m - coming[m].at + (a - 1)
          IN  k >= 1 => /\ coming[k].id = coming[m].id /\ coming[k].at = a - 1
                        /\ coming[k].kind = coming[m].kind
      BY <2>4, SameItem
    <2>6. cell.id = next.id /\ cell.at = a - 1 /\ cell.kind = "sentence"
      BY <2>1, <2>3, <2>4, <2>5, <1>2, Zenon
    <2>7. CASE a = 2
      <3>1. cell.at = 1 /\ r.line = <<cell>>
        BY <2>1, <2>6, <2>7, <1>6
      <3>2. QED
        BY <2>2, <2>6, <2>7, <3>1 DEF UpTo
    <2>8. CASE a = 3
      <3>1. cell.at = 2 /\ r.line = Append(acc.line, cell)
        BY <2>1, <2>6, <2>8, <1>6
      <3>2. UpTo(acc.line, cell)
        BY <2>1, <2>6, <3>1, <1>4
      <3>3. acc.line \in Seq(Cell) /\ Len(acc.line) = 1
        BY <3>1, <3>2 DEF UpTo, Acc
      <3>4. /\ acc.line[1].id = cell.id /\ acc.line[1].at = 1 /\ acc.line[1].kind = "sentence"
        BY <3>2, <3>3 DEF UpTo
      <3>5. Len(r.line) = 2 /\ r.line[1] = acc.line[1] /\ r.line[2] = cell
        BY <3>1, <3>3, AppendProperties, SMTT(30)
      <3>6. \A j \in 1 .. 2 : j = 1 \/ j = 2
        OBVIOUS
      <3>7. \A j \in 1 .. 2 : /\ r.line[j].id = next.id /\ r.line[j].at = j
                              /\ r.line[j].kind = "sentence"
        BY <3>1, <3>4, <3>5, <3>6, <2>6
      <3>8. QED
        BY <2>2, <2>8, <3>5, <3>7 DEF UpTo
    <2>9. a # 1
      BY <2>1, <2>2
    <2>10. QED
      BY <2>2, <2>7, <2>8, <2>9
  <1>8. Heard(r.good, i + 1)
    <2>1. SUFFICES ASSUME NEW k \in 1 .. i + 1, coming[k].last, coming[k].kind = "sentence",
                          coming[k].id \notin unlined
                   PROVE  \E y \in 1 .. Len(r.good) : r.good[y] = coming[k].id
      BY DEF Heard
    <2>2. CASE k \in 1 .. i
      <3>1. PICK y \in 1 .. Len(acc.good) : acc.good[y] = coming[k].id
        BY <2>1, <2>2 DEF Heard
      <3>2. y \in 1 .. Len(r.good) /\ r.good[y] = acc.good[y]
        BY <1>5
      <3>3. QED
        BY <3>1, <3>2
    <2>3. CASE k = i + 1
      <3>1. cell.at = 3 /\ cell.id \in Nat
        BY <2>1, <2>3, <1>2 DEF Cell, SizeOf
      <3>2. r.good = Append(acc.good, cell.id)
        BY <2>1, <2>3, <3>1, <1>2, <1>6
      <3>3. Len(r.good) = Len(acc.good) + 1 /\ r.good[Len(acc.good) + 1] = cell.id
        <4>1. acc.good \in Seq(Nat)
          BY DEF Acc
        <4>2. QED
          BY <3>1, <3>2, <4>1, AppendProperties
      <3>4. Len(acc.good) + 1 \in 1 .. Len(r.good)
        BY <1>5, <3>3
      <3>5. QED
        BY <2>3, <3>3, <3>4, <1>2
    <2>4. QED
      BY <2>2, <2>3
  <1>9. QED
    BY <1>2, <1>3, <1>7, <1>8
\* the assembler's loop over the first n cells to come
Assembles(after, n, start) ==
  /\ after[0] = [line |-> data_nmea, good |-> lines]
  /\ \A k \in 1 .. n : after[k] = TakeByte(after[k - 1], coming[k], start)
  /\ data_nmea' = after[n].line /\ lines' = after[n].good

\* What LineChunk does, byte by byte.
LEMMA ChunkAssembled ==
  ASSUME ComingInv, NEW n \in Nat, n \in 1 .. Len(coming), NEW start \in BOOLEAN,
         LineChunk(SubSeq(coming, 1, n), start)
  PROVE  \E after : Assembles(after, n, start)
  <1> DEFINE chunk == SubSeq(coming, 1, n)
             first == [line |-> data_nmea, good |-> lines]
  <1>1. chunk \in Seq(Cell) /\ Len(chunk) = n /\ \A i \in 1 .. n : chunk[i] = coming[i]
    <2>1. coming \in Seq(Cell) /\ \A i \in 1 .. n : coming[i] \in Cell
      BY DEF ComingInv
    <2>2. 1 <= n /\ n - 1 + 1 = n /\ \A i \in 1 .. n : 1 + i - 1 = i
      OBVIOUS
    <2>3. QED
      BY <2>1, <2>2, SubSeqProperties
  <1> HIDE DEF chunk, first
  <1>2. \E f : LoopOf(f, n, first, chunk, start)
    BY LoopDefined
  <1> DEFINE after == CHOOSE f : LoopOf(f, n, first, chunk, start)
  <1>3. LoopOf(after, n, first, chunk, start)
    BY <1>2
  <1>4. data_nmea' = after[n].line /\ lines' = after[n].good
    <2>1. LineChunk(chunk, start)
      BY DEF chunk
    <2>2. Len(chunk) = n
      BY <1>1
    <2>3. data_nmea' = after[Len(chunk)].line /\ lines' = after[Len(chunk)].good
      BY <2>1, <2>2 DEF LineChunk, LoopOf, first
    <2>4. QED
      BY <2>2, <2>3
  <1> HIDE DEF after
  <1>5. after[0] = first
    BY <1>3 DEF LoopOf
  <1>6. ASSUME NEW k \in 1 .. n PROVE after[k] = TakeByte(after[k - 1], coming[k], start)
    <2>1. k \in 0 .. n /\ k # 0
      OBVIOUS
    <2>2. after[k] = TakeByte(after[k - 1], chunk[k], start)
      BY <1>3, <2>1 DEF LoopOf
    <2>3. chunk[k] = coming[k]
      BY <1>1
    <2>4. QED
      BY <2>2, <2>3
  <1>7. Assembles(after, n, start)
    BY <1>4, <1>5, <1>6, Zenon DEF Assembles, first
  <1>8. QED
    BY <1>7

\* Through the loop the line and the sentences are older than what is to come, ...
LEMMA LoopKeeps ==
  ASSUME ComingInv, NEW n \in Nat, n \in 1 .. Len(coming), NEW start \in BOOLEAN,
         NEW after, Assembles(after, n, start), LineState(data_nmea, lines, 0)
  PROVE  \A k \in 0 .. n : after[k] \in Acc /\ LineState(after[k].line, after[k].good, k)
  <1> DEFINE P == {k \in 0 .. n : after[k] \in Acc /\ LineState(after[k].line, after[k].good, k)}
  <1>1. 0 \in P
    <2>1. data_nmea \in Seq(Cell) /\ lines \in Seq(Nat)
      BY DEF LineState
    <2>2. after[0] = [line |-> data_nmea, good |-> lines]
      BY DEF Assembles
    <2>3. after[0] \in Acc /\ after[0].line = data_nmea /\ after[0].good = lines
      BY <2>1, <2>2 DEF Acc
    <2>4. QED
      BY <2>3
  <1>2. ASSUME NEW k \in 1 .. n, k - 1 \in P PROVE k \in P
    <2>1. PICK i \in Nat : i = k - 1
      OBVIOUS
    <2>2. k = i + 1 /\ i + 1 \in 1 .. Len(coming)
      <3>1. Len(coming) \in Nat
        BY DEF ComingInv
      <3>2. QED
        BY <2>1, <3>1
    <2>3. after[i] \in Acc /\ LineState(after[i].line, after[i].good, i)
      BY <1>2, <2>1
    <2>4. after[k] = TakeByte(after[i], coming[i + 1], start)
      BY <2>1, <2>2 DEF Assembles
    <2>5. after[k] \in Acc /\ LineState(after[k].line, after[k].good, i + 1)
      BY <2>2, <2>3, <2>4, ByteKeeps
    <2>6. QED
      BY <2>2, <2>5
  <1>3. P \in SUBSET (0 .. n)
    OBVIOUS
  <1> HIDE DEF P
  <1>4. \A k \in 0 .. n : k \in P
    BY <1>1, <1>2, <1>3, Upwards
  <1>5. QED
    BY <1>4 DEF P

\* ... and in AUTO mode every sentence that ends is accepted.
LEMMA LoopHears ==
  ASSUME ComingInv, NEW n \in Nat, n \in 1 .. Len(coming),
         NEW after, Assembles(after, n, TRUE), LineState(data_nmea, lines, 0),
         LineTail(data_nmea, 0)
  PROVE  LineTail(data_nmea', n) /\ Heard(lines', n)
  <1> DEFINE P == {k \in 0 .. n : LineTail(after[k].line, k) /\ Heard(after[k].good, k)}
  <1>1. \A k \in 0 .. n : after[k] \in Acc
    <2>1. TRUE \in BOOLEAN
      OBVIOUS
    <2>2. QED
      BY <2>1, LoopKeeps
  <1>2. 0 \in P
    <2>1. after[0] = [line |-> data_nmea, good |-> lines]
      BY DEF Assembles
    <2>2. LineTail(after[0].line, 0)
      BY <2>1
    <2>3. Heard(after[0].good, 0)
      BY DEF Heard
    <2>4. QED
      BY <2>2, <2>3
  <1>3. ASSUME NEW k \in 1 .. n, k - 1 \in P PROVE k \in P
    <2>1. PICK i \in Nat : i = k - 1
      OBVIOUS
    <2>2. k = i + 1 /\ i + 1 \in 1 .. Len(coming) /\ i \in 0 .. n
      <3>1. Len(coming) \in Nat
        BY DEF ComingInv
      <3>2. QED
        BY <2>1, <3>1
    <2>3. after[i] \in Acc /\ LineTail(after[i].line, i) /\ Heard(after[i].good, i)
      BY <1>1, <1>3, <2>1, <2>2
    <2>4. Takes(after[i], coming[i + 1], after[k])
      <3>1. after[k] = TakeByte(after[k - 1], coming[k], TRUE)
        BY Zenon DEF Assembles
      <3>2. QED
        BY <3>1, <2>1, <2>2, Zenon DEF Takes
    <2>5. LineTail(after[k].line, i + 1) /\ Heard(after[k].good, i + 1)
      BY <2>2, <2>3, <2>4, ByteHeard
    <2>6. QED
      BY <2>2, <2>5
  <1>4. P \in SUBSET (0 .. n)
    OBVIOUS
  <1> HIDE DEF P
  <1>5. \A k \in 0 .. n : k \in P
    BY <1>2, <1>3, <1>4, Upwards
  <1>6. n \in 0 .. n
    OBVIOUS
  <1>7. LineTail(after[n].line, n) /\ Heard(after[n].good, n)
    BY <1>5, <1>6 DEF P
  <1>8. data_nmea' = after[n].line /\ lines' = after[n].good
    BY Zenon DEF Assembles
  <1>9. QED
    BY <1>7, <1>8
\* After the read the rest of the stream is what is to come.
LEMMA LineRests ==
  ASSUME ComingInv, NEW n \in Nat, n \in 1 .. Len(coming),
         coming' = SubSeq(coming, n + 1, Len(coming)), items' = items,
         LineState(data_nmea', lines', n)
  PROVE  LineState(data_nmea, lines, 0)'
  <1>1. /\ Len(coming') = Len(coming) - n /\ Len(coming) \in Nat
        /\ \A j \in 1 .. Len(coming') : coming'[j] = coming[n + j]
    BY ReadTakes DEF ComingInv
  <1>2. ASSUME NEW j \in 0 + 1 .. Len(coming')
        PROVE  n + j \in n + 1 .. Len(coming) /\ coming'[j] = coming[n + j]
    BY <1>1
  <1>3. /\ data_nmea' \in Seq(Cell) /\ Len(data_nmea') < LineSize /\ Sorted(data_nmea')
        /\ lines' \in Seq(Nat) /\ Increasing(lines')
    BY DEF LineState
  <1>4. ASSUME NEW x \in 1 .. Len(data_nmea')
        PROVE  /\ data_nmea'[x].id <= items'
               /\ \A j \in 0 + 1 .. Len(coming') : Before(data_nmea'[x], coming'[j])
    BY <1>2 DEF LineState
  <1>5. ASSUME NEW y \in 1 .. Len(lines')
        PROVE  /\ lines'[y] <= items'
               /\ \A x \in 1 .. Len(data_nmea') : Past(lines'[y], data_nmea'[x])
               /\ \A j \in 0 + 1 .. Len(coming') : Past(lines'[y], coming'[j])
    BY <1>2 DEF LineState
  <1>6. QED
    BY <1>3, <1>4, <1>5 DEF LineState

\* A read that does not end with an item cuts the one to go on with.
LEMMA CutItem ==
  ASSUME ComingInv, NEW n \in Nat, n \in 1 .. Len(coming),
         coming' = SubSeq(coming, n + 1, Len(coming)), items' = items,
         0 < Len(coming'), coming'[1].at > 1
  PROVE  coming[n].id = coming'[1].id
  <1>1. /\ Len(coming') \in Nat /\ coming \in Seq(Cell)
        /\ \A j \in 1 .. Len(coming') : n + j \in 1 .. Len(coming) /\ coming'[j] = coming[n + j]
    <2>1. /\ coming' \in Seq(Cell)
          /\ \A j \in 1 .. Len(coming') : n + j \in 1 .. Len(coming) /\ coming'[j] = coming[n + j]
      BY ReadTakes
    <2>2. coming \in Seq(Cell)
      BY DEF ComingInv
    <2>3. QED
      BY <2>1, <2>2
  <1>2. 1 \in 1 .. Len(coming')
    BY <1>1
  <1>3. PICK m \in 1 .. Len(coming) : m = n + 1
    BY <1>1, <1>2
  <1>4. coming'[1] = coming[m]
    BY <1>1, <1>2, <1>3
  <1>5. PICK a \in 1 .. 4 : a = coming[m].at
    BY <1>1, SMTT(30) DEF Cell
  <1>6. a - 1 \in 1 .. coming[m].at /\ m - coming[m].at + (a - 1) = n /\ n >= 1
    BY <1>3, <1>4, <1>5
  <1>7. coming[n].id = coming[m].id
    BY <1>6, SameItem
  <1>8. QED
    BY <1>4, <1>7

\* A read in AUTO mode.
LEMMA ReadHears ==
  ASSUME ComingInv, LineInv, NEW n \in Nat, n \in 1 .. Len(coming),
         coming' = SubSeq(coming, n + 1, Len(coming)), items' = items, WholeIs(n),
         LineChunk(SubSeq(coming, 1, n), TRUE), unlined' = Unread(unlined) \cup {}
  PROVE  LineInv'
  <1>1. LineState(data_nmea, lines, 0) /\ LineTail(data_nmea, 0)
    BY DEF LineInv
  <1>2. TRUE \in BOOLEAN
    OBVIOUS
  <1>3. PICK after : Assembles(after, n, TRUE)
    BY <1>2, ChunkAssembled
  <1>4. LineState(data_nmea', lines', n)
    <2>1. \A k \in 0 .. n : after[k] \in Acc /\ LineState(after[k].line, after[k].good, k)
      BY <1>1, <1>2, <1>3, LoopKeeps
    <2>2. n \in 0 .. n
      OBVIOUS
    <2>3. data_nmea' = after[n].line /\ lines' = after[n].good
      BY <1>3, Zenon DEF Assembles
    <2>4. QED
      BY <2>1, <2>2, <2>3
  <1>5. LineTail(data_nmea', n) /\ Heard(lines', n)
    BY <1>1, <1>3, LoopHears
  <1>6. LineState(data_nmea, lines, 0)'
    BY <1>4, LineRests
  <1>7. \A i \in 1 .. Len(coming) : coming[i].id \notin unlined' => coming[i].id \notin unlined
    BY DEF Unread
  <1>8. /\ Len(coming') = Len(coming) - n /\ Len(coming) \in Nat
        /\ \A j \in 1 .. Len(coming') : n + j \in 1 .. Len(coming) /\ coming'[j] = coming[n + j]
    BY ReadTakes DEF ComingInv
  <1>9. LineTail(data_nmea, 0)'
    <2>1. SUFFICES ASSUME 0 < Len(coming'), coming'[1].at > 1, coming'[1].kind = "sentence",
                          coming'[1].id \notin unlined'
                   PROVE  /\ Len(data_nmea') = coming'[1].at - 1
                          /\ \A j \in 1 .. Len(data_nmea') : /\ data_nmea'[j].id = coming'[1].id
                                                             /\ data_nmea'[j].at = j
                                                             /\ data_nmea'[j].kind = "sentence"
      <3>1. 0 + 1 = 1
        OBVIOUS
      <3>2. QED
        BY <2>1, <3>1 DEF LineTail
    <2>2. 1 \in 1 .. Len(coming') /\ n < Len(coming)
      BY <2>1, <1>8
    <2>3. n + 1 \in 1 .. Len(coming) /\ coming'[1] = coming[n + 1]
      BY <2>2, <1>8
    <2>4. QED
      BY <2>1, <2>2, <2>3, <1>5, <1>7 DEF LineTail
  <1>10. SentencesHeard'
    <2>1. Increasing(lines') /\ lines' \in Seq(Nat)
      BY <1>4 DEF LineState
    <2>2. ASSUME NEW w \in whole', w.kind = "sentence", w.id \notin unlined'
          PROVE  w.id \in ToSet(lines')
      <3>1. PICK m \in 1 .. n : /\ coming[m].last
                                /\ w = [id |-> coming[m].id, kind |-> coming[m].kind]
        BY DEF WholeIs
      <3>2. m \in 1 .. Len(coming)
        BY <1>8
      <3>3. coming[m].kind = "sentence" /\ coming[m].id \notin unlined /\ w.id = coming[m].id
        BY <2>2, <3>1, <3>2, <1>7
      <3>4. PICK y \in 1 .. Len(lines') : lines'[y] = w.id
        BY <3>1, <3>3, <1>5 DEF Heard
      <3>5. QED
        BY <3>4, <2>1 DEF ToSet
    <2>3. QED
      BY <2>1, <2>2 DEF SentencesHeard, Increasing
  <1>11. QED
    BY <1>6, <1>9, <1>10 DEF LineInv

\* A read in another mode.
LEMMA ReadPasses ==
  ASSUME ComingInv, NEW n \in Nat, n \in 1 .. Len(coming),
         coming' = SubSeq(coming, n + 1, Len(coming)), items' = items, WholeIs(n),
         LineState(data_nmea', lines', n),
         unlined' = Unread(unlined) \cup Ids(SubSeq(coming, 1, n))
  PROVE  LineInv'
  <1>1. LineState(data_nmea, lines, 0)'
    BY LineRests
  <1>2. \A i \in 1 .. n : coming[i].id \in unlined'
    <2>1. /\ Len(SubSeq(coming, 1, n)) = n
          /\ \A i \in 1 .. n : SubSeq(coming, 1, n)[i] = coming[i]
      BY ReadTakes
    <2>2. \A i \in 1 .. n : coming[i].id \in Ids(SubSeq(coming, 1, n))
      BY <2>1 DEF Ids
    <2>3. QED
      BY <2>2
  <1>3. LineTail(data_nmea, 0)'
    <2>1. ASSUME 0 < Len(coming'), coming'[1].at > 1 PROVE coming'[1].id \in unlined'
      <3>1. coming[n].id = coming'[1].id
        BY <2>1, CutItem
      <3>2. n \in 1 .. n
        OBVIOUS
      <3>3. QED
        BY <1>2, <3>1, <3>2
    <2>2. 0 + 1 = 1
      OBVIOUS
    <2>3. QED
      BY <2>1, <2>2 DEF LineTail
  <1>4. SentencesHeard'
    <2>1. Increasing(lines')
      BY DEF LineState
    <2>2. \A w \in whole' : w.id \in unlined'
      BY <1>2 DEF WholeIs
    <2>3. QED
      BY <2>1, <2>2 DEF SentencesHeard, Increasing
  <1>5. QED
    BY <1>1, <1>3, <1>4 DEF LineInv
-----------------------------------------------------------------------------
(* The steps *)

\* A read.
LEMMA ReadStep ==
  ASSUME IInv, NEW n \in 1 .. MaxRead, Read(n)
  PROVE  IInv'
  <1>1. ComingInv /\ ScanInv /\ LineInv /\ Len(coming) \in Nat
    BY DEF IInv, ComingInv
  <1>2. n \in Nat /\ n \in 1 .. Len(coming)
    <2>1. n <= Len(coming)
      BY DEF Read
    <2>2. QED
      BY <1>1, <2>1, StreamAssumption
  <1>3. coming' = SubSeq(coming, n + 1, Len(coming)) /\ items' = items
    BY DEF Read
  <1> DEFINE chunk == SubSeq(coming, 1, n)
  <1>4. WholeIs(n)
    <2>1. whole' = {[id |-> chunk[i].id, kind |-> chunk[i].kind] : i \in {k \in 1 .. n : chunk[k].last}}
      BY DEF Read
    <2>2. \A i \in 1 .. n : chunk[i] = coming[i]
      BY <1>1, <1>2, <1>3, ReadTakes
    <2> HIDE DEF chunk
    <2>3. {k \in 1 .. n : chunk[k].last} = {k \in 1 .. n : coming[k].last}
      BY <2>2
    <2>4. QED
      BY <2>1, <2>2, <2>3 DEF WholeIs
  <1>5. ComingInv'
    BY <1>1, <1>2, <1>3, ReadTakes
  <1>6. CASE parseDataType = "AUTO"
    <2>1. /\ ScanChunk(chunk) /\ LineChunk(chunk, TRUE)
          /\ unlined' = Unread(unlined) \cup {}
      BY <1>6 DEF Read
    <2>2. ScanInv'
      BY <1>1, <1>2, <1>3, <1>4, <2>1, ChunkScans
    <2>3. LineInv'
      BY <1>1, <1>2, <1>3, <1>4, <2>1, ReadHears
    <2>4. QED
      BY <1>5, <2>2, <2>3 DEF IInv
  <1>7. CASE parseDataType # "AUTO"
    <2>1. unlined' = Unread(unlined) \cup Ids(chunk)
      BY <1>7 DEF Read
    <2>2. CASE parseDataType = "NMEA"
      <3>1. /\ LineChunk(chunk, FALSE) /\ unscanned' = Unread(unscanned) \cup Ids(chunk)
            /\ UNCHANGED <<data_raw, decoded>>
        BY <1>7, <2>2 DEF Read
      <3>2. ScanInv'
        BY <1>1, <1>2, <1>3, <1>4, <3>1, ChunkPasses
      <3>3. FALSE \in BOOLEAN
        OBVIOUS
      <3>4. PICK after : Assembles(after, n, FALSE)
        BY <1>1, <1>2, <3>1, <3>3, ChunkAssembled
      <3>5. LineState(data_nmea, lines, 0)
        BY <1>1 DEF LineInv
      <3>6. LineState(data_nmea', lines', n)
        <4>1. \A k \in 0 .. n : after[k] \in Acc /\ LineState(after[k].line, after[k].good, k)
          BY <1>1, <1>2, <3>3, <3>4, <3>5, LoopKeeps
        <4>2. n \in 0 .. n
          BY <1>2
        <4>3. data_nmea' = after[n].line /\ lines' = after[n].good
          BY <3>4, Zenon DEF Assembles
        <4>4. QED
          BY <4>1, <4>2, <4>3
      <3>7. LineInv'
        BY <1>1, <1>2, <1>3, <1>4, <2>1, <3>6, ReadPasses
      <3>8. QED
        BY <1>5, <3>2, <3>7 DEF IInv
    <2>3. CASE parseDataType # "NMEA"
      <3>1. ScanChunk(chunk) /\ UNCHANGED <<data_nmea, lines>>
        BY <1>7, <2>3 DEF Read
      <3>2. ScanInv'
        BY <1>1, <1>2, <1>3, <1>4, <3>1, ChunkScans
      <3>3. LineState(data_nmea, lines, 0)
        BY <1>1 DEF LineInv
      <3>4. LineState(data_nmea, lines, n)
        <4>1. \A j \in n + 1 .. Len(coming) : j \in 0 + 1 .. Len(coming)
          BY <1>1, <1>2
        <4>2. QED
          BY <3>3, <4>1 DEF LineState
      <3>5. LineState(data_nmea', lines', n)
        BY <3>1, <3>4
      <3>6. LineInv'
        BY <1>1, <1>2, <1>3, <1>4, <2>1, <3>5, ReadPasses
      <3>7. QED
        BY <1>5, <3>2, <3>6 DEF IInv
    <2>4. QED
      BY <2>2, <2>3
  <1>8. QED
    BY <1>6, <1>7

\* What the module sends.
LEMMA CellsSent ==
  ASSUME NEW id \in Nat, NEW kind \in Kinds, NEW byte \in Bytes
  PROVE  LET cells == Cells(id, kind, byte)
         IN  /\ cells \in Seq(Cell) /\ Len(cells) = SizeOf(kind) /\ SizeOf(kind) \in 2 .. 4
             /\ \A i \in 1 .. SizeOf(kind) :
                  /\ cells[i].id = id /\ cells[i].at = i /\ cells[i].kind = kind
                  /\ cells[i].last <=> i = SizeOf(kind)
  <1>1. SizeOf(kind) \in 2 .. 4 /\ byte \in {"$", "lf", "x"}
    BY StreamAssumption DEF SizeOf
  <1>2. PICK size \in 2 .. 4 : size = SizeOf(kind)
    BY <1>1
  <1>3. PICK bytes : bytes = BytesOf(kind, byte)
    OBVIOUS
  <1>4. /\ Len(bytes) = size /\ \A i \in 1 .. size : bytes[i] \in {"$", "lf", "x"}
        /\ kind = "sentence" => bytes = <<"$", "x", "lf">>
    <2>1. CASE kind = "sentence"
      <3>1. bytes = <<"$", "x", "lf">> /\ size = 3
        BY <1>2, <1>3, <2>1 DEF BytesOf, SizeOf
      <3>2. QED
        BY <3>1
    <2>2. CASE kind = "cut"
      <3>1. bytes = <<"x", byte>> /\ size = 2
        BY <1>2, <1>3, <2>2 DEF BytesOf, SizeOf
      <3>2. QED
        BY <1>1, <2>2, <3>1
    <2>3. CASE kind # "sentence" /\ kind # "cut"
      <3>1. bytes = <<"x", byte, "x", "x">> /\ size = 4
        BY <1>2, <1>3, <2>3 DEF BytesOf, SizeOf
      <3>2. QED
        BY <1>1, <2>3, <3>1
    <2>4. QED
      BY <2>1, <2>2, <2>3
  <1> DEFINE cell(i) == [id |-> id, kind |-> kind, at |-> i, byte |-> bytes[i], last |-> i = size]
             cells == [i \in 1 .. size |-> cell(i)]
  <1>5. Cells(id, kind, byte) = cells
    BY <1>3, <1>4 DEF Cells
  <1>6. ASSUME NEW i \in 1 .. size PROVE cell(i) \in Cell
    <2>1. /\ i \in 1 .. 4 /\ (i = size) \in BOOLEAN /\ bytes[i] \in {"$", "lf", "x"}
          /\ i <= size
      BY <1>4
    <2>2. cell(i) \in [id: Nat, kind: Kinds, at: 1 .. 4, byte: {"$", "lf", "x"}, last: BOOLEAN]
      BY <2>1
    <2>3. cell(i).kind = "sentence" => cell(i).byte = <<"$", "x", "lf">>[cell(i).at]
      BY <1>4
    <2>4. QED
      BY <1>2, <2>1, <2>2, <2>3 DEF Cell
  <1>7. cells \in Seq(Cell) /\ Len(cells) = size /\ \A i \in 1 .. size : cells[i] = cell(i)
    BY <1>6
  <1>8. ASSUME NEW i \in 1 .. size
        PROVE  /\ cell(i).id = id /\ cell(i).at = i /\ cell(i).kind = kind
               /\ cell(i).last <=> i = size
    OBVIOUS
  <1> HIDE DEF cells, cell
  <1>9. /\ cells \in Seq(Cell) /\ Len(cells) = size
        /\ \A i \in 1 .. size : /\ cells[i].id = id /\ cells[i].at = i /\ cells[i].kind = kind
                                /\ cells[i].last <=> i = size
    BY <1>7, <1>8
  <1>10. QED
    BY <1>1, <1>2, <1>5, <1>9, Zenon
\* The module sends an item.
LEMMA SendStep ==
  ASSUME IInv, NEW kind \in Kinds, NEW byte \in Bytes, Send(kind, byte)
  PROVE  IInv'
  <1>1. /\ items' = items + 1 /\ coming' = coming \o Cells(items + 1, kind, byte)
        /\ UNCHANGED <<data_raw, data_nmea, decoded, lines, whole, unscanned, unlined>>
    BY DEF Send
  <1>2. /\ coming \in Seq(Cell) /\ Len(coming) \in Nat /\ items \in Nat /\ items' \in Nat
        /\ items < items'
    BY <1>1 DEF IInv, ComingInv
  <1>3. PICK cells : cells = Cells(items', kind, byte)
    OBVIOUS
  <1>4. PICK size \in 2 .. 4 : size = SizeOf(kind)
    BY <1>2, CellsSent
  <1>5. /\ cells \in Seq(Cell) /\ Len(cells) = size
        /\ \A i \in 1 .. size :
             /\ cells[i].id = items' /\ cells[i].at = i /\ cells[i].kind = kind
             /\ cells[i].last <=> i = size
    BY <1>2, <1>3, <1>4, CellsSent
  <1>6. PICK len \in Nat : len = Len(coming)
    BY <1>2
  <1>7. /\ coming' \in Seq(Cell) /\ Len(coming') = len + size
        /\ \A i \in 1 .. len + size :
             coming'[i] = IF i <= len THEN coming[i] ELSE cells[i - len]
    <2>1. coming' = coming \o cells
      BY <1>1, <1>3
    <2>2. QED
      BY <1>2, <1>5, <1>6, <2>1, ConcatProperties
  <1>8. ASSUME NEW i \in Nat, i \in 1 .. len + size, i <= len
        PROVE  i \in 1 .. Len(coming) /\ coming'[i] = coming[i] /\ coming'[i].id <= items
    BY <1>6, <1>7, <1>8 DEF IInv, ComingInv
  <1>9. ASSUME NEW i \in Nat, i \in 1 .. len + size, ~(i <= len)
        PROVE  /\ coming'[i].id = items' /\ coming'[i].at = i - len /\ coming'[i].kind = kind
               /\ coming'[i].last <=> i - len = size
    <2>1. i - len \in 1 .. size
      BY <1>9
    <2>2. coming'[i] = cells[i - len]
      BY <1>7, <1>9
    <2>3. QED
      BY <1>5, <2>1, <2>2
  <1>10. \A c \in Cell : c.id \in Nat /\ c.at \in 1 .. 4
    BY DEF Cell
  <1>11. \A i \in 1 .. len + size : coming'[i].id <= items'
    <2>1. ASSUME NEW i \in Nat, i \in 1 .. len + size PROVE coming'[i].id <= items'
      <3>1. coming'[i] \in Cell
        BY <1>7, <2>1
      <3>2. coming'[i].id \in Nat
        BY <1>10, <3>1
      <3>3. CASE i <= len
        BY <1>2, <1>8, <2>1, <3>2, <3>3
      <3>4. CASE ~(i <= len)
        BY <1>2, <1>9, <2>1, <3>4
      <3>5. QED
        BY <3>3, <3>4
    <2>2. QED
      BY <2>1
  <1>12. Sorted(coming')
    <2>1. ASSUME NEW i \in Nat, NEW j \in Nat, i \in 1 .. len + size, j \in 1 .. len + size, i < j
          PROVE  Before(coming'[i], coming'[j])
      <3>1. CASE j <= len
        <4>1. i <= len
          BY <2>1, <3>1
        <4>2. /\ i \in 1 .. Len(coming) /\ j \in 1 .. Len(coming)
              /\ coming'[i] = coming[i] /\ coming'[j] = coming[j]
          BY <2>1, <3>1, <4>1, <1>8
        <4>3. QED
          BY <2>1, <4>2 DEF IInv, ComingInv, Sorted
      <3>2. CASE i <= len /\ ~(j <= len)
        <4>1. coming'[i].id <= items /\ coming'[j].id = items'
          BY <2>1, <3>2, <1>8, <1>9
        <4>2. coming'[i] \in Cell
          BY <2>1, <1>7
        <4>3. QED
          BY <4>1, <4>2, <1>2, <1>10 DEF Before
      <3>3. CASE ~(i <= len)
        <4>1. ~(j <= len)
          BY <2>1, <3>3
        <4>2. /\ coming'[i].id = items' /\ coming'[i].at = i - len
              /\ coming'[j].id = items' /\ coming'[j].at = j - len
          BY <2>1, <3>3, <4>1, <1>9
        <4>3. i - len < j - len
          BY <2>1
        <4>4. QED
          BY <4>2, <4>3 DEF Before
      <3>4. QED
        BY <3>1, <3>2, <3>3
    <2>2. QED
      BY <1>7, <2>1 DEF Sorted
  <1>13. ASSUME NEW i \in Nat, i \in 1 .. (len + size) - 1
         PROVE  Follows(coming'[i], coming'[i + 1])
    <2>1. i \in 1 .. len + size /\ i + 1 \in 1 .. len + size /\ i + 1 \in Nat
      BY <1>13
    <2>2. CASE i + 1 <= len
      <3>1. /\ i \in 1 .. Len(coming) - 1 /\ coming'[i] = coming[i] /\ coming'[i + 1] = coming[i + 1]
        BY <2>1, <2>2, <1>6, <1>8
      <3>2. QED
        BY <3>1 DEF IInv, ComingInv
    <2>3. CASE i = len
      <3>1. coming'[i] = coming[len]
        BY <2>1, <2>3, <1>8
      <3>2. coming # <<>>
        <4>1. Len(coming) # 0
          BY <2>1, <2>3, <1>6
        <4>2. QED
          BY <4>1
      <3>3. coming[len].last
        BY <3>2, <1>6 DEF IInv, ComingInv
      <3>4. coming'[i + 1].at = 1
        <4>1. ~(i + 1 <= len) /\ (i + 1) - len = 1
          BY <2>1, <2>3
        <4>2. QED
          BY <2>1, <4>1, <1>9
      <3>5. QED
        BY <3>1, <3>3, <3>4 DEF Follows
    <2>4. CASE i > len
      <3>1. ~(i <= len) /\ ~(i + 1 <= len) /\ (i + 1) - len = (i - len) + 1 /\ i - len # size
        BY <1>13, <2>4
      <3>2. /\ coming'[i].id = items' /\ coming'[i].at = i - len /\ coming'[i].kind = kind
            /\ ~coming'[i].last
        BY <2>1, <3>1, <1>9
      <3>3. /\ coming'[i + 1].id = items' /\ coming'[i + 1].at = (i - len) + 1
            /\ coming'[i + 1].kind = kind
        BY <2>1, <3>1, <1>9
      <3>4. QED
        BY <3>2, <3>3 DEF Follows
    <2>5. QED
      BY <2>2, <2>3, <2>4
  <1>14. coming'[len + size].last
    <2>1. len + size \in Nat /\ len + size \in 1 .. len + size /\ ~(len + size <= len)
          /\ (len + size) - len = size
      OBVIOUS
    <2>2. coming'[len + size].last <=> (len + size) - len = size
      BY <2>1, <1>9, Zenon
    <2>3. QED
      BY <2>1, <2>2, Zenon
  <1>15. ComingInv'
    <2>1. Len(coming') = len + size /\ len + size \in Nat
      BY <1>7
    <2>2. \A i \in 1 .. Len(coming') : coming'[i].id <= items'
      BY <1>11, <2>1
    <2>3. \A i \in 1 .. Len(coming') - 1 : Follows(coming'[i], coming'[i + 1])
      <3>1. ASSUME NEW i \in 1 .. (len + size) - 1 PROVE Follows(coming'[i], coming'[i + 1])
        <4>1. i \in Nat
          OBVIOUS
        <4>2. QED
          BY <1>13, <4>1, Zenon
      <3>2. QED
        BY <2>1, <3>1, Zenon
    <2>4. coming'[Len(coming')].last
      BY <1>14, <2>1, Zenon
    <2>5. coming' \in Seq(Cell) /\ items' \in Nat /\ Sorted(coming')
      BY <1>2, <1>7, <1>12, Zenon
    <2>6. QED
      BY <2>2, <2>3, <2>4, <2>5, Zenon DEF ComingInv
  <1>16. ASSUME NEW c \in Cell, c.id <= items,
                \A j \in 1 .. Len(coming) : Before(c, coming[j])
         PROVE  c.id <= items' /\ \A j \in 1 .. Len(coming') : Before(c, coming'[j])
    <2>1. c.id \in Nat /\ c.id < items'
      BY <1>2, <1>10, <1>16
    <2>2. ASSUME NEW j \in Nat, j \in 1 .. len + size PROVE Before(c, coming'[j])
      <3>1. CASE j <= len
        BY <2>2, <3>1, <1>8, <1>16
      <3>2. CASE ~(j <= len)
        BY <2>1, <2>2, <3>2, <1>9 DEF Before
      <3>3. QED
        BY <3>1, <3>2
    <2>3. QED
      BY <1>2, <1>7, <2>1, <2>2
  <1>17. ASSUME NEW id \in Nat, id <= items, \A j \in 1 .. Len(coming) : Past(id, coming[j])
         PROVE  id <= items' /\ \A j \in 1 .. Len(coming') : Past(id, coming'[j])
    <2>1. id < items'
      BY <1>2, <1>17
    <2>2. ASSUME NEW j \in Nat, j \in 1 .. len + size PROVE Past(id, coming'[j])
      <3>1. CASE j <= len
        BY <2>2, <3>1, <1>8, <1>17
      <3>2. CASE ~(j <= len)
        BY <2>1, <2>2, <3>2, <1>9 DEF Past
      <3>3. QED
        BY <3>1, <3>2
    <2>3. QED
      BY <1>2, <1>7, <2>1, <2>2
  <1>18. \/ 0 < Len(coming) /\ coming # <<>> /\ coming'[1] = coming[1]
         \/ coming'[1].at = 1
    <2>1. 1 \in 1 .. len + size
      OBVIOUS
    <2>2. CASE len = 0
      <3>1. ~(1 <= len) /\ 1 - len = 1
        BY <2>2
      <3>2. QED
        BY <2>1, <3>1, <1>9
    <2>3. CASE len # 0
      <3>1. 1 <= len /\ Len(coming) # 0
        BY <2>3, <1>6
      <3>2. coming # <<>> /\ 0 < Len(coming)
        BY <3>1, <1>2
      <3>3. coming'[1] = coming[1]
        BY <2>1, <3>1, <1>8
      <3>4. QED
        BY <3>2, <3>3
    <2>4. QED
      BY <2>2, <2>3
  <1>19. RawInv'
    <2>1. RawInv
      BY DEF IInv, ScanInv
    <2>2. ASSUME NEW i \in 1 .. Len(data_raw)
          PROVE  /\ data_raw[i].id <= items'
                 /\ \A j \in 1 .. Len(coming') : Before(data_raw[i], coming'[j])
      <3>1. /\ data_raw[i] \in Cell /\ data_raw[i].id <= items
            /\ \A j \in 1 .. Len(coming) : Before(data_raw[i], coming[j])
        BY <2>1 DEF RawInv
      <3>2. QED
        BY <3>1, <1>16
    <2>3. QED
      BY <1>1, <2>1, <2>2 DEF RawInv, Sorted
  <1>20. DecodedInv'
    <2>1. DecodedInv
      BY DEF IInv, ScanInv
    <2>2. ASSUME NEW i \in 1 .. Len(decoded)
          PROVE  /\ decoded[i] <= items'
                 /\ \A j \in 1 .. Len(coming') : Past(decoded[i], coming'[j])
      <3>1. /\ decoded[i] \in Nat /\ decoded[i] <= items
            /\ \A j \in 1 .. Len(coming) : Past(decoded[i], coming[j])
        BY <2>1 DEF DecodedInv
      <3>2. QED
        BY <3>1, <1>17
    <2>3. decoded' = decoded /\ data_raw' = data_raw
      BY <1>1
    <2>4. QED
      BY <2>1, <2>2, <2>3 DEF DecodedInv, RecordsOnce, Increasing
  <1>21. RawTail'
    <2>1. RawTail /\ RawInv
      BY DEF IInv, ScanInv
    <2>2. CASE coming'[1].at = 1
      <3>1. Len(data_raw') \in Nat
        BY <1>1, <2>1 DEF RawInv
      <3>2. QED
        BY <2>2, <3>1 DEF RawTail
    <2>3. CASE coming # <<>> /\ coming'[1] = coming[1]
      BY <1>1, <2>1, <2>3 DEF RawTail
    <2>4. QED
      BY <1>18, <2>2, <2>3
  <1>22. ScanInv'
    <2>1. RecordsDecoded'
      BY <1>1 DEF IInv, ScanInv, RecordsDecoded
    <2>2. QED
      BY <1>19, <1>20, <1>21, <2>1 DEF ScanInv
  <1>23. LineState(data_nmea, lines, 0)'
    <2>1. LineState(data_nmea, lines, 0)
      BY DEF IInv, LineInv
    <2>2. ASSUME NEW i \in 1 .. Len(data_nmea)
          PROVE  /\ data_nmea[i].id <= items'
                 /\ \A j \in 1 .. Len(coming') : Before(data_nmea[i], coming'[j])
      <3>1. /\ data_nmea[i] \in Cell /\ data_nmea[i].id <= items
            /\ \A j \in 1 .. Len(coming) : Before(data_nmea[i], coming[j])
        BY <2>1 DEF LineState
      <3>2. QED
        BY <3>1, <1>16
    <2>3. ASSUME NEW i \in 1 .. Len(lines)
          PROVE  /\ lines[i] <= items'
                 /\ \A j \in 1 .. Len(coming') : Past(lines[i], coming'[j])
      <3>1. /\ lines[i] \in Nat /\ lines[i] <= items
            /\ \A j \in 1 .. Len(coming) : Past(lines[i], coming[j])
        BY <2>1 DEF LineState
      <3>2. QED
        BY <3>1, <1>17
    <2>4. lines' = lines /\ data_nmea' = data_nmea /\ 0 + 1 = 1
      BY <1>1
    <2>5. /\ data_nmea' \in Seq(Cell) /\ Len(data_nmea') < LineSize /\ Sorted(data_nmea')
          /\ lines' \in Seq(Nat) /\ Increasing(lines')
          /\ \A y \in 1 .. Len(lines'), x \in 1 .. Len(data_nmea') : Past(lines'[y], data_nmea'[x])
      BY <2>1, <2>4 DEF LineState
    <2>6. QED
      BY <2>2, <2>3, <2>4, <2>5 DEF LineState
  <1>24. LineTail(data_nmea, 0)'
    <2>1. LineTail(data_nmea, 0) /\ 0 + 1 = 1
      BY DEF IInv, LineInv
    <2>2. CASE coming'[1].at = 1
      BY <2>1, <2>2 DEF LineTail
    <2>3. CASE 0 < Len(coming) /\ coming'[1] = coming[1]
      BY <1>1, <2>1, <2>3 DEF LineTail
    <2>4. QED
      BY <1>18, <2>2, <2>3
  <1>25. LineInv'
    <2>1. SentencesHeard'
      BY <1>1 DEF IInv, LineInv, SentencesHeard, Increasing
    <2>2. QED
      BY <1>23, <1>24, <2>1 DEF LineInv
  <1>26. QED
    BY <1>15, <1>22, <1>25 DEF IInv

\* Nothing else in a state matters to the invariant.
LEMMA Unchanged ==
  ASSUME IInv,
         UNCHANGED <<data_raw, data_nmea, coming, items, decoded, lines, whole, unscanned, unlined>>
  PROVE  IInv'
  BY DEF IInv, ComingInv, ScanInv, LineInv, RawInv, DecodedInv, RawTail, LineState, LineTail,
         RecordsOnce, RecordsDecoded, SentencesHeard, Increasing, Sorted

\* IInv holds initially.
LEMMA InitInv == Init => IInv
  <1> SUFFICES ASSUME Init PROVE IInv
    OBVIOUS
  <1>1. /\ data_raw = <<>> /\ data_nmea = <<>> /\ coming = <<>> /\ items = 0 /\ decoded = <<>>
        /\ lines = <<>> /\ whole = {}
    BY DEF Init
  <1>2. Len(<<>>) = 0 /\ <<>> \in Seq(Cell) /\ <<>> \in Seq(Nat) /\ 1 .. 0 = {}
    OBVIOUS
  <1>3. ComingInv
    BY <1>1, <1>2 DEF ComingInv, Sorted
  <1>4. ScanInv
    <2>1. RawSize \in Nat
      BY StreamAssumption
    <2>2. QED
      BY <1>1, <1>2, <2>1 DEF ScanInv, RawInv, DecodedInv, RawTail, RecordsOnce, RecordsDecoded,
                              Increasing, Sorted
  <1>5. LineInv
    <2>1. LineSize \in Nat /\ LineSize > 2
      BY StreamAssumption
    <2>2. QED
      BY <1>1, <1>2, <2>1 DEF LineInv, LineState, LineTail, SentencesHeard, Increasing, Sorted
  <1>6. QED
    BY <1>3, <1>4, <1>5 DEF IInv

\* IInv is inductive.
LEMMA StepInv == IInv /\ [Next]_vars => IInv'
  <1> SUFFICES ASSUME IInv, [Next]_vars PROVE IInv'
    OBVIOUS
  <1>1. ASSUME NEW n \in 1 .. MaxRead, Read(n) PROVE IInv'
    BY <1>1, ReadStep
  <1>2. ASSUME NEW mode \in Commanded, SetParseDataType(mode) PROVE IInv'
    BY <1>2, Unchanged DEF SetParseDataType
  <1>3. ASSUME NEW kind \in Kinds, NEW byte \in Bytes, Send(kind, byte) PROVE IInv'
    BY <1>3, SendStep
  <1>4. CASE UNCHANGED vars
    BY <1>4, Unchanged DEF vars
  <1>5. QED
    BY <1>1, <1>2, <1>3, <1>4 DEF Next

\* It holds of every reachable state.
LEMMA Invariance == Spec => []IInv
  BY InitInv, StepInv, PTL DEF Spec

\* Neither buffer outgrows its array, whichever way the reads cut the stream and whichever
\* mode leaves it unscanned: gnss_handle_raw_bytes copies what fits, and
\* gnss_handle_nmea_bytes drops a line that would not (gnss_func.h:100-111,
\* gnss_thread.c:86-134).
THEOREM BuffersFit == Spec => []BuffersHold
  <1>1. IInv => BuffersHold
    BY DEF IInv, ScanInv, RawInv, LineInv, LineState, BuffersHold
  <1>2. QED
    BY <1>1, Invariance, PTL

\* A record is decoded at most once and in order: what the scan leaves in the buffer is
\* behind the header of the last record it found (gnss_ephb.c:340-341,
\* gnss_thread.c:126-134).
THEOREM NoRecordTwice == Spec => []RecordsOnce
  <1>1. IInv => RecordsOnce
    BY DEF IInv, ScanInv, DecodedInv
  <1>2. QED
    BY <1>1, Invariance, PTL

\* A record is decoded with the read that brings its last byte, unless some of it was
\* dropped or read in NMEA mode: the item that a read cuts is kept whole at the end of the
\* buffer (gnss_thread.c:113-125).
THEOREM EveryRecordDecoded == Spec => []RecordsDecoded
  <1>1. IInv => RecordsDecoded
    BY DEF IInv, ScanInv
  <1>2. QED
    BY <1>1, Invariance, PTL

\* A sentence all of which was read in AUTO mode is accepted once, in order, with its line
\* feed, whatever binary came before it: a "$" begins a line anew (gnss_thread.c:63-111).
THEOREM EverySentenceHeard == Spec => []SentencesHeard
  <1>1. IInv => SentencesHeard
    BY DEF IInv, LineInv
  <1>2. QED
    BY <1>1, Invariance, PTL

-----------------------------------------------------------------------------
(* The decoders of records, for any kinds, satellites and signals *)

\* A field as the decoders read them: its bits are those that are stepped over, but for
\* the mean anomaly of GPS, and reserved ones that are not read.
Conversions == {"uint8", "uint16", "uint32", "uint64", "int8", "int16", "int32", "int64",
                "raw", "word", "spare", "local"}
Field == {f \in [bits : Nat, step : Nat, size : Nat, as : Conversions] :
            f.bits = f.step \/ f.bits = 0 \/ f = MeanAnomaly}

\* Each form of a field is one, when it is stepped over by what is read.
LEMMA FieldForms ==
  /\ \A n \in Nat : /\ U8(n, n) \in Field /\ U16(n, n) \in Field /\ U32(n, n) \in Field
                    /\ UD(n, n) \in Field /\ HD(n, n) \in Field /\ I8(n, n) \in Field
                    /\ I16(n, n) \in Field /\ SD(n, n) \in Field /\ ID(n, n) \in Field
                    /\ WD(n, n) \in Field /\ LD(n, n) \in Field /\ QD(n, n) \in Field
                    /\ RD(n, n) \in Field /\ Skip(n) \in Field /\ Local(n, n) \in Field
  /\ \A n, m \in Nat : Spare(n, n, m) \in Field
  /\ Crc24 \in Field /\ MeanAnomaly \in Field
  <1>1. \A n, m \in Nat : \A as \in Conversions : F(n, n, m, as) \in Field
    BY DEF F, Field
  <1>2. \A n, m \in Nat : Spare(n, n, m) \in Field
    BY <1>1 DEF Spare, Conversions
  <1>3. MeanAnomaly \in Field
    BY DEF MeanAnomaly, SD, F, Field, Conversions
  <1>4. \A n \in Nat : Skip(n) \in Field
    BY DEF Skip, Spare, F, Field, Conversions
  <1>5. \A n \in Nat : /\ U8(n, n) \in Field /\ U16(n, n) \in Field /\ U32(n, n) \in Field
                      /\ UD(n, n) \in Field /\ HD(n, n) \in Field /\ I8(n, n) \in Field
                      /\ I16(n, n) \in Field /\ SD(n, n) \in Field
    BY <1>1 DEF U8, U16, U32, UD, HD, I8, I16, SD, Conversions
  <1>6. \A n \in Nat : /\ ID(n, n) \in Field /\ WD(n, n) \in Field /\ LD(n, n) \in Field
                      /\ QD(n, n) \in Field /\ RD(n, n) \in Field /\ Local(n, n) \in Field
    BY <1>1 DEF ID, WD, LD, QD, RD, Local, Conversions
  <1>7. QED
    BY <1>2, <1>3, <1>4, <1>5, <1>6 DEF Crc24

\* A field that comes several times.
LEMMA TimesForm ==
  ASSUME NEW f \in Field, NEW n \in Nat
  PROVE  Times(n, f) \in Seq(Field)
  BY DEF Times

\* The decoders whose fields are always the same.
LEMMA FixedForms ==
  /\ Gps \in Seq(Field) /\ Bd2 \in Seq(Field) /\ Bd3 \in Seq(Field) /\ Bd3Cnav2 \in Seq(Field)
  /\ Bd3Cnav3 \in Seq(Field) /\ Bdxw \in Seq(Field) /\ Glo \in Seq(Field) /\ Gal \in Seq(Field)
  /\ Posdatab \in Seq(Field)
  <1>1. Moment \in Seq(Field)
    BY FieldForms DEF Moment
  <1>2. Bd3Orbit \in Seq(Field) /\ Bd3Terms \in Seq(Field) /\ GloAxis \in Seq(Field)
    BY FieldForms DEF Bd3Orbit, Bd3Terms, GloAxis
  <1>3. \A m, n \in Nat : /\ Times(n, SD(m, m)) \in Seq(Field) /\ Times(n, WD(m, m)) \in Seq(Field)
                          /\ Times(n, LD(m, m)) \in Seq(Field)
    BY FieldForms, TimesForm
  <1>4. Gps \in Seq(Field)
    <2> DEFINE a == <<U8(6, 6), U8(4, 4), U8(6, 6), U16(10, 10), U16(16, 16), U16(16, 16),
                      SD(22, 22), SD(16, 16), SD(8, 8), U8(8, 8), U16(10, 10), SD(14, 14)>>
               b == <<MeanAnomaly, UD(32, 32), UD(32, 32)>>
               c == <<SD(24, 24), SD(8, 8), U8(2, 2), U8(1, 1), U8(1, 1), Spare(4, 4, 1), Crc24>>
    <2>1. a \in Seq(Field) /\ b \in Seq(Field) /\ c \in Seq(Field)
      BY FieldForms
    <2>2. Gps = Moment \o a \o Times(7, SD(16, 16)) \o b \o Times(3, SD(32, 32)) \o c
      BY Zenon DEF Gps
    <2> HIDE DEF a, b, c
    <2>3. QED
      BY <1>1, <1>2, <1>3, <2>1, <2>2
  <1>5. Bd2 \in Seq(Field)
    <2> DEFINE a == <<U8(6, 6), U8(4, 4), U8(1, 1), U16(13, 13), U32(17, 17), U32(17, 17),
                      SD(24, 24), SD(22, 22), SD(11, 11), U8(5, 5), U8(5, 5), SD(14, 14)>>
               b == <<SD(16, 16), SD(32, 32), UD(32, 32), UD(32, 32)>>
               c == <<SD(24, 24), SD(10, 10), SD(10, 10), Spare(5, 5, 1), Crc24>>
    <2>1. a \in Seq(Field) /\ b \in Seq(Field) /\ c \in Seq(Field)
      BY FieldForms
    <2>2. Bd2 = Moment \o a \o Times(6, SD(18, 18)) \o b \o Times(3, SD(32, 32)) \o c
      BY Zenon DEF Bd2
    <2> HIDE DEF a, b, c
    <2>3. QED
      BY <1>1, <1>2, <1>3, <2>1, <2>2
  <1>6. Bd3 \in Seq(Field)
    <2> DEFINE a == <<Spare(2, 2, 1), Crc24>>
    <2>1. a \in Seq(Field)
      BY FieldForms
    <2>2. Bd3 = Moment \o Bd3Orbit \o Bd3Terms \o Times(3, LD(12, 12)) \o a
      BY Zenon DEF Bd3
    <2> HIDE DEF a
    <2>3. QED
      BY <1>1, <1>2, <1>3, <2>1, <2>2
  <1>7. Bd3Cnav2 \in Seq(Field)
    <2> DEFINE a == <<Spare(2, 2, 1), Crc24>>
    <2>1. a \in Seq(Field)
      BY FieldForms
    <2>2. Bd3Cnav2 = Moment \o Bd3Orbit \o Bd3Terms \o Times(3, LD(12, 12)) \o a
      BY Zenon DEF Bd3Cnav2
    <2> HIDE DEF a
    <2>3. QED
      BY <1>1, <1>2, <1>3, <2>1, <2>2
  <1>8. Bd3Cnav3 \in Seq(Field)
    <2> DEFINE a == <<LD(12, 12), Spare(26, 26, 4), Crc24>>
    <2>1. a \in Seq(Field)
      BY FieldForms
    <2>2. Bd3Cnav3 = Moment \o Bd3Orbit \o Bd3Terms \o a
      BY Zenon DEF Bd3Cnav3
    <2> HIDE DEF a
    <2>3. QED
      BY <1>1, <1>2, <1>3, <2>1, <2>2
  <1>9. Bdxw \in Seq(Field)
    <2> DEFINE a == <<U8(8, 8), U8(2, 2), U16(13, 13), U32(16, 16), U32(17, 17), SD(27, 27),
                      SD(22, 22), U8(4, 4), U8(3, 3)>>
               b == <<SD(26, 26), SD(26, 26), SD(25, 25), SD(25, 25)>>
               c == <<SD(26, 26), SD(26, 26), SD(27, 27), LD(33, 33), LD(36, 36), QD(30, 30),
                      SD(27, 27), SD(22, 22), SD(22, 22), LD(31, 31), LD(36, 36), SD(26, 26),
                      LD(36, 36), Spare(36, 36, 8), Crc24>>
    <2>1. a \in Seq(Field) /\ b \in Seq(Field) /\ c \in Seq(Field)
      BY FieldForms
    <2>2. Bdxw = Moment \o a \o b \o Times(4, SD(21, 21)) \o c
      BY Zenon DEF Bdxw
    <2> HIDE DEF a, b, c
    <2>3. QED
      BY <1>1, <1>2, <1>3, <2>1, <2>2
  <1>10. Glo \in Seq(Field)
    <2> DEFINE a == <<U8(6, 6), U8(5, 5), U8(1, 1), U8(5, 5), U16(11, 11), U16(12, 12),
                      U8(7, 7), SD(11, 11), SD(22, 22)>>
               b == <<Crc24>>
    <2>1. a \in Seq(Field) /\ b \in Seq(Field)
      BY FieldForms
    <2>2. Glo = Moment \o a \o GloAxis \o GloAxis \o GloAxis \o b
      BY Zenon DEF Glo
    <2> HIDE DEF a, b
    <2>3. QED
      BY <1>1, <1>2, <1>3, <2>1, <2>2
  <1>11. Gal \in Seq(Field)
    <2> DEFINE a == <<U8(6, 6), U8(8, 8), U8(2, 2), U8(1, 1), U8(2, 2), U8(1, 1), U16(12, 12),
                      U32(14, 14), U32(14, 14), SD(31, 31), SD(21, 21), SD(6, 6), U16(10, 10),
                      SD(14, 14)>>
               b == <<SD(32, 32), UD(32, 32), UD(32, 32)>>
               c == <<SD(24, 24), SD(10, 10), SD(10, 10), U8(2, 2), Spare(4, 4, 1), Crc24>>
    <2>1. a \in Seq(Field) /\ b \in Seq(Field) /\ c \in Seq(Field)
      BY FieldForms
    <2>2. Gal = Moment \o a \o Times(7, SD(16, 16)) \o b \o Times(3, SD(32, 32)) \o c
      BY Zenon DEF Gal
    <2> HIDE DEF a, b, c
    <2>3. QED
      BY <1>1, <1>2, <1>3, <2>1, <2>2
  <1>12. Posdatab \in Seq(Field)
    <2> DEFINE a == <<U8(3, 3), U16(13, 13), UD(32, 32), I8(8, 8), U8(4, 4), U8(6, 6), U8(6, 6),
                      LD(36, 36), LD(36, 36), LD(30, 30)>>
               b == <<U8(8, 8), U8(8, 8), UD(16, 16), U8(1, 1), U8(3, 3)>>
               c == <<Spare(32, 32, 4), Spare(32, 32, 4), Crc24>>
    <2>1. a \in Seq(Field) /\ b \in Seq(Field) /\ c \in Seq(Field)
      BY FieldForms
    <2>2. Posdatab = a \o Times(6, WD(16, 16)) \o Times(3, WD(18, 18)) \o Times(6, WD(12, 12)) \o b
                       \o Times(4, WD(16, 16)) \o c
      BY Zenon DEF Posdatab
    <2> HIDE DEF a, b, c
    <2>3. QED
      BY <1>1, <1>2, <1>3, <2>1, <2>2
  <1>13. QED
    BY <1>4, <1>5, <1>6, <1>7, <1>8, <1>9, <1>10, <1>11, <1>12

\* FlattenSeq as its loop goes.
Flattens(f, n, seqs) == f = [i \in 1 .. n |-> IF i = 1 THEN seqs[i] ELSE f[i - 1] \o seqs[i]]

\* The loop is well defined.
LEMMA FlattenLoop ==
  ASSUME NEW seqs, NEW n \in Nat, n = Len(seqs), n > 0
  PROVE  \E f : /\ f[1] = seqs[1]
                /\ \A i \in 2 .. n : f[i] = f[i - 1] \o seqs[i]
                /\ FlattenSeq(seqs) = f[n]
  <1> DEFINE Value(f, i) == IF i = 1 THEN seqs[i] ELSE f[i - 1] \o seqs[i]
             To(k, f) == f = [i \in 1 .. k |-> Value(f, i)]
             P == {k \in 0 .. n : \E f : To(k, f)}
  <1>1. 0 \in P
    <2> DEFINE f == [i \in 1 .. 0 |-> 0]
    <2>1. To(0, f)
      <3> HIDE DEF Value
      <3>1. f = [i \in 1 .. 0 |-> Value(f, i)]
        OBVIOUS
      <3>2. QED
        BY <3>1
    <2> HIDE DEF f, To
    <2>2. QED
      BY <2>1
  <1>2. ASSUME NEW k \in 1 .. n, k - 1 \in P PROVE k \in P
    <2>1. PICK f : To(k - 1, f)
      BY <1>2
    <2> DEFINE h == [i \in 1 .. k |-> IF i = k THEN Value(f, k) ELSE f[i]]
    <2>2. ASSUME NEW i \in 1 .. k PROVE Value(h, i) = Value(f, i)
      <3>1. CASE i = 1
        BY <3>1
      <3>2. CASE i # 1
        <4>1. h[i - 1] = f[i - 1]
          BY <3>2
        <4> HIDE DEF h
        <4>2. QED
          BY <4>1
      <3>3. QED
        BY <3>1, <3>2
    <2>3. \A i \in 1 .. k - 1 : f[i] = Value(f, i)
      BY <2>1
    <2> HIDE DEF Value
    <2>4. To(k, h)
      <3>1. \A i \in 1 .. k : h[i] = Value(h, i)
        BY <2>2, <2>3
      <3>2. QED
        BY <3>1
    <2> HIDE DEF h
    <2>5. \E g : To(k, g)
      BY <2>4
    <2>6. QED
      BY <2>5
  <1> HIDE DEF To
  <1>3. P \in SUBSET (0 .. n) /\ n \in 0 .. n
    OBVIOUS
  <1> HIDE DEF P
  <1>4. n \in P
    BY <1>1, <1>2, <1>3, Upwards
  <1>5. \E f : Flattens(f, n, seqs)
    BY <1>4 DEF P, To, Flattens
  <1> DEFINE flatten == CHOOSE f : Flattens(f, n, seqs)
  <1>6. Flattens(flatten, n, seqs)
    BY <1>5
  <1>7. FlattenSeq(seqs) = flatten[n]
    <2>1. Len(seqs) # 0
      OBVIOUS
    <2>2. FlattenSeq(seqs) = (CHOOSE f : Flattens(f, Len(seqs), seqs))[Len(seqs)]
      BY <2>1, Zenon DEF FlattenSeq, Flattens
    <2>3. QED
      BY <2>2
  <1> HIDE DEF flatten
  <1> DEFINE Join(a, b) == a \o b
  <1>8. \A i \in 1 .. n : flatten[i] = IF i = 1 THEN seqs[i] ELSE Join(flatten[i - 1], seqs[i])
    BY <1>6, Zenon DEF Flattens
  <1> HIDE DEF Join
  <1>9. flatten[1] = seqs[1]
    BY <1>8
  <1>10. \A i \in 2 .. n : flatten[i] = Join(flatten[i - 1], seqs[i])
    BY <1>8
  <1>11. QED
    BY <1>7, <1>9, <1>10, Zenon DEF Join

\* Sequences over S are joined to one over S.
LEMMA FlattenIn ==
  ASSUME NEW S, NEW seqs \in Seq(Seq(S))
  PROVE  FlattenSeq(seqs) \in Seq(S)
  <1> DEFINE n == Len(seqs)
  <1>1. n \in Nat /\ \A i \in 1 .. n : seqs[i] \in Seq(S)
    OBVIOUS
  <1>2. CASE n = 0
    <2>1. FlattenSeq(seqs) = seqs /\ seqs = <<>>
      BY <1>2 DEF FlattenSeq
    <2>2. QED
      BY <2>1
  <1>3. CASE n > 0
    <2>1. PICK f : /\ f[1] = seqs[1]
                   /\ \A i \in 2 .. n : f[i] = f[i - 1] \o seqs[i]
                   /\ FlattenSeq(seqs) = f[n]
      BY <1>1, <1>3, FlattenLoop
    <2> DEFINE P == {k \in 0 .. n : k > 0 => f[k] \in Seq(S)}
    <2> HIDE DEF n
    <2>3. 0 \in P
      BY <1>1
    <2>4. ASSUME NEW k \in 1 .. n, k - 1 \in P PROVE k \in P
      <3>1. CASE k = 1
        BY <1>1, <2>1, <3>1
      <3>2. CASE k > 1
        <4>1. f[k - 1] \in Seq(S) /\ seqs[k] \in Seq(S) /\ k \in 2 .. n
          BY <1>1, <2>4, <3>2
        <4>2. f[k - 1] \o seqs[k] \in Seq(S)
          BY <4>1, ConcatProperties
        <4>3. f[k] \in Seq(S)
          BY <2>1, <4>1, <4>2, Zenon
        <4>4. QED
          BY <1>1, <4>3
      <3>3. QED
        BY <1>1, <3>1, <3>2
    <2>5. P \in SUBSET (0 .. n) /\ n \in 0 .. n
      BY <1>1
    <2>6. n \in P
      <3> HIDE DEF P
      <3>1. QED
        BY <1>1, <2>3, <2>4, <2>5, Upwards
    <2>7. QED
      BY <1>3, <2>1, <2>6
  <1>4. QED
    BY <1>1, <1>2, <1>3

\* The numbers of signals of a record.
LEMMA SignalsKnown ==
  ASSUME NEW r \in Record
  PROVE  r.signals \in Seq(Nat)
  <1>1. r.signals \in BoundedSeq(0 .. MaxSignals, MaxSats)
    BY Zenon DEF Record
  <1>2. PICK m \in 0 .. MaxSats : r.signals \in [1 .. m -> 0 .. MaxSignals]
    BY <1>1 DEF BoundedSeq, SeqOf
  <1>3. MaxSats \in Nat /\ MaxSignals \in Nat
    BY DecodeAssumption
  <1>4. m \in Nat /\ r.signals \in [1 .. m -> Nat]
    BY <1>2, <1>3
  <1>5. QED
    BY <1>4, SeqDef

\* Every record is decoded field by field.
LEMMA FieldsKnown ==
  ASSUME NEW r \in Record
  PROVE  Fields(r) \in Seq(Field)
  <1> DEFINE signals == r.signals
             Sat(n) == <<U8(6, 6), U8(4, 4), Local(8, 8), HD(10, 10), I16(14, 14), Skip(6)>>
                         \o FlattenSeq(Times(n, Signal))
             sats == [i \in 1 .. Len(signals) |-> Sat(signals[i])]
  <1>1. signals \in Seq(Nat)
    BY SignalsKnown
  <1> HIDE DEF signals
  <1>2. Signal \in Seq(Field)
    BY FieldForms DEF Signal
  <1>3. ASSUME NEW n \in Nat PROVE Sat(n) \in Seq(Field)
    <2>1. Times(n, Signal) \in Seq(Seq(Field))
      BY <1>2 DEF Times
    <2>2. FlattenSeq(Times(n, Signal)) \in Seq(Field)
      BY <2>1, FlattenIn
    <2>3. <<U8(6, 6), U8(4, 4), Local(8, 8), HD(10, 10), I16(14, 14), Skip(6)>> \in Seq(Field)
      BY FieldForms
    <2>4. QED
      BY <2>2, <2>3
  <1>4. FlattenSeq(sats) \in Seq(Field)
    <2> HIDE DEF Sat
    <2> DEFINE Decoder == Seq(Field)
    <2>1. \A i \in 1 .. Len(signals) : Sat(signals[i]) \in Decoder
      <3>1. \A i \in 1 .. Len(signals) : signals[i] \in Nat
        BY <1>1
      <3>2. QED
        BY <1>3, <3>1
    <2> HIDE DEF Decoder
    <2>2. sats \in Seq(Decoder)
      BY <1>1, <2>1
    <2> HIDE DEF sats
    <2>3. QED
      BY <2>2, FlattenIn DEF Decoder
  <1>5. Prangeb(signals) \in Seq(Field)
    <2> DEFINE a == <<U8(7, 7), U8(1, 1), U8(3, 3), U8(6, 6), Skip(7)>>
               b == <<Crc24>>
    <2>1. a \in Seq(Field) /\ b \in Seq(Field) /\ Moment \in Seq(Field)
      BY FieldForms DEF Moment
    <2>2. Prangeb(signals) = Moment \o a \o FlattenSeq(sats) \o b
      BY Zenon DEF Prangeb
    <2> HIDE DEF a, b, sats
    <2>3. QED
      BY <1>4, <2>1, <2>2
  <1>6. r.msg \in {"bd2", "bd3", "bd3cnav2", "bd3cnav3", "bdxw", "gps", "glo", "gal",
                   "prangeb", "posdatab"}
    BY DecodeAssumption DEF Record
  <1>7. QED
    BY <1>5, <1>6, FixedForms DEF Fields, signals

-----------------------------------------------------------------------------
\* What was read lies end to end, up to the counter.
Contiguous ==
  \A i \in 1 .. Len(out) :
    out[i].at + out[i].field.step = IF i < Len(out) THEN out[i + 1].at ELSE bit

\* The invariant.
ReadInv ==
  /\ bit \in Nat
  /\ out \in Seq([at : Nat, field : Field, value : SUBSET Int])
  /\ rec = <<>> => out = <<>>
  /\ rec # <<>> => rec \in Record /\ Len(out) <= Len(Fields(rec))
  /\ Contiguous

\* A value is a set of positions.
LEMMA ValueKnown ==
  ASSUME NEW f \in Field, NEW r
  PROVE  Converted(f, ReadAs(f, Ones(f, r))) \in SUBSET Int
  <1>1. f.bits \in Int /\ f.as \in Conversions
    BY DEF Field, MeanAnomaly
  <1>2. ASSUME NEW ones \in SUBSET Int, NEW from, NEW to \in Int, from \in Int
        PROVE  Extended(ones, from, to) \in SUBSET Int
    BY <1>2 DEF Extended
  <1>3. Ones(f, r) \in SUBSET Int
    BY <1>1 DEF Ones
  <1>4. ReadAs(f, Ones(f, r)) \in SUBSET Int
    BY <1>1, <1>2, <1>3 DEF ReadAs
  <1>5. Width[f.as] \in Int
    BY <1>1 DEF Width, Conversions
  <1>6. QED
    BY <1>2, <1>4, <1>5 DEF Converted

\* The invariant is kept.
LEMMA DecodeKeeps ==
  ASSUME ReadInv, [DecodeNext]_decodeVars
  PROVE  ReadInv'
  <1> DEFINE Entry == [at : Nat, field : Field, value : SUBSET Int]
  <1>1. ASSUME NEW r \in Record, DecodeRecord(r) PROVE ReadInv'
    <2>1. rec' = r /\ bit' = 8 * HeadBytes(r.msg) /\ out' = <<>>
      BY <1>1 DEF DecodeRecord
    <2>2. bit' \in Nat
      BY <2>1 DEF HeadBytes
    <2>3. Len(Fields(r)) \in Nat
      BY <1>1, FieldsKnown
    <2>4. Len(out') = 0 /\ out' \in Seq(Entry)
      BY <2>1
    <2>5. Contiguous'
      BY <2>4 DEF Contiguous
    <2>6. QED
      BY <1>1, <2>1, <2>2, <2>3, <2>4, <2>5 DEF ReadInv
  <1>2. ASSUME ReadField PROVE ReadInv'
    <2> DEFINE n == Len(out)
               f == Fields(rec)[n + 1]
               v == Converted(f, ReadAs(f, Ones(f, rec)))
               e == [at |-> bit, field |-> f, value |-> v]
    <2>1. rec # <<>> /\ rec \in Record /\ n # Len(Fields(rec)) /\ n <= Len(Fields(rec))
      BY <1>2 DEF ReadField, Done, ReadInv
    <2>2. rec' = rec /\ out' = Append(out, e) /\ bit' = bit + f.step
      BY <1>2 DEF ReadField
    <2>3. out \in Seq(Entry) /\ n \in Nat /\ bit \in Nat
      BY DEF ReadInv
    <2>4. f \in Field
      BY <2>1, <2>3, FieldsKnown
    <2>5. f.step \in Nat /\ f.as \in Conversions
      BY <2>4 DEF Field, MeanAnomaly
    <2>6. e \in Entry
      <3>1. v \in SUBSET Int
        BY <2>4, ValueKnown
      <3>2. QED
        BY <2>3, <2>4, <3>1
    <2>7. e.at = bit /\ e.field = f
      BY Zenon
    <2>8. n + 1 <= Len(Fields(rec))
      BY <2>1, <2>3, FieldsKnown
    <2> HIDE DEF f, v, e, Entry
    <2>9. /\ out' \in Seq(Entry) /\ Len(out') = n + 1 /\ out'[n + 1] = e
          /\ \A i \in 1 .. n : out'[i] = out[i]
      BY <2>2, <2>3, <2>6
    <2>10. Contiguous'
      <3> SUFFICES ASSUME NEW i \in 1 .. n + 1
                   PROVE  out'[i].at + out'[i].field.step
                            = IF i < n + 1 THEN out'[i + 1].at ELSE bit'
        BY <2>9 DEF Contiguous
      <3>1. CASE i = n + 1
        BY <2>2, <2>3, <2>7, <2>9, <3>1
      <3>2. CASE i = n
        <4>1. n \in 1 .. n /\ ~(n < n) /\ n < n + 1
          BY <2>3, <3>2
        <4>2. out[n].at + out[n].field.step = bit
          BY <4>1 DEF ReadInv, Contiguous
        <4>3. QED
          BY <2>7, <2>9, <3>2, <4>1, <4>2
      <3>3. CASE i < n
        <4>1. i \in 1 .. n /\ i + 1 \in 1 .. n /\ i < n + 1
          BY <2>3, <3>3
        <4>2. out[i].at + out[i].field.step = out[i + 1].at
          BY <3>3, <4>1 DEF ReadInv, Contiguous
        <4>3. QED
          BY <2>9, <4>1, <4>2
      <3>4. QED
        BY <2>3, <3>1, <3>2, <3>3
    <2>11. bit' \in Nat
      BY <2>2, <2>3, <2>5
    <2>12. QED
      BY <2>1, <2>2, <2>8, <2>9, <2>10, <2>11 DEF ReadInv, Entry
  <1>3. ASSUME UNCHANGED decodeVars PROVE ReadInv'
    <2>1. rec' = rec /\ bit' = bit /\ out' = out
      BY <1>3 DEF decodeVars
    <2>2. QED
      BY <2>1 DEF ReadInv, Contiguous
  <1>4. QED
    BY <1>1, <1>2, <1>3 DEF DecodeNext

\* It holds in every state.
LEMMA DecodeSpecInv == DecodeSpec => []ReadInv
  <1>1. DecodeInit => ReadInv
    BY DEF DecodeInit, ReadInv, Contiguous
  <1>2. ReadInv /\ [DecodeNext]_decodeVars => ReadInv'
    BY DecodeKeeps
  <1>3. QED
    BY <1>1, <1>2, PTL DEF DecodeSpec

\* Every bit of a record is read by one field and no field overlaps another, but for the ten
\* bits after the mean anomaly of GPS and the reserved ones of a PRANGEB, in a record of any
\* kind with any number of satellites and signals: none of the pairs of numbers of the
\* decoders differs (gnss_ephb_decode.c:160-909).
THEOREM BitsReadOnce == DecodeSpec => []EveryBitRead
  <1>1. ReadInv => EveryBitRead
    <2> SUFFICES ASSUME ReadInv, NEW i \in 1 .. Len(out)
                 PROVE  \/ out[i].at + out[i].field.bits = IF i < Len(out) THEN out[i + 1].at ELSE bit
                        \/ out[i].field.bits = 0 \/ out[i].field = MeanAnomaly
      BY DEF EveryBitRead
    <2>1. out[i].field \in Field
      <3> DEFINE Entry == [at : Nat, field : Field, value : SUBSET Int]
      <3>1. out \in Seq(Entry)
        BY Zenon DEF ReadInv
      <3> HIDE DEF Entry
      <3>2. out[i] \in Entry
        BY <3>1
      <3>3. QED
        BY <3>2 DEF Entry
    <2>2. \/ out[i].field.bits = out[i].field.step
          \/ out[i].field.bits = 0 \/ out[i].field = MeanAnomaly
      BY <2>1 DEF Field
    <2>3. out[i].at + out[i].field.step = IF i < Len(out) THEN out[i + 1].at ELSE bit
      BY DEF ReadInv, Contiguous
    <2>4. QED
      BY <2>2, <2>3
  <1>2. QED
    BY <1>1, DecodeSpecInv, PTL

\* A sum, as its loop goes.
LEMMA TotalLoop ==
  ASSUME NEW s \in Seq(Nat)
  PROVE  \E sum : /\ sum[0] = 0
                  /\ \A i \in 1 .. Len(s) : sum[i] = sum[i - 1] + s[i] /\ sum[i] \in Nat
                  /\ Total(s) = sum[Len(s)]
  <1> DEFINE n == Len(s)
             Step(f) == f = [i \in 0 .. n |-> IF i = 0 THEN 0 ELSE f[i - 1] + s[i]]
             To(k, f) == /\ f = [i \in 0 .. k |-> f[i]] /\ f[0] = 0
                         /\ \A i \in 1 .. k : f[i] = f[i - 1] + s[i] /\ f[i] \in Nat
             P == {k \in 0 .. n : \E f : To(k, f)}
             sum == CHOOSE f : Step(f)
  <1>1. n \in Nat /\ \A i \in 1 .. n : s[i] \in Nat
    OBVIOUS
  <1>2. 0 \in P
    <2> DEFINE f == [i \in 0 .. 0 |-> 0]
    <2>1. To(0, f)
      OBVIOUS
    <2> HIDE DEF f, To
    <2>2. QED
      BY <1>1, <2>1
  <1>3. ASSUME NEW k \in 1 .. n, k - 1 \in P PROVE k \in P
    <2>1. PICK f : To(k - 1, f)
      BY <1>3
    <2> DEFINE h == [i \in 0 .. k |-> IF i = k THEN f[k - 1] + s[k] ELSE f[i]]
    <2>2. f[0] = 0 /\ \A i \in 1 .. k - 1 : f[i] = f[i - 1] + s[i] /\ f[i] \in Nat
      BY <2>1
    <2>3. \A i \in 0 .. k - 1 : h[i] = f[i]
      BY <1>1
    <2>9. h = [i \in 0 .. k |-> h[i]]
      OBVIOUS
    <2>4. h[k] = f[k - 1] + s[k] /\ f[k - 1] \in Nat
      BY <1>1, <2>2
    <2> HIDE DEF h
    <2>5. h[0] = 0
      <3>1. 0 \in 0 .. k - 1
        BY <1>1
      <3>2. QED
        BY <2>2, <2>3, <3>1
    <2>6. ASSUME NEW i \in 1 .. k PROVE h[i] = h[i - 1] + s[i] /\ h[i] \in Nat
      <3>1. CASE i = k
        <4>1. k - 1 \in 0 .. k - 1 /\ s[k] \in Nat
          BY <1>1
        <4>2. h[k - 1] = f[k - 1]
          BY <2>3, <4>1
        <4>3. QED
          BY <2>4, <3>1, <4>1, <4>2
      <3>2. CASE i # k
        <4>1. i \in 1 .. k - 1 /\ i \in 0 .. k - 1 /\ i - 1 \in 0 .. k - 1
          BY <3>2
        <4>2. QED
          BY <2>2, <2>3, <4>1
      <3>3. QED
        BY <3>1, <3>2
    <2>7. To(k, h)
      BY <2>5, <2>6, <2>9, Zenon
    <2> HIDE DEF To
    <2>8. QED
      BY <2>7
  <1>4. n \in P
    <2>1. P \in SUBSET (0 .. n) /\ n \in 0 .. n
      BY <1>1
    <2> HIDE DEF P, n
    <2>2. QED
      BY <1>1, <1>2, <1>3, <2>1, Upwards
  <1>5. PICK f : To(n, f)
    BY <1>4
  <1>6. Step(f)
    <2>1. ASSUME NEW i \in 0 .. n PROVE f[i] = IF i = 0 THEN 0 ELSE f[i - 1] + s[i]
      <3>1. f[0] = 0 /\ \A j \in 1 .. n : f[j] = f[j - 1] + s[j]
        BY <1>5, Zenon
      <3> HIDE DEF n
      <3>2. i = 0 \/ i \in 1 .. n
        BY <1>1
      <3>3. QED
        BY <3>1, <3>2
    <2>2. f = [i \in 0 .. n |-> f[i]]
      BY <1>5, Zenon
    <2> HIDE DEF n
    <2>3. [i \in 0 .. n |-> f[i]] = [i \in 0 .. n |-> IF i = 0 THEN 0 ELSE f[i - 1] + s[i]]
      BY <2>1, Zenon
    <2>4. QED
      BY <2>2, <2>3, Zenon
  <1>7. Step(sum)
    BY <1>6
  <1>8. Total(s) = sum[n]
    BY Zenon DEF Total
  <1> HIDE DEF sum
  <1>9. sum[0] = 0 /\ \A i \in 1 .. n : sum[i] = sum[i - 1] + s[i]
    BY <1>1, <1>7
  <1>10. \A i \in 1 .. n : sum[i] \in Nat
    <2> DEFINE Q == {k \in 0 .. n : sum[k] \in Nat}
    <2>1. 0 \in Q
      BY <1>1, <1>9
    <2>2. ASSUME NEW k \in 1 .. n, k - 1 \in Q PROVE k \in Q
      <3>1. sum[k - 1] \in Nat /\ k \in 0 .. n
        BY <1>1, <2>2
      <3>2. sum[k] = sum[k - 1] + s[k]
        BY <1>9, Zenon
      <3>3. s[k] \in Nat
        BY <1>1, Zenon
      <3>4. sum[k] \in Nat
        BY ONLY <3>1, <3>2, <3>3, SMT
      <3>5. QED
        BY <3>1, <3>4, Zenon
    <2>3. Q \in SUBSET (0 .. n)
      OBVIOUS
    <2>4. \A k \in 0 .. n : k \in Q
      <3> HIDE DEF Q, n
      <3>1. QED
        BY <1>1, <2>1, <2>2, <2>3, Upwards
    <2>5. QED
      BY <1>1, <2>4
  <1>11. QED
    BY <1>8, <1>9, <1>10

\* The sum of the first k numbers.
Upto(s, k) == Total(SubSeq(s, 1, k))

\* It grows by one number at a time.
LEMMA TotalSteps ==
  ASSUME NEW s \in Seq(Nat)
  PROVE  /\ Upto(s, 0) = 0 /\ Upto(s, Len(s)) = Total(s)
         /\ \A k \in 0 .. Len(s) : Upto(s, k) \in Nat
         /\ \A k \in 1 .. Len(s) : Upto(s, k) = Upto(s, k - 1) + s[k]
  <1> DEFINE n == Len(s)
  <1>1. n \in Nat /\ \A i \in 1 .. n : s[i] \in Nat
    OBVIOUS
  <1>2. PICK sum : /\ sum[0] = 0
                   /\ \A i \in 1 .. Len(s) : sum[i] = sum[i - 1] + s[i] /\ sum[i] \in Nat
                   /\ Total(s) = sum[Len(s)]
    BY TotalLoop
  <1>3. ASSUME NEW k \in 0 .. n PROVE Upto(s, k) = sum[k]
    <2> DEFINE t == SubSeq(s, 1, k)
    <2>1. t \in Seq(Nat) /\ Len(t) = k /\ \A i \in 1 .. k : t[i] = s[i]
      BY <1>1
    <2> HIDE DEF t
    <2>2. PICK f : /\ f[0] = 0
                   /\ \A i \in 1 .. Len(t) : f[i] = f[i - 1] + t[i] /\ f[i] \in Nat
                   /\ Total(t) = f[Len(t)]
      BY <2>1, TotalLoop
    <2> DEFINE P == {i \in 0 .. k : f[i] = sum[i]}
    <2>3. 0 \in P
      BY <1>2, <2>2
    <2>4. ASSUME NEW i \in 1 .. k, i - 1 \in P PROVE i \in P
      <3>1. i \in 1 .. n /\ f[i - 1] = sum[i - 1] /\ i \in 0 .. k
        BY <1>1, <2>4
      <3>2. f[i] = f[i - 1] + t[i] /\ t[i] = s[i]
        BY <2>1, <2>2
      <3>3. sum[i] = sum[i - 1] + s[i]
        BY <1>2, <3>1
      <3>4. f[i] = sum[i]
        BY <3>1, <3>2, <3>3, Zenon
      <3>5. QED
        BY <3>1, <3>4
    <2>5. P \in SUBSET (0 .. k) /\ k \in Nat
      BY <1>1
    <2>6. \A i \in 0 .. k : i \in P
      <3> HIDE DEF P
      <3>1. QED
        BY <2>3, <2>4, <2>5, Upwards
    <2>7. Total(t) = sum[k]
      BY <2>1, <2>2, <2>5, <2>6
    <2>8. QED
      BY <2>7, Zenon DEF Upto, t
  <1>4. 0 \in 0 .. n /\ n \in 0 .. n /\ \A k \in 1 .. n : k \in 0 .. n /\ k - 1 \in 0 .. n
    BY <1>1
  <1>5. Upto(s, 0) = 0 /\ Upto(s, n) = Total(s)
    BY <1>2, <1>3, <1>4, Zenon
  <1>6. ASSUME NEW k \in 0 .. n PROVE Upto(s, k) \in Nat
    <2>1. k = 0 \/ k \in 1 .. n
      BY <1>1
    <2>2. QED
      BY <1>2, <1>3, <2>1
  <1>7. ASSUME NEW k \in 1 .. n PROVE Upto(s, k) = Upto(s, k - 1) + s[k]
    <2>1. Upto(s, k) = sum[k] /\ Upto(s, k - 1) = sum[k - 1]
      BY <1>3, <1>4
    <2>2. sum[k] = sum[k - 1] + s[k]
      BY <1>2
    <2>3. QED
      BY <2>1, <2>2, Zenon
  <1>8. QED
    BY <1>5, <1>6, <1>7, Zenon

\* The sum of two sequences, one after the other.
LEMMA TotalJoin ==
  ASSUME NEW a \in Seq(Nat), NEW b \in Seq(Nat)
  PROVE  Total(a \o b) = Total(a) + Total(b)
  <1> DEFINE w == a \o b
             m == Len(a)
             n == Len(b)
  <1>1. m \in Nat /\ n \in Nat
    OBVIOUS
  <1>2. /\ w \in Seq(Nat) /\ Len(w) = m + n
        /\ \A i \in 1 .. m : w[i] = a[i]
        /\ \A i \in 1 .. n : w[m + i] = b[i]
    OBVIOUS
  <1> HIDE DEF w
  <1>3. /\ Upto(a, 0) = 0 /\ Upto(a, m) = Total(a)
        /\ \A k \in 0 .. m : Upto(a, k) \in Nat
        /\ \A k \in 1 .. m : Upto(a, k) = Upto(a, k - 1) + a[k]
    BY TotalSteps, Zenon
  <1>4. /\ Upto(b, 0) = 0 /\ Upto(b, n) = Total(b)
        /\ \A k \in 0 .. n : Upto(b, k) \in Nat
        /\ \A k \in 1 .. n : Upto(b, k) = Upto(b, k - 1) + b[k]
    BY TotalSteps, Zenon
  <1>5. /\ Upto(w, 0) = 0 /\ Upto(w, m + n) = Total(w)
        /\ \A k \in 1 .. m + n : Upto(w, k) = Upto(w, k - 1) + w[k]
    BY <1>2, TotalSteps, Zenon
  <1>6. \A i \in 1 .. n : b[i] \in Nat
    OBVIOUS
  <1> HIDE DEF m, n
  <1>7. Upto(w, m) = Upto(a, m)
    <2> DEFINE P == {k \in 0 .. m : Upto(w, k) = Upto(a, k)}
    <2>1. 0 \in P
      BY <1>1, <1>3, <1>5
    <2>2. ASSUME NEW k \in 1 .. m, k - 1 \in P PROVE k \in P
      <3>1. k \in 1 .. m + n /\ k \in 0 .. m
        BY <1>1
      <3>2. Upto(w, k - 1) = Upto(a, k - 1)
        BY <2>2
      <3>3. Upto(w, k) = Upto(w, k - 1) + w[k] /\ Upto(a, k) = Upto(a, k - 1) + a[k] /\ w[k] = a[k]
        BY <1>2, <1>3, <1>5, <3>1, Zenon
      <3>4. Upto(w, k) = Upto(a, k)
        BY <3>2, <3>3, Zenon
      <3>5. QED
        BY <3>1, <3>4
    <2>3. P \in SUBSET (0 .. m) /\ m \in 0 .. m
      BY <1>1
    <2>4. m \in P
      <3> HIDE DEF P
      <3>1. QED
        BY <1>1, <2>1, <2>2, <2>3, Upwards
    <2>5. QED
      BY <2>4
  <1>8. Upto(w, m + n) = Upto(a, m) + Upto(b, n)
    <2> DEFINE P == {k \in 0 .. n : Upto(w, m + k) = Upto(a, m) + Upto(b, k)}
    <2>0. Upto(a, m) \in Nat
      BY <1>1, <1>3
    <2>1. 0 \in P
      BY <1>1, <1>4, <1>7, <2>0
    <2>2. ASSUME NEW k \in 1 .. n, k - 1 \in P PROVE k \in P
      <3>1. m + k \in 1 .. m + n /\ k \in 0 .. n /\ k - 1 \in 0 .. n /\ m + k - 1 = m + (k - 1)
        BY <1>1
      <3>2. Upto(w, m + (k - 1)) = Upto(a, m) + Upto(b, k - 1)
        BY <2>2
      <3>3. Upto(w, m + k) = Upto(w, m + (k - 1)) + w[m + k]
        <4>1. \A j \in 1 .. m + n : Upto(w, j) = Upto(w, j - 1) + w[j]
          BY <1>5, Zenon
        <4>2. (m + k) - 1 = m + (k - 1)
          BY <1>1
        <4>3. QED
          BY <3>1, <4>1, <4>2
      <3>4. Upto(b, k) = Upto(b, k - 1) + b[k] /\ w[m + k] = b[k]
        BY <1>2, <1>4, Zenon
      <3>5. Upto(b, k - 1) \in Nat /\ b[k] \in Nat
        BY <1>4, <1>6, <3>1, Zenon
      <3>6. Upto(w, m + k) = Upto(a, m) + Upto(b, k)
        BY <2>0, <3>2, <3>3, <3>4, <3>5
      <3>7. QED
        BY <3>1, <3>6
    <2>3. P \in SUBSET (0 .. n) /\ n \in 0 .. n
      BY <1>1
    <2>4. n \in P
      <3> HIDE DEF P
      <3>1. QED
        BY <1>1, <2>1, <2>2, <2>3, Upwards
    <2>5. QED
      BY <2>4
  <1>9. QED
    BY <1>3, <1>4, <1>5, <1>8, Zenon DEF w

\* The bits that fields are stepped over by.
StepsOf(fields) == [i \in 1 .. Len(fields) |-> fields[i].step]

\* They are numbers.
LEMMA StepsForm ==
  ASSUME NEW a \in Seq(Field)
  PROVE  /\ StepsOf(a) \in Seq(Nat) /\ Len(StepsOf(a)) = Len(a)
         /\ \A i \in 1 .. Len(a) : StepsOf(a)[i] = a[i].step
         /\ Bits(a) = Total(StepsOf(a)) /\ Bits(a) \in Nat
  <1>1. Len(a) \in Nat /\ \A i \in 1 .. Len(a) : a[i].step \in Nat
    <2>1. \A i \in 1 .. Len(a) : a[i] \in Field
      OBVIOUS
    <2>2. \A f \in Field : f.step \in Nat
      BY DEF Field
    <2>3. QED
      BY <2>1, <2>2
  <1>2. /\ StepsOf(a) \in Seq(Nat) /\ Len(StepsOf(a)) = Len(a)
        /\ \A i \in 1 .. Len(a) : StepsOf(a)[i] = a[i].step
    BY <1>1 DEF StepsOf
  <1>3. Bits(a) = Total(StepsOf(a))
    BY Zenon DEF Bits, StepsOf
  <1>4. Total(StepsOf(a)) \in Nat
    <2> DEFINE s == StepsOf(a)
    <2> HIDE DEF s
    <2>1. s \in Seq(Nat)
      BY <1>2, Zenon DEF s
    <2>2. Len(s) \in 0 .. Len(s)
      BY <2>1
    <2>3. Total(s) \in Nat
      BY <2>1, <2>2, TotalSteps
    <2>4. QED
      BY <2>3, Zenon DEF s
  <1>5. QED
    BY <1>2, <1>3, <1>4, Zenon

\* The bits of two sequences of fields, one after the other.
LEMMA BitsJoin ==
  ASSUME NEW a \in Seq(Field), NEW b \in Seq(Field)
  PROVE  Bits(a \o b) = Bits(a) + Bits(b)
  <1> DEFINE w == a \o b
             s == StepsOf(a)
             t == StepsOf(b)
             u == s \o t
  <1>1. /\ w \in Seq(Field) /\ Len(w) = Len(a) + Len(b)
        /\ \A i \in 1 .. Len(w) : w[i] = IF i <= Len(a) THEN a[i] ELSE b[i - Len(a)]
    OBVIOUS
  <1> HIDE DEF w
  <1>2. /\ s \in Seq(Nat) /\ Len(s) = Len(a) /\ \A i \in 1 .. Len(a) : s[i] = a[i].step
        /\ Bits(a) = Total(s)
    BY StepsForm, Zenon
  <1>3. /\ t \in Seq(Nat) /\ Len(t) = Len(b) /\ \A i \in 1 .. Len(b) : t[i] = b[i].step
        /\ Bits(b) = Total(t)
    BY StepsForm, Zenon
  <1>4. /\ StepsOf(w) \in Seq(Nat) /\ Len(StepsOf(w)) = Len(w)
        /\ \A i \in 1 .. Len(w) : StepsOf(w)[i] = w[i].step
        /\ Bits(w) = Total(StepsOf(w))
    BY <1>1, StepsForm, Zenon
  <1> HIDE DEF s, t
  <1>5. /\ u \in Seq(Nat) /\ Len(u) = Len(s) + Len(t)
        /\ \A i \in 1 .. Len(u) : u[i] = IF i <= Len(s) THEN s[i] ELSE t[i - Len(s)]
    <2>1. /\ u \in Seq(Nat) /\ Len(u) = Len(s) + Len(t)
          /\ \A i \in 1 .. Len(s) + Len(t) : u[i] = IF i <= Len(s) THEN s[i] ELSE t[i - Len(s)]
      <3>1. s \in Seq(Nat) /\ t \in Seq(Nat)
        BY <1>2, <1>3, Zenon
      <3>2. QED
        BY <3>1, ConcatProperties
    <2> HIDE DEF u
    <2>2. QED
      BY <2>1
  <1> HIDE DEF u
  <1>6. Len(a) \in Nat /\ Len(b) \in Nat
    OBVIOUS
  <1>7. ASSUME NEW i \in 1 .. Len(u) PROVE StepsOf(w)[i] = u[i]
    <2>1. i \in 1 .. Len(w)
      BY <1>1, <1>2, <1>3, <1>5
    <2>2. CASE i <= Len(a)
      <3>1. i \in 1 .. Len(a)
        BY <1>6, <2>2
      <3>2. QED
        BY <1>1, <1>2, <1>4, <1>5, <2>1, <2>2, <3>1
    <2>3. CASE ~(i <= Len(a))
      <3>1. i - Len(a) \in 1 .. Len(b)
        BY <1>1, <1>6, <2>1, <2>3
      <3>2. QED
        BY <1>1, <1>2, <1>3, <1>4, <1>5, <2>1, <2>3, <3>1
    <2>4. QED
      BY <2>2, <2>3
  <1>8. StepsOf(w) = u
    <2> DEFINE v == StepsOf(w)
    <2>1. v \in Seq(Nat) /\ Len(v) = Len(u) /\ \A i \in 1 .. Len(v) : v[i] = u[i]
      BY <1>1, <1>2, <1>3, <1>4, <1>5, <1>7, Zenon
    <2> HIDE DEF v
    <2>2. v = u
      BY <1>5, <2>1, SeqEqual, Zenon
    <2>3. QED
      BY <2>2, Zenon DEF v
  <1>9. Total(u) = Total(s) + Total(t)
    BY <1>2, <1>3, TotalJoin, Zenon DEF u
  <1>10. QED
    BY <1>2, <1>3, <1>4, <1>8, <1>9, Zenon DEF w

\* A field fits the member it is assigned to.
Fit(f, size) == f.size > 0 /\ f.as # "local" /\ f.bits <= 8 * f.size /\ f.size <= size

\* A part of a decoder: the n fields that the members of st after the o-th are assigned
\* from; those after the m-th are spare.
Part(fs, st, m, o, n) ==
  /\ fs \in Seq(Field) /\ Len(fs) = n
  /\ \A i \in 1 .. n : Fit(fs[i], st[o + i]) /\ (fs[i].as = "spare" <=> o + i > m)

\* Two parts are one.
LEMMA PartJoin ==
  ASSUME NEW a, NEW b, NEW st, NEW m, NEW o \in Nat, NEW n, NEW k,
         Part(a, st, m, o, n), Part(b, st, m, o + n, k)
  PROVE  Part(a \o b, st, m, o, n + k)
  <1> DEFINE w == a \o b
             p == o + n
             q == n + k
  <1>1. /\ a \in Seq(Field) /\ b \in Seq(Field)
        /\ Len(a) = n /\ Len(b) = k
        /\ \A i \in 1 .. n : Fit(a[i], st[o + i]) /\ (a[i].as = "spare" <=> o + i > m)
        /\ \A i \in 1 .. k : Fit(b[i], st[p + i]) /\ (b[i].as = "spare" <=> p + i > m)
    BY Zenon DEF Part
  <1>2. /\ w \in Seq(Field) /\ Len(w) = Len(a) + Len(b)
        /\ \A i \in 1 .. Len(a) + Len(b) : w[i] = IF i <= Len(a) THEN a[i] ELSE b[i - Len(a)]
    BY <1>1, ConcatProperties, Zenon
  <1> HIDE DEF w
  <1>4. n \in Nat /\ k \in Nat /\ Len(w) = q
    BY <1>1, <1>2
  <1>5. ASSUME NEW i \in 1 .. q
        PROVE  Fit(w[i], st[o + i]) /\ (w[i].as = "spare" <=> o + i > m)
    <2>0. i \in 1 .. n + k /\ w[i] = IF i <= n THEN a[i] ELSE b[i - n]
      BY <1>1, <1>2
    <2>1. CASE i <= n
      <3>1. i \in 1 .. n /\ w[i] = a[i]
        BY <1>4, <2>0, <2>1
      <3>2. QED
        BY <1>1, <3>1, Zenon
    <2>2. CASE ~(i <= n)
      <3> DEFINE j == i - n
      <3>1. j \in 1 .. k /\ w[i] = b[j] /\ p + j = o + i
        BY <1>4, <2>0, <2>2
      <3> HIDE DEF j
      <3>2. Fit(b[j], st[p + j]) /\ (b[j].as = "spare" <=> p + j > m)
        BY <1>1, <3>1, Zenon
      <3>3. QED
        BY <3>1, <3>2, Zenon
    <2>3. QED
      BY <2>1, <2>2
  <1>6. Part(w, st, m, o, q)
    BY <1>2, <1>4, <1>5, Zenon DEF Part
  <1>7. QED
    BY <1>6, Zenon DEF w

\* The bits of a sequence of fields, as the loop goes.
LEMMA BitsLoop ==
  ASSUME NEW a \in Seq(Field)
  PROVE  \E sum : /\ sum[0] = 0 /\ Bits(a) = sum[Len(a)]
                  /\ \A i \in 1 .. Len(a) : sum[i] = sum[i - 1] + a[i].step
  <1> DEFINE s == StepsOf(a)
  <1>1. /\ s \in Seq(Nat) /\ Len(s) = Len(a)
        /\ \A i \in 1 .. Len(a) : s[i] = a[i].step
        /\ Bits(a) = Total(s)
    BY StepsForm, Zenon
  <1> HIDE DEF s
  <1>2. PICK sum : /\ sum[0] = 0
                   /\ \A i \in 1 .. Len(s) : sum[i] = sum[i - 1] + s[i] /\ sum[i] \in Nat
                   /\ Total(s) = sum[Len(s)]
    BY <1>1, TotalLoop
  <1>3. \A i \in 1 .. Len(a) : sum[i] = sum[i - 1] + a[i].step
    BY <1>1, <1>2
  <1>4. QED
    BY <1>1, <1>2, <1>3

\* A field that comes several times: its bits.
LEMMA TimesBits ==
  ASSUME NEW f \in Field, NEW n \in Nat
  PROVE  Bits(Times(n, f)) = n * f.step
  <1> DEFINE w == Times(n, f)
  <1>1. w \in Seq(Field) /\ Len(w) = n /\ \A i \in 1 .. n : w[i] = f
    BY DEF Times
  <1> HIDE DEF w
  <1>2. PICK sum : /\ sum[0] = 0 /\ Bits(w) = sum[Len(w)]
                   /\ \A i \in 1 .. Len(w) : sum[i] = sum[i - 1] + w[i].step
    BY <1>1, BitsLoop
  <1> DEFINE x == f.step
             P == {k \in 0 .. n : sum[k] = k * x}
  <1>3. x \in Nat
    BY DEF Field
  <1> HIDE DEF x
  <1>4. 0 \in P
    BY <1>2, <1>3
  <1>5. ASSUME NEW k \in 1 .. n, k - 1 \in P PROVE k \in P
    <2>1. sum[k] = sum[k - 1] + x
      BY <1>1, <1>2 DEF x
    <2>2. sum[k - 1] = (k - 1) * x
      BY <1>5
    <2>3. (k - 1) * x + x = k * x
      BY <1>3
    <2>4. QED
      BY <2>1, <2>2, <2>3
  <1>6. P \in SUBSET (0 .. n) /\ n \in 0 .. n
    OBVIOUS
  <1>7. n \in P
    <2> HIDE DEF P
    <2>1. QED
      BY <1>4, <1>5, <1>6, Upwards
  <1>8. Bits(w) = n * x
    BY <1>1, <1>2, <1>7
  <1>9. QED
    BY <1>8, Zenon DEF w, x

\* And the members it fits.
LEMMA PartTimes ==
  ASSUME NEW f \in Field, NEW n \in Nat, NEW st, NEW m, NEW o \in Nat,
         f.as # "spare", \A i \in 1 .. n : Fit(f, st[o + i]) /\ ~(o + i > m)
  PROVE  Part(Times(n, f), st, m, o, n)
  <1> DEFINE w == Times(n, f)
  <1>1. w \in Seq(Field) /\ Len(w) = n /\ \A i \in 1 .. n : w[i] = f
    BY DEF Times
  <1> HIDE DEF w
  <1>2. \A i \in 1 .. n : Fit(w[i], st[o + i]) /\ (w[i].as = "spare" <=> o + i > m)
    BY <1>1, Zenon
  <1>3. QED
    BY <1>1, <1>2, Zenon DEF Part, w

\* The moment every record but POSDATAB begins with.
LEMMA MomentBits == Moment \in Seq(Field) /\ Len(Moment) = 2 /\ Bits(Moment) = 32
  <1> DEFINE a == Moment
  <1>1. a \in Seq(Field) /\ Len(a) = 2
    BY FieldForms DEF Moment
  <1>2. PICK sum : /\ sum[0] = 0 /\ Bits(a) = sum[Len(a)]
                   /\ \A i \in 1 .. Len(a) : sum[i] = sum[i - 1] + a[i].step
    BY <1>1, BitsLoop
  <1>3. a[1].step = 12 /\ a[2].step = 20
    BY DEF Moment, U16, U32, F
  <1> HIDE DEF a
  <1>4. sum[0] = 0
    BY <1>2, Zenon
  <1>5. \A i \in 1 .. 2 : sum[i] = sum[i - 1] + a[i].step
    BY <1>1, <1>2
  <1>6. sum[1] = sum[0] + a[1].step /\ sum[2] = sum[1] + a[2].step
    BY <1>5
  <1>7. sum[2] = 32
    BY ONLY <1>3, <1>6, <1>4, SMTT(40)
  <1>8. QED
    BY <1>1, <1>2, <1>7, Zenon DEF a

\* Its members.
LEMMA MomentPart ==
  ASSUME NEW st, NEW m \in Nat, 2 <= m,
         st[1] = 2, st[2] = 4
  PROVE  Part(Moment, st, m, 0, 2)
  <1> DEFINE a == Moment
             Holds(i) == Fit(a[i], st[0 + i]) /\ (a[i].as = "spare" <=> 0 + i > m)
  <1>1. Holds(1) /\ Holds(2)
    BY DEF Moment, U16, U32, F, Fit
  <1> HIDE DEF a, Holds
  <1>2. \A i \in 1 .. 2 : Holds(i)
    BY <1>1
  <1>3. QED
    BY MomentBits, <1>2, Zenon DEF Part, a, Holds

\* The orbit of BDS-3.
LEMMA Bd3OrbitBits == Bd3Orbit \in Seq(Field) /\ Len(Bd3Orbit) = 11 /\ Bits(Bd3Orbit) = 141
  <1> DEFINE a == Bd3Orbit
  <1>1. a \in Seq(Field) /\ Len(a) = 11
    BY FieldForms DEF Bd3Orbit
  <1>2. PICK sum : /\ sum[0] = 0 /\ Bits(a) = sum[Len(a)]
                   /\ \A i \in 1 .. Len(a) : sum[i] = sum[i - 1] + a[i].step
    BY <1>1, BitsLoop
  <1>3. a[1].step = 6 /\ a[2].step = 3 /\ a[3].step = 13 /\ a[4].step = 11 /\ a[5].step = 11
        /\ a[6].step = 25 /\ a[7].step = 22 /\ a[8].step = 11 /\ a[9].step = 8
        /\ a[10].step = 16 /\ a[11].step = 15
    BY DEF Bd3Orbit, U8, U16, U32, LD, F
  <1> HIDE DEF a
  <1>4. sum[0] = 0
    BY <1>2, Zenon
  <1>5. \A i \in 1 .. 11 : sum[i] = sum[i - 1] + a[i].step
    BY <1>1, <1>2
  <1>6. sum[1] = sum[0] + a[1].step /\ sum[2] = sum[1] + a[2].step
        /\ sum[3] = sum[2] + a[3].step /\ sum[4] = sum[3] + a[4].step
        /\ sum[5] = sum[4] + a[5].step
    BY <1>5
  <1>7. sum[5] = 44
    BY ONLY <1>3, <1>6, <1>4, SMTT(40)
  <1>8. sum[6] = sum[5] + a[6].step /\ sum[7] = sum[6] + a[7].step
        /\ sum[8] = sum[7] + a[8].step /\ sum[9] = sum[8] + a[9].step
        /\ sum[10] = sum[9] + a[10].step /\ sum[11] = sum[10] + a[11].step
    BY <1>5
  <1>9. sum[11] = 141
    BY ONLY <1>3, <1>8, <1>7, SMTT(40)
  <1>10. QED
    BY <1>1, <1>2, <1>9, Zenon DEF a

\* Its members.
LEMMA Bd3OrbitPart ==
  ASSUME NEW st, NEW m \in Nat, 13 <= m,
         st[3] = 1, st[4] = 1, st[5] = 2, st[6] = 4, st[7] = 4, st[8] = 8, st[9] = 8, st[10] = 8,
         st[11] = 1, st[12] = 2, st[13] = 8
  PROVE  Part(Bd3Orbit, st, m, 2, 11)
  <1> DEFINE a == Bd3Orbit
             Holds(i) == Fit(a[i], st[2 + i]) /\ (a[i].as = "spare" <=> 2 + i > m)
  <1>1. Holds(1) /\ Holds(2) /\ Holds(3) /\ Holds(4) /\ Holds(5)
    BY DEF Bd3Orbit, U8, U16, U32, F, Fit
  <1>2. Holds(6) /\ Holds(7) /\ Holds(8) /\ Holds(9) /\ Holds(10)
    BY DEF Bd3Orbit, LD, U8, U16, F, Fit
  <1>3. Holds(11)
    BY DEF Bd3Orbit, LD, F, Fit
  <1> HIDE DEF a, Holds
  <1>4. \A i \in 1 .. 11 : Holds(i)
    BY <1>1, <1>2, <1>3
  <1>5. QED
    BY Bd3OrbitBits, <1>4, Zenon DEF Part, a, Holds

\* The terms of BDS-3.
LEMMA Bd3TermsBits == Bd3Terms \in Seq(Field) /\ Len(Bd3Terms) = 16 /\ Bits(Bd3Terms) = 397
  <1> DEFINE a == Bd3Terms
  <1>1. a \in Seq(Field) /\ Len(a) = 16
    BY FieldForms DEF Bd3Terms
  <1>2. PICK sum : /\ sum[0] = 0 /\ Bits(a) = sum[Len(a)]
                   /\ \A i \in 1 .. Len(a) : sum[i] = sum[i - 1] + a[i].step
    BY <1>1, BitsLoop
  <1>3. a[1].step = 24 /\ a[2].step = 24 /\ a[3].step = 21 /\ a[4].step = 21 /\ a[5].step = 16
        /\ a[6].step = 16 /\ a[7].step = 17 /\ a[8].step = 23 /\ a[9].step = 33
        /\ a[10].step = 33 /\ a[11].step = 26 /\ a[12].step = 25 /\ a[13].step = 33
        /\ a[14].step = 33 /\ a[15].step = 33 /\ a[16].step = 19
    BY DEF Bd3Terms, LD, RD, QD, F
  <1> HIDE DEF a
  <1>4. sum[0] = 0
    BY <1>2, Zenon
  <1>5. \A i \in 1 .. 16 : sum[i] = sum[i - 1] + a[i].step
    BY <1>1, <1>2
  <1>6. sum[1] = sum[0] + a[1].step /\ sum[2] = sum[1] + a[2].step
        /\ sum[3] = sum[2] + a[3].step /\ sum[4] = sum[3] + a[4].step
        /\ sum[5] = sum[4] + a[5].step
    BY <1>5
  <1>7. sum[5] = 106
    BY ONLY <1>3, <1>6, <1>4, SMTT(40)
  <1>8. sum[6] = sum[5] + a[6].step /\ sum[7] = sum[6] + a[7].step
        /\ sum[8] = sum[7] + a[8].step /\ sum[9] = sum[8] + a[9].step
        /\ sum[10] = sum[9] + a[10].step
    BY <1>5
  <1>9. sum[10] = 228
    BY ONLY <1>3, <1>8, <1>7, SMTT(40)
  <1>10. sum[11] = sum[10] + a[11].step /\ sum[12] = sum[11] + a[12].step
        /\ sum[13] = sum[12] + a[13].step /\ sum[14] = sum[13] + a[14].step
        /\ sum[15] = sum[14] + a[15].step /\ sum[16] = sum[15] + a[16].step
    BY <1>5
  <1>11. sum[16] = 397
    BY ONLY <1>3, <1>10, <1>9, SMTT(40)
  <1>12. QED
    BY <1>1, <1>2, <1>11, Zenon DEF a

\* Its members.
LEMMA Bd3TermsPart ==
  ASSUME NEW st, NEW m \in Nat, 29 <= m,
         st[14] = 8, st[15] = 8, st[16] = 8, st[17] = 8, st[18] = 8, st[19] = 8, st[20] = 8,
         st[21] = 8, st[22] = 8, st[23] = 8, st[24] = 8, st[25] = 8, st[26] = 8, st[27] = 8,
         st[28] = 8, st[29] = 8
  PROVE  Part(Bd3Terms, st, m, 13, 16)
  <1> DEFINE a == Bd3Terms
             Holds(i) == Fit(a[i], st[13 + i]) /\ (a[i].as = "spare" <=> 13 + i > m)
  <1>1. Holds(1) /\ Holds(2) /\ Holds(3) /\ Holds(4) /\ Holds(5)
    BY DEF Bd3Terms, RD, LD, F, Fit
  <1>2. Holds(6) /\ Holds(7) /\ Holds(8) /\ Holds(9) /\ Holds(10)
    BY DEF Bd3Terms, LD, RD, QD, F, Fit
  <1>3. Holds(11) /\ Holds(12) /\ Holds(13) /\ Holds(14) /\ Holds(15)
    BY DEF Bd3Terms, RD, QD, LD, F, Fit
  <1>4. Holds(16)
    BY DEF Bd3Terms, RD, LD, F, Fit
  <1> HIDE DEF a, Holds
  <1>5. \A i \in 1 .. 16 : Holds(i)
    BY <1>1, <1>2, <1>3, <1>4
  <1>6. QED
    BY Bd3TermsBits, <1>5, Zenon DEF Part, a, Holds

\* An axis of GLONASS.
LEMMA GloAxisBits == GloAxis \in Seq(Field) /\ Len(GloAxis) = 3 /\ Bits(GloAxis) = 56
  <1> DEFINE a == GloAxis
  <1>1. a \in Seq(Field) /\ Len(a) = 3
    BY FieldForms DEF GloAxis
  <1>2. PICK sum : /\ sum[0] = 0 /\ Bits(a) = sum[Len(a)]
                   /\ \A i \in 1 .. Len(a) : sum[i] = sum[i - 1] + a[i].step
    BY <1>1, BitsLoop
  <1>3. a[1].step = 27 /\ a[2].step = 24 /\ a[3].step = 5
    BY DEF GloAxis, SD, F
  <1> HIDE DEF a
  <1>4. sum[0] = 0
    BY <1>2, Zenon
  <1>5. \A i \in 1 .. 3 : sum[i] = sum[i - 1] + a[i].step
    BY <1>1, <1>2
  <1>6. sum[1] = sum[0] + a[1].step /\ sum[2] = sum[1] + a[2].step
        /\ sum[3] = sum[2] + a[3].step
    BY <1>5
  <1>7. sum[3] = 56
    BY ONLY <1>3, <1>6, <1>4, SMTT(40)
  <1>8. QED
    BY <1>1, <1>2, <1>7, Zenon DEF a

\* Its members.
LEMMA GloAxisPart ==
  ASSUME NEW st, NEW o \in Nat, NEW m \in Nat, o + 3 <= m,
         st[o + 1] = 8, st[o + 2] = 8, st[o + 3] = 8
  PROVE  Part(GloAxis, st, m, o, 3)
  <1> DEFINE a == GloAxis
             Holds(i) == Fit(a[i], st[o + i]) /\ (a[i].as = "spare" <=> o + i > m)
  <1>1. Holds(1) /\ Holds(2) /\ Holds(3)
    BY DEF GloAxis, SD, F, Fit
  <1> HIDE DEF a, Holds
  <1>2. \A i \in 1 .. 3 : Holds(i)
    BY <1>1
  <1>3. QED
    BY GloAxisBits, <1>2, Zenon DEF Part, a, Holds

\* The end of two of the BDS-3 decoders.
Bd3End == <<Spare(2, 2, 1), Crc24>>

\* Its bits.
LEMMA Bd3EndBits == Bd3End \in Seq(Field) /\ Len(Bd3End) = 2 /\ Bits(Bd3End) = 26
  <1> DEFINE a == Bd3End
  <1>1. a \in Seq(Field) /\ Len(a) = 2
    BY FieldForms DEF Bd3End
  <1>2. PICK sum : /\ sum[0] = 0 /\ Bits(a) = sum[Len(a)]
                   /\ \A i \in 1 .. Len(a) : sum[i] = sum[i - 1] + a[i].step
    BY <1>1, BitsLoop
  <1>3. a[1].step = 2 /\ a[2].step = 24
    BY DEF Bd3End, Spare, Crc24, F
  <1> HIDE DEF a
  <1>4. sum[0] = 0
    BY <1>2, Zenon
  <1>5. \A i \in 1 .. 2 : sum[i] = sum[i - 1] + a[i].step
    BY <1>1, <1>2
  <1>6. sum[1] = sum[0] + a[1].step /\ sum[2] = sum[1] + a[2].step
    BY <1>5
  <1>7. sum[2] = 26
    BY ONLY <1>3, <1>6, <1>4, SMTT(40)
  <1>8. QED
    BY <1>1, <1>2, <1>7, Zenon DEF a

\* Its members.
LEMMA Bd3EndPart ==
  ASSUME NEW st,
         st[33] = 1, st[34] = 4
  PROVE  Part(Bd3End, st, 32, 32, 2)
  <1> DEFINE a == Bd3End
             Holds(i) == Fit(a[i], st[32 + i]) /\ (a[i].as = "spare" <=> 32 + i > 32)
  <1>1. Holds(1) /\ Holds(2)
    BY DEF Bd3End, Spare, Crc24, F, Fit
  <1> HIDE DEF a, Holds
  <1>2. \A i \in 1 .. 2 : Holds(i)
    BY <1>1
  <1>3. QED
    BY Bd3EndBits, <1>2, Zenon DEF Part, a, Holds

\* The end of the third.
Cnav3End == <<LD(12, 12), Spare(26, 26, 4), Crc24>>

\* Its bits.
LEMMA Cnav3EndBits == Cnav3End \in Seq(Field) /\ Len(Cnav3End) = 3 /\ Bits(Cnav3End) = 62
  <1> DEFINE a == Cnav3End
  <1>1. a \in Seq(Field) /\ Len(a) = 3
    BY FieldForms DEF Cnav3End
  <1>2. PICK sum : /\ sum[0] = 0 /\ Bits(a) = sum[Len(a)]
                   /\ \A i \in 1 .. Len(a) : sum[i] = sum[i - 1] + a[i].step
    BY <1>1, BitsLoop
  <1>3. a[1].step = 12 /\ a[2].step = 26 /\ a[3].step = 24
    BY DEF Cnav3End, LD, Spare, Crc24, F
  <1> HIDE DEF a
  <1>4. sum[0] = 0
    BY <1>2, Zenon
  <1>5. \A i \in 1 .. 3 : sum[i] = sum[i - 1] + a[i].step
    BY <1>1, <1>2
  <1>6. sum[1] = sum[0] + a[1].step /\ sum[2] = sum[1] + a[2].step
        /\ sum[3] = sum[2] + a[3].step
    BY <1>5
  <1>7. sum[3] = 62
    BY ONLY <1>3, <1>6, <1>4, SMTT(40)
  <1>8. QED
    BY <1>1, <1>2, <1>7, Zenon DEF a

\* Its members.
LEMMA Cnav3EndPart ==
  ASSUME NEW st,
         st[30] = 8, st[31] = 4, st[32] = 4
  PROVE  Part(Cnav3End, st, 30, 29, 3)
  <1> DEFINE a == Cnav3End
             Holds(i) == Fit(a[i], st[29 + i]) /\ (a[i].as = "spare" <=> 29 + i > 30)
  <1>1. Holds(1) /\ Holds(2) /\ Holds(3)
    BY DEF Cnav3End, LD, Spare, Crc24, F, Fit
  <1> HIDE DEF a, Holds
  <1>2. \A i \in 1 .. 3 : Holds(i)
    BY <1>1
  <1>3. QED
    BY Cnav3EndBits, <1>2, Zenon DEF Part, a, Holds

\* Parts of the decoder of GPS.
GpsOrbit ==
  <<U8(6, 6), U8(4, 4), U8(6, 6), U16(10, 10), U16(16, 16), U16(16, 16), SD(22, 22), SD(16, 16),
    SD(8, 8), U8(8, 8), U16(10, 10), SD(14, 14)>>

\* Its bits.
LEMMA GpsOrbitBits == GpsOrbit \in Seq(Field) /\ Len(GpsOrbit) = 12 /\ Bits(GpsOrbit) = 136
  <1> DEFINE a == GpsOrbit
  <1>1. a \in Seq(Field) /\ Len(a) = 12
    BY FieldForms DEF GpsOrbit
  <1>2. PICK sum : /\ sum[0] = 0 /\ Bits(a) = sum[Len(a)]
                   /\ \A i \in 1 .. Len(a) : sum[i] = sum[i - 1] + a[i].step
    BY <1>1, BitsLoop
  <1>3. a[1].step = 6 /\ a[2].step = 4 /\ a[3].step = 6 /\ a[4].step = 10 /\ a[5].step = 16
        /\ a[6].step = 16 /\ a[7].step = 22 /\ a[8].step = 16 /\ a[9].step = 8 /\ a[10].step = 8
        /\ a[11].step = 10 /\ a[12].step = 14
    BY DEF GpsOrbit, U8, U16, SD, F
  <1> HIDE DEF a
  <1>4. sum[0] = 0
    BY <1>2, Zenon
  <1>5. \A i \in 1 .. 12 : sum[i] = sum[i - 1] + a[i].step
    BY <1>1, <1>2
  <1>6. sum[1] = sum[0] + a[1].step /\ sum[2] = sum[1] + a[2].step
        /\ sum[3] = sum[2] + a[3].step /\ sum[4] = sum[3] + a[4].step
        /\ sum[5] = sum[4] + a[5].step
    BY <1>5
  <1>7. sum[5] = 42
    BY ONLY <1>3, <1>6, <1>4, SMTT(40)
  <1>8. sum[6] = sum[5] + a[6].step /\ sum[7] = sum[6] + a[7].step
        /\ sum[8] = sum[7] + a[8].step /\ sum[9] = sum[8] + a[9].step
        /\ sum[10] = sum[9] + a[10].step
    BY <1>5
  <1>9. sum[10] = 112
    BY ONLY <1>3, <1>8, <1>7, SMTT(40)
  <1>10. sum[11] = sum[10] + a[11].step /\ sum[12] = sum[11] + a[12].step
    BY <1>5
  <1>11. sum[12] = 136
    BY ONLY <1>3, <1>10, <1>9, SMTT(40)
  <1>12. QED
    BY <1>1, <1>2, <1>11, Zenon DEF a

\* Its members.
LEMMA GpsOrbitPart ==
  ASSUME NEW st,
         st[3] = 1, st[4] = 1, st[5] = 1, st[6] = 2, st[7] = 2, st[8] = 2, st[9] = 8, st[10] = 8,
         st[11] = 8, st[12] = 1, st[13] = 2, st[14] = 8
  PROVE  Part(GpsOrbit, st, 32, 2, 12)
  <1> DEFINE a == GpsOrbit
             Holds(i) == Fit(a[i], st[2 + i]) /\ (a[i].as = "spare" <=> 2 + i > 32)
  <1>1. Holds(1) /\ Holds(2) /\ Holds(3) /\ Holds(4) /\ Holds(5)
    BY DEF GpsOrbit, U8, U16, F, Fit
  <1>2. Holds(6) /\ Holds(7) /\ Holds(8) /\ Holds(9) /\ Holds(10)
    BY DEF GpsOrbit, U16, SD, U8, F, Fit
  <1>3. Holds(11) /\ Holds(12)
    BY DEF GpsOrbit, U16, SD, F, Fit
  <1> HIDE DEF a, Holds
  <1>4. \A i \in 1 .. 12 : Holds(i)
    BY <1>1, <1>2, <1>3
  <1>5. QED
    BY GpsOrbitBits, <1>4, Zenon DEF Part, a, Holds

\* The second part.
GpsAnomaly == <<MeanAnomaly, UD(32, 32), UD(32, 32)>>

\* Its bits.
LEMMA GpsAnomalyBits == GpsAnomaly \in Seq(Field) /\ Len(GpsAnomaly) = 3 /\ Bits(GpsAnomaly) = 96
  <1> DEFINE a == GpsAnomaly
  <1>1. a \in Seq(Field) /\ Len(a) = 3
    BY FieldForms DEF GpsAnomaly
  <1>2. PICK sum : /\ sum[0] = 0 /\ Bits(a) = sum[Len(a)]
                   /\ \A i \in 1 .. Len(a) : sum[i] = sum[i - 1] + a[i].step
    BY <1>1, BitsLoop
  <1>3. a[1].step = 32 /\ a[2].step = 32 /\ a[3].step = 32
    BY DEF GpsAnomaly, MeanAnomaly, UD, SD, F
  <1> HIDE DEF a
  <1>4. sum[0] = 0
    BY <1>2, Zenon
  <1>5. \A i \in 1 .. 3 : sum[i] = sum[i - 1] + a[i].step
    BY <1>1, <1>2
  <1>6. sum[1] = sum[0] + a[1].step /\ sum[2] = sum[1] + a[2].step
        /\ sum[3] = sum[2] + a[3].step
    BY <1>5
  <1>7. sum[3] = 96
    BY ONLY <1>3, <1>6, <1>4, SMTT(40)
  <1>8. QED
    BY <1>1, <1>2, <1>7, Zenon DEF a

\* Its members.
LEMMA GpsAnomalyPart ==
  ASSUME NEW st,
         st[22] = 8, st[23] = 8, st[24] = 8
  PROVE  Part(GpsAnomaly, st, 32, 21, 3)
  <1> DEFINE a == GpsAnomaly
             Holds(i) == Fit(a[i], st[21 + i]) /\ (a[i].as = "spare" <=> 21 + i > 32)
  <1>1. Holds(1) /\ Holds(2) /\ Holds(3)
    BY DEF GpsAnomaly, MeanAnomaly, UD, SD, F, Fit
  <1> HIDE DEF a, Holds
  <1>2. \A i \in 1 .. 3 : Holds(i)
    BY <1>1
  <1>3. QED
    BY GpsAnomalyBits, <1>2, Zenon DEF Part, a, Holds

\* The last part.
GpsEnd == <<SD(24, 24), SD(8, 8), U8(2, 2), U8(1, 1), U8(1, 1), Spare(4, 4, 1), Crc24>>

\* Its bits.
LEMMA GpsEndBits == GpsEnd \in Seq(Field) /\ Len(GpsEnd) = 7 /\ Bits(GpsEnd) = 64
  <1> DEFINE a == GpsEnd
  <1>1. a \in Seq(Field) /\ Len(a) = 7
    BY FieldForms DEF GpsEnd
  <1>2. PICK sum : /\ sum[0] = 0 /\ Bits(a) = sum[Len(a)]
                   /\ \A i \in 1 .. Len(a) : sum[i] = sum[i - 1] + a[i].step
    BY <1>1, BitsLoop
  <1>3. a[1].step = 24 /\ a[2].step = 8 /\ a[3].step = 2 /\ a[4].step = 1 /\ a[5].step = 1
        /\ a[6].step = 4 /\ a[7].step = 24
    BY DEF GpsEnd, SD, U8, Spare, Crc24, F
  <1> HIDE DEF a
  <1>4. sum[0] = 0
    BY <1>2, Zenon
  <1>5. \A i \in 1 .. 7 : sum[i] = sum[i - 1] + a[i].step
    BY <1>1, <1>2
  <1>6. sum[1] = sum[0] + a[1].step /\ sum[2] = sum[1] + a[2].step
        /\ sum[3] = sum[2] + a[3].step /\ sum[4] = sum[3] + a[4].step
        /\ sum[5] = sum[4] + a[5].step
    BY <1>5
  <1>7. sum[5] = 36
    BY ONLY <1>3, <1>6, <1>4, SMTT(40)
  <1>8. sum[6] = sum[5] + a[6].step /\ sum[7] = sum[6] + a[7].step
    BY <1>5
  <1>9. sum[7] = 64
    BY ONLY <1>3, <1>8, <1>7, SMTT(40)
  <1>10. QED
    BY <1>1, <1>2, <1>9, Zenon DEF a

\* Its members.
LEMMA GpsEndPart ==
  ASSUME NEW st,
         st[28] = 8, st[29] = 8, st[30] = 1, st[31] = 1, st[32] = 1, st[33] = 1, st[34] = 4
  PROVE  Part(GpsEnd, st, 32, 27, 7)
  <1> DEFINE a == GpsEnd
             Holds(i) == Fit(a[i], st[27 + i]) /\ (a[i].as = "spare" <=> 27 + i > 32)
  <1>1. Holds(1) /\ Holds(2) /\ Holds(3) /\ Holds(4) /\ Holds(5)
    BY DEF GpsEnd, SD, U8, F, Fit
  <1>2. Holds(6) /\ Holds(7)
    BY DEF GpsEnd, Spare, Crc24, F, Fit
  <1> HIDE DEF a, Holds
  <1>3. \A i \in 1 .. 7 : Holds(i)
    BY <1>1, <1>2
  <1>4. QED
    BY GpsEndBits, <1>3, Zenon DEF Part, a, Holds

\* Parts of the decoder of BDS-2.
Bd2Orbit ==
  <<U8(6, 6), U8(4, 4), U8(1, 1), U16(13, 13), U32(17, 17), U32(17, 17), SD(24, 24), SD(22, 22),
    SD(11, 11), U8(5, 5), U8(5, 5), SD(14, 14)>>

\* Its bits.
LEMMA Bd2OrbitBits == Bd2Orbit \in Seq(Field) /\ Len(Bd2Orbit) = 12 /\ Bits(Bd2Orbit) = 139
  <1> DEFINE a == Bd2Orbit
  <1>1. a \in Seq(Field) /\ Len(a) = 12
    BY FieldForms DEF Bd2Orbit
  <1>2. PICK sum : /\ sum[0] = 0 /\ Bits(a) = sum[Len(a)]
                   /\ \A i \in 1 .. Len(a) : sum[i] = sum[i - 1] + a[i].step
    BY <1>1, BitsLoop
  <1>3. a[1].step = 6 /\ a[2].step = 4 /\ a[3].step = 1 /\ a[4].step = 13 /\ a[5].step = 17
        /\ a[6].step = 17 /\ a[7].step = 24 /\ a[8].step = 22 /\ a[9].step = 11
        /\ a[10].step = 5 /\ a[11].step = 5 /\ a[12].step = 14
    BY DEF Bd2Orbit, U8, U16, U32, SD, F
  <1> HIDE DEF a
  <1>4. sum[0] = 0
    BY <1>2, Zenon
  <1>5. \A i \in 1 .. 12 : sum[i] = sum[i - 1] + a[i].step
    BY <1>1, <1>2
  <1>6. sum[1] = sum[0] + a[1].step /\ sum[2] = sum[1] + a[2].step
        /\ sum[3] = sum[2] + a[3].step /\ sum[4] = sum[3] + a[4].step
        /\ sum[5] = sum[4] + a[5].step
    BY <1>5
  <1>7. sum[5] = 41
    BY ONLY <1>3, <1>6, <1>4, SMTT(40)
  <1>8. sum[6] = sum[5] + a[6].step /\ sum[7] = sum[6] + a[7].step
        /\ sum[8] = sum[7] + a[8].step /\ sum[9] = sum[8] + a[9].step
        /\ sum[10] = sum[9] + a[10].step
    BY <1>5
  <1>9. sum[10] = 120
    BY ONLY <1>3, <1>8, <1>7, SMTT(40)
  <1>10. sum[11] = sum[10] + a[11].step /\ sum[12] = sum[11] + a[12].step
    BY <1>5
  <1>11. sum[12] = 139
    BY ONLY <1>3, <1>10, <1>9, SMTT(40)
  <1>12. QED
    BY <1>1, <1>2, <1>11, Zenon DEF a

\* Its members.
LEMMA Bd2OrbitPart ==
  ASSUME NEW st,
         st[3] = 1, st[4] = 1, st[5] = 1, st[6] = 2, st[7] = 4, st[8] = 4, st[9] = 8, st[10] = 8,
         st[11] = 8, st[12] = 1, st[13] = 1, st[14] = 8
  PROVE  Part(Bd2Orbit, st, 30, 2, 12)
  <1> DEFINE a == Bd2Orbit
             Holds(i) == Fit(a[i], st[2 + i]) /\ (a[i].as = "spare" <=> 2 + i > 30)
  <1>1. Holds(1) /\ Holds(2) /\ Holds(3) /\ Holds(4) /\ Holds(5)
    BY DEF Bd2Orbit, U8, U16, U32, F, Fit
  <1>2. Holds(6) /\ Holds(7) /\ Holds(8) /\ Holds(9) /\ Holds(10)
    BY DEF Bd2Orbit, U32, SD, U8, F, Fit
  <1>3. Holds(11) /\ Holds(12)
    BY DEF Bd2Orbit, U8, SD, F, Fit
  <1> HIDE DEF a, Holds
  <1>4. \A i \in 1 .. 12 : Holds(i)
    BY <1>1, <1>2, <1>3
  <1>5. QED
    BY Bd2OrbitBits, <1>4, Zenon DEF Part, a, Holds

\* The second part.
Bd2Anomaly == <<SD(16, 16), SD(32, 32), UD(32, 32), UD(32, 32)>>

\* Its bits.
LEMMA Bd2AnomalyBits == Bd2Anomaly \in Seq(Field) /\ Len(Bd2Anomaly) = 4 /\ Bits(Bd2Anomaly) = 112
  <1> DEFINE a == Bd2Anomaly
  <1>1. a \in Seq(Field) /\ Len(a) = 4
    BY FieldForms DEF Bd2Anomaly
  <1>2. PICK sum : /\ sum[0] = 0 /\ Bits(a) = sum[Len(a)]
                   /\ \A i \in 1 .. Len(a) : sum[i] = sum[i - 1] + a[i].step
    BY <1>1, BitsLoop
  <1>3. a[1].step = 16 /\ a[2].step = 32 /\ a[3].step = 32 /\ a[4].step = 32
    BY DEF Bd2Anomaly, SD, UD, F
  <1> HIDE DEF a
  <1>4. sum[0] = 0
    BY <1>2, Zenon
  <1>5. \A i \in 1 .. 4 : sum[i] = sum[i - 1] + a[i].step
    BY <1>1, <1>2
  <1>6. sum[1] = sum[0] + a[1].step /\ sum[2] = sum[1] + a[2].step
        /\ sum[3] = sum[2] + a[3].step /\ sum[4] = sum[3] + a[4].step
    BY <1>5
  <1>7. sum[4] = 112
    BY ONLY <1>3, <1>6, <1>4, SMTT(40)
  <1>8. QED
    BY <1>1, <1>2, <1>7, Zenon DEF a

\* Its members.
LEMMA Bd2AnomalyPart ==
  ASSUME NEW st,
         st[21] = 8, st[22] = 8, st[23] = 8, st[24] = 8
  PROVE  Part(Bd2Anomaly, st, 30, 20, 4)
  <1> DEFINE a == Bd2Anomaly
             Holds(i) == Fit(a[i], st[20 + i]) /\ (a[i].as = "spare" <=> 20 + i > 30)
  <1>1. Holds(1) /\ Holds(2) /\ Holds(3) /\ Holds(4)
    BY DEF Bd2Anomaly, SD, UD, F, Fit
  <1> HIDE DEF a, Holds
  <1>2. \A i \in 1 .. 4 : Holds(i)
    BY <1>1
  <1>3. QED
    BY Bd2AnomalyBits, <1>2, Zenon DEF Part, a, Holds

\* The last part.
Bd2End == <<SD(24, 24), SD(10, 10), SD(10, 10), Spare(5, 5, 1), Crc24>>

\* Its bits.
LEMMA Bd2EndBits == Bd2End \in Seq(Field) /\ Len(Bd2End) = 5 /\ Bits(Bd2End) = 73
  <1> DEFINE a == Bd2End
  <1>1. a \in Seq(Field) /\ Len(a) = 5
    BY FieldForms DEF Bd2End
  <1>2. PICK sum : /\ sum[0] = 0 /\ Bits(a) = sum[Len(a)]
                   /\ \A i \in 1 .. Len(a) : sum[i] = sum[i - 1] + a[i].step
    BY <1>1, BitsLoop
  <1>3. a[1].step = 24 /\ a[2].step = 10 /\ a[3].step = 10 /\ a[4].step = 5 /\ a[5].step = 24
    BY DEF Bd2End, SD, Spare, Crc24, F
  <1> HIDE DEF a
  <1>4. sum[0] = 0
    BY <1>2, Zenon
  <1>5. \A i \in 1 .. 5 : sum[i] = sum[i - 1] + a[i].step
    BY <1>1, <1>2
  <1>6. sum[1] = sum[0] + a[1].step /\ sum[2] = sum[1] + a[2].step
        /\ sum[3] = sum[2] + a[3].step /\ sum[4] = sum[3] + a[4].step
        /\ sum[5] = sum[4] + a[5].step
    BY <1>5
  <1>7. sum[5] = 73
    BY ONLY <1>3, <1>6, <1>4, SMTT(40)
  <1>8. QED
    BY <1>1, <1>2, <1>7, Zenon DEF a

\* Its members.
LEMMA Bd2EndPart ==
  ASSUME NEW st,
         st[28] = 8, st[29] = 8, st[30] = 8, st[31] = 1, st[32] = 4
  PROVE  Part(Bd2End, st, 30, 27, 5)
  <1> DEFINE a == Bd2End
             Holds(i) == Fit(a[i], st[27 + i]) /\ (a[i].as = "spare" <=> 27 + i > 30)
  <1>1. Holds(1) /\ Holds(2) /\ Holds(3) /\ Holds(4) /\ Holds(5)
    BY DEF Bd2End, SD, Spare, Crc24, F, Fit
  <1> HIDE DEF a, Holds
  <1>2. \A i \in 1 .. 5 : Holds(i)
    BY <1>1
  <1>3. QED
    BY Bd2EndBits, <1>2, Zenon DEF Part, a, Holds

\* Parts of the decoder of BDXW.
BdxwOrbit == <<U8(8, 8), U8(2, 2), U16(13, 13), U32(16, 16), U32(17, 17), SD(27, 27),
               SD(22, 22), U8(4, 4), U8(3, 3)>>

\* Its bits.
LEMMA BdxwOrbitBits == BdxwOrbit \in Seq(Field) /\ Len(BdxwOrbit) = 9 /\ Bits(BdxwOrbit) = 112
  <1> DEFINE a == BdxwOrbit
  <1>1. a \in Seq(Field) /\ Len(a) = 9
    BY FieldForms DEF BdxwOrbit
  <1>2. PICK sum : /\ sum[0] = 0 /\ Bits(a) = sum[Len(a)]
                   /\ \A i \in 1 .. Len(a) : sum[i] = sum[i - 1] + a[i].step
    BY <1>1, BitsLoop
  <1>3. a[1].step = 8 /\ a[2].step = 2 /\ a[3].step = 13 /\ a[4].step = 16 /\ a[5].step = 17
        /\ a[6].step = 27 /\ a[7].step = 22 /\ a[8].step = 4 /\ a[9].step = 3
    BY DEF BdxwOrbit, U8, U16, U32, SD, F
  <1> HIDE DEF a
  <1>4. sum[0] = 0
    BY <1>2, Zenon
  <1>5. \A i \in 1 .. 9 : sum[i] = sum[i - 1] + a[i].step
    BY <1>1, <1>2
  <1>6. sum[1] = sum[0] + a[1].step /\ sum[2] = sum[1] + a[2].step
        /\ sum[3] = sum[2] + a[3].step /\ sum[4] = sum[3] + a[4].step
        /\ sum[5] = sum[4] + a[5].step
    BY <1>5
  <1>7. sum[5] = 56
    BY ONLY <1>3, <1>6, <1>4, SMTT(40)
  <1>8. sum[6] = sum[5] + a[6].step /\ sum[7] = sum[6] + a[7].step
        /\ sum[8] = sum[7] + a[8].step /\ sum[9] = sum[8] + a[9].step
    BY <1>5
  <1>9. sum[9] = 112
    BY ONLY <1>3, <1>8, <1>7, SMTT(40)
  <1>10. QED
    BY <1>1, <1>2, <1>9, Zenon DEF a

\* Its members.
LEMMA BdxwOrbitPart ==
  ASSUME NEW st,
         st[3] = 1, st[4] = 1, st[5] = 2, st[6] = 4, st[7] = 4, st[8] = 8, st[9] = 8, st[10] = 1,
         st[11] = 1
  PROVE  Part(BdxwOrbit, st, 32, 2, 9)
  <1> DEFINE a == BdxwOrbit
             Holds(i) == Fit(a[i], st[2 + i]) /\ (a[i].as = "spare" <=> 2 + i > 32)
  <1>1. Holds(1) /\ Holds(2) /\ Holds(3) /\ Holds(4) /\ Holds(5)
    BY DEF BdxwOrbit, U8, U16, U32, F, Fit
  <1>2. Holds(6) /\ Holds(7) /\ Holds(8) /\ Holds(9)
    BY DEF BdxwOrbit, SD, U8, F, Fit
  <1> HIDE DEF a, Holds
  <1>3. \A i \in 1 .. 9 : Holds(i)
    BY <1>1, <1>2
  <1>4. QED
    BY BdxwOrbitBits, <1>3, Zenon DEF Part, a, Holds

\* The second part.
BdxwTerms == <<SD(26, 26), SD(26, 26), SD(25, 25), SD(25, 25)>>

\* Its bits.
LEMMA BdxwTermsBits == BdxwTerms \in Seq(Field) /\ Len(BdxwTerms) = 4 /\ Bits(BdxwTerms) = 102
  <1> DEFINE a == BdxwTerms
  <1>1. a \in Seq(Field) /\ Len(a) = 4
    BY FieldForms DEF BdxwTerms
  <1>2. PICK sum : /\ sum[0] = 0 /\ Bits(a) = sum[Len(a)]
                   /\ \A i \in 1 .. Len(a) : sum[i] = sum[i - 1] + a[i].step
    BY <1>1, BitsLoop
  <1>3. a[1].step = 26 /\ a[2].step = 26 /\ a[3].step = 25 /\ a[4].step = 25
    BY DEF BdxwTerms, SD, F
  <1> HIDE DEF a
  <1>4. sum[0] = 0
    BY <1>2, Zenon
  <1>5. \A i \in 1 .. 4 : sum[i] = sum[i - 1] + a[i].step
    BY <1>1, <1>2
  <1>6. sum[1] = sum[0] + a[1].step /\ sum[2] = sum[1] + a[2].step
        /\ sum[3] = sum[2] + a[3].step /\ sum[4] = sum[3] + a[4].step
    BY <1>5
  <1>7. sum[4] = 102
    BY ONLY <1>3, <1>6, <1>4, SMTT(40)
  <1>8. QED
    BY <1>1, <1>2, <1>7, Zenon DEF a

\* Its members.
LEMMA BdxwTermsPart ==
  ASSUME NEW st,
         st[12] = 8, st[13] = 8, st[14] = 8, st[15] = 8
  PROVE  Part(BdxwTerms, st, 32, 11, 4)
  <1> DEFINE a == BdxwTerms
             Holds(i) == Fit(a[i], st[11 + i]) /\ (a[i].as = "spare" <=> 11 + i > 32)
  <1>1. Holds(1) /\ Holds(2) /\ Holds(3) /\ Holds(4)
    BY DEF BdxwTerms, SD, F, Fit
  <1> HIDE DEF a, Holds
  <1>2. \A i \in 1 .. 4 : Holds(i)
    BY <1>1
  <1>3. QED
    BY BdxwTermsBits, <1>2, Zenon DEF Part, a, Holds

\* The last part.
BdxwEnd ==
  <<SD(26, 26), SD(26, 26), SD(27, 27), LD(33, 33), LD(36, 36), QD(30, 30), SD(27, 27),
    SD(22, 22), SD(22, 22), LD(31, 31), LD(36, 36), SD(26, 26), LD(36, 36), Spare(36, 36, 8),
    Crc24>>

\* Its bits.
LEMMA BdxwEndBits == BdxwEnd \in Seq(Field) /\ Len(BdxwEnd) = 15 /\ Bits(BdxwEnd) = 438
  <1> DEFINE a == BdxwEnd
  <1>1. a \in Seq(Field) /\ Len(a) = 15
    BY FieldForms DEF BdxwEnd
  <1>2. PICK sum : /\ sum[0] = 0 /\ Bits(a) = sum[Len(a)]
                   /\ \A i \in 1 .. Len(a) : sum[i] = sum[i - 1] + a[i].step
    BY <1>1, BitsLoop
  <1>3. a[1].step = 26 /\ a[2].step = 26 /\ a[3].step = 27 /\ a[4].step = 33 /\ a[5].step = 36
        /\ a[6].step = 30 /\ a[7].step = 27 /\ a[8].step = 22 /\ a[9].step = 22
        /\ a[10].step = 31 /\ a[11].step = 36 /\ a[12].step = 26 /\ a[13].step = 36
        /\ a[14].step = 36 /\ a[15].step = 24
    BY DEF BdxwEnd, LD, SD, QD, Spare, Crc24, F
  <1> HIDE DEF a
  <1>4. sum[0] = 0
    BY <1>2, Zenon
  <1>5. \A i \in 1 .. 15 : sum[i] = sum[i - 1] + a[i].step
    BY <1>1, <1>2
  <1>6. sum[1] = sum[0] + a[1].step /\ sum[2] = sum[1] + a[2].step
        /\ sum[3] = sum[2] + a[3].step /\ sum[4] = sum[3] + a[4].step
        /\ sum[5] = sum[4] + a[5].step
    BY <1>5
  <1>7. sum[5] = 148
    BY ONLY <1>3, <1>6, <1>4, SMTT(40)
  <1>8. sum[6] = sum[5] + a[6].step /\ sum[7] = sum[6] + a[7].step
        /\ sum[8] = sum[7] + a[8].step /\ sum[9] = sum[8] + a[9].step
        /\ sum[10] = sum[9] + a[10].step
    BY <1>5
  <1>9. sum[10] = 280
    BY ONLY <1>3, <1>8, <1>7, SMTT(40)
  <1>10. sum[11] = sum[10] + a[11].step /\ sum[12] = sum[11] + a[12].step
        /\ sum[13] = sum[12] + a[13].step /\ sum[14] = sum[13] + a[14].step
        /\ sum[15] = sum[14] + a[15].step
    BY <1>5
  <1>11. sum[15] = 438
    BY ONLY <1>3, <1>10, <1>9, SMTT(40)
  <1>12. QED
    BY <1>1, <1>2, <1>11, Zenon DEF a

\* Its members.
LEMMA BdxwEndPart ==
  ASSUME NEW st,
         st[20] = 8, st[21] = 8, st[22] = 8, st[23] = 8, st[24] = 8, st[25] = 8, st[26] = 8,
         st[27] = 8, st[28] = 8, st[29] = 8, st[30] = 8, st[31] = 8, st[32] = 8, st[33] = 8,
         st[34] = 4
  PROVE  Part(BdxwEnd, st, 32, 19, 15)
  <1> DEFINE a == BdxwEnd
             Holds(i) == Fit(a[i], st[19 + i]) /\ (a[i].as = "spare" <=> 19 + i > 32)
  <1>1. Holds(1) /\ Holds(2) /\ Holds(3) /\ Holds(4) /\ Holds(5)
    BY DEF BdxwEnd, LD, SD, F, Fit
  <1>2. Holds(6) /\ Holds(7) /\ Holds(8) /\ Holds(9) /\ Holds(10)
    BY DEF BdxwEnd, LD, QD, SD, F, Fit
  <1>3. Holds(11) /\ Holds(12) /\ Holds(13) /\ Holds(14) /\ Holds(15)
    BY DEF BdxwEnd, LD, SD, Spare, Crc24, F, Fit
  <1> HIDE DEF a, Holds
  <1>4. \A i \in 1 .. 15 : Holds(i)
    BY <1>1, <1>2, <1>3
  <1>5. QED
    BY BdxwEndBits, <1>4, Zenon DEF Part, a, Holds

\* The first part of the decoder of GLONASS.
GloOrbit == <<U8(6, 6), U8(5, 5), U8(1, 1), U8(5, 5), U16(11, 11), U16(12, 12), U8(7, 7),
              SD(11, 11), SD(22, 22)>>

\* Its bits.
LEMMA GloOrbitBits == GloOrbit \in Seq(Field) /\ Len(GloOrbit) = 9 /\ Bits(GloOrbit) = 80
  <1> DEFINE a == GloOrbit
  <1>1. a \in Seq(Field) /\ Len(a) = 9
    BY FieldForms DEF GloOrbit
  <1>2. PICK sum : /\ sum[0] = 0 /\ Bits(a) = sum[Len(a)]
                   /\ \A i \in 1 .. Len(a) : sum[i] = sum[i - 1] + a[i].step
    BY <1>1, BitsLoop
  <1>3. a[1].step = 6 /\ a[2].step = 5 /\ a[3].step = 1 /\ a[4].step = 5 /\ a[5].step = 11
        /\ a[6].step = 12 /\ a[7].step = 7 /\ a[8].step = 11 /\ a[9].step = 22
    BY DEF GloOrbit, U8, U16, SD, F
  <1> HIDE DEF a
  <1>4. sum[0] = 0
    BY <1>2, Zenon
  <1>5. \A i \in 1 .. 9 : sum[i] = sum[i - 1] + a[i].step
    BY <1>1, <1>2
  <1>6. sum[1] = sum[0] + a[1].step /\ sum[2] = sum[1] + a[2].step
        /\ sum[3] = sum[2] + a[3].step /\ sum[4] = sum[3] + a[4].step
        /\ sum[5] = sum[4] + a[5].step
    BY <1>5
  <1>7. sum[5] = 28
    BY ONLY <1>3, <1>6, <1>4, SMTT(40)
  <1>8. sum[6] = sum[5] + a[6].step /\ sum[7] = sum[6] + a[7].step
        /\ sum[8] = sum[7] + a[8].step /\ sum[9] = sum[8] + a[9].step
    BY <1>5
  <1>9. sum[9] = 80
    BY ONLY <1>3, <1>8, <1>7, SMTT(40)
  <1>10. QED
    BY <1>1, <1>2, <1>9, Zenon DEF a

\* Its members.
LEMMA GloOrbitPart ==
  ASSUME NEW st,
         st[3] = 1, st[4] = 1, st[5] = 1, st[6] = 1, st[7] = 2, st[8] = 2, st[9] = 1, st[10] = 8,
         st[11] = 8
  PROVE  Part(GloOrbit, st, 20, 2, 9)
  <1> DEFINE a == GloOrbit
             Holds(i) == Fit(a[i], st[2 + i]) /\ (a[i].as = "spare" <=> 2 + i > 20)
  <1>1. Holds(1) /\ Holds(2) /\ Holds(3) /\ Holds(4) /\ Holds(5)
    BY DEF GloOrbit, U8, U16, F, Fit
  <1>2. Holds(6) /\ Holds(7) /\ Holds(8) /\ Holds(9)
    BY DEF GloOrbit, U16, U8, SD, F, Fit
  <1> HIDE DEF a, Holds
  <1>3. \A i \in 1 .. 9 : Holds(i)
    BY <1>1, <1>2
  <1>4. QED
    BY GloOrbitBits, <1>3, Zenon DEF Part, a, Holds

\* The last part.
GloEnd == <<Crc24>>

\* Its bits.
LEMMA GloEndBits == GloEnd \in Seq(Field) /\ Len(GloEnd) = 1 /\ Bits(GloEnd) = 24
  <1> DEFINE a == GloEnd
  <1>1. a \in Seq(Field) /\ Len(a) = 1
    BY FieldForms DEF GloEnd
  <1>2. PICK sum : /\ sum[0] = 0 /\ Bits(a) = sum[Len(a)]
                   /\ \A i \in 1 .. Len(a) : sum[i] = sum[i - 1] + a[i].step
    BY <1>1, BitsLoop
  <1>3. a[1].step = 24
    BY DEF GloEnd, Crc24, Spare, F
  <1> HIDE DEF a
  <1>4. sum[0] = 0
    BY <1>2, Zenon
  <1>5. \A i \in 1 .. 1 : sum[i] = sum[i - 1] + a[i].step
    BY <1>1, <1>2
  <1>6. sum[1] = sum[0] + a[1].step
    BY <1>5
  <1>7. sum[1] = 24
    BY ONLY <1>3, <1>6, <1>4, SMTT(40)
  <1>8. QED
    BY <1>1, <1>2, <1>7, Zenon DEF a

\* Its members.
LEMMA GloEndPart ==
  ASSUME NEW st,
         st[21] = 4
  PROVE  Part(GloEnd, st, 20, 20, 1)
  <1> DEFINE a == GloEnd
             Holds(i) == Fit(a[i], st[20 + i]) /\ (a[i].as = "spare" <=> 20 + i > 20)
  <1>1. Holds(1)
    BY DEF GloEnd, Crc24, Spare, F, Fit
  <1> HIDE DEF a, Holds
  <1>2. \A i \in 1 .. 1 : Holds(i)
    BY <1>1
  <1>3. QED
    BY GloEndBits, <1>2, Zenon DEF Part, a, Holds

\* Parts of the decoder of Galileo.
GalOrbit ==
  <<U8(6, 6), U8(8, 8), U8(2, 2), U8(1, 1), U8(2, 2), U8(1, 1), U16(12, 12), U32(14, 14),
    U32(14, 14), SD(31, 31), SD(21, 21), SD(6, 6), U16(10, 10), SD(14, 14)>>

\* Its bits.
LEMMA GalOrbitBits == GalOrbit \in Seq(Field) /\ Len(GalOrbit) = 14 /\ Bits(GalOrbit) = 142
  <1> DEFINE a == GalOrbit
  <1>1. a \in Seq(Field) /\ Len(a) = 14
    BY FieldForms DEF GalOrbit
  <1>2. PICK sum : /\ sum[0] = 0 /\ Bits(a) = sum[Len(a)]
                   /\ \A i \in 1 .. Len(a) : sum[i] = sum[i - 1] + a[i].step
    BY <1>1, BitsLoop
  <1>3. a[1].step = 6 /\ a[2].step = 8 /\ a[3].step = 2 /\ a[4].step = 1 /\ a[5].step = 2
        /\ a[6].step = 1 /\ a[7].step = 12 /\ a[8].step = 14 /\ a[9].step = 14
        /\ a[10].step = 31 /\ a[11].step = 21 /\ a[12].step = 6 /\ a[13].step = 10
        /\ a[14].step = 14
    BY DEF GalOrbit, U8, U16, U32, SD, F
  <1> HIDE DEF a
  <1>4. sum[0] = 0
    BY <1>2, Zenon
  <1>5. \A i \in 1 .. 14 : sum[i] = sum[i - 1] + a[i].step
    BY <1>1, <1>2
  <1>6. sum[1] = sum[0] + a[1].step /\ sum[2] = sum[1] + a[2].step
        /\ sum[3] = sum[2] + a[3].step /\ sum[4] = sum[3] + a[4].step
        /\ sum[5] = sum[4] + a[5].step
    BY <1>5
  <1>7. sum[5] = 19
    BY ONLY <1>3, <1>6, <1>4, SMTT(40)
  <1>8. sum[6] = sum[5] + a[6].step /\ sum[7] = sum[6] + a[7].step
        /\ sum[8] = sum[7] + a[8].step /\ sum[9] = sum[8] + a[9].step
        /\ sum[10] = sum[9] + a[10].step
    BY <1>5
  <1>9. sum[10] = 91
    BY ONLY <1>3, <1>8, <1>7, SMTT(40)
  <1>10. sum[11] = sum[10] + a[11].step /\ sum[12] = sum[11] + a[12].step
        /\ sum[13] = sum[12] + a[13].step /\ sum[14] = sum[13] + a[14].step
    BY <1>5
  <1>11. sum[14] = 142
    BY ONLY <1>3, <1>10, <1>9, SMTT(40)
  <1>12. QED
    BY <1>1, <1>2, <1>11, Zenon DEF a

\* Its members.
LEMMA GalOrbitPart ==
  ASSUME NEW st,
         st[3] = 1, st[4] = 1, st[5] = 1, st[6] = 1, st[7] = 1, st[8] = 1, st[9] = 2, st[10] = 4,
         st[11] = 4, st[12] = 8, st[13] = 8, st[14] = 8, st[15] = 2, st[16] = 8
  PROVE  Part(GalOrbit, st, 33, 2, 14)
  <1> DEFINE a == GalOrbit
             Holds(i) == Fit(a[i], st[2 + i]) /\ (a[i].as = "spare" <=> 2 + i > 33)
  <1>1. Holds(1) /\ Holds(2) /\ Holds(3) /\ Holds(4) /\ Holds(5)
    BY DEF GalOrbit, U8, F, Fit
  <1>2. Holds(6) /\ Holds(7) /\ Holds(8) /\ Holds(9) /\ Holds(10)
    BY DEF GalOrbit, U8, U16, U32, SD, F, Fit
  <1>3. Holds(11) /\ Holds(12) /\ Holds(13) /\ Holds(14)
    BY DEF GalOrbit, SD, U16, F, Fit
  <1> HIDE DEF a, Holds
  <1>4. \A i \in 1 .. 14 : Holds(i)
    BY <1>1, <1>2, <1>3
  <1>5. QED
    BY GalOrbitBits, <1>4, Zenon DEF Part, a, Holds

\* The second part.
GalAnomaly == <<SD(32, 32), UD(32, 32), UD(32, 32)>>

\* Its bits.
LEMMA GalAnomalyBits == GalAnomaly \in Seq(Field) /\ Len(GalAnomaly) = 3 /\ Bits(GalAnomaly) = 96
  <1> DEFINE a == GalAnomaly
  <1>1. a \in Seq(Field) /\ Len(a) = 3
    BY FieldForms DEF GalAnomaly
  <1>2. PICK sum : /\ sum[0] = 0 /\ Bits(a) = sum[Len(a)]
                   /\ \A i \in 1 .. Len(a) : sum[i] = sum[i - 1] + a[i].step
    BY <1>1, BitsLoop
  <1>3. a[1].step = 32 /\ a[2].step = 32 /\ a[3].step = 32
    BY DEF GalAnomaly, SD, UD, F
  <1> HIDE DEF a
  <1>4. sum[0] = 0
    BY <1>2, Zenon
  <1>5. \A i \in 1 .. 3 : sum[i] = sum[i - 1] + a[i].step
    BY <1>1, <1>2
  <1>6. sum[1] = sum[0] + a[1].step /\ sum[2] = sum[1] + a[2].step
        /\ sum[3] = sum[2] + a[3].step
    BY <1>5
  <1>7. sum[3] = 96
    BY ONLY <1>3, <1>6, <1>4, SMTT(40)
  <1>8. QED
    BY <1>1, <1>2, <1>7, Zenon DEF a

\* Its members.
LEMMA GalAnomalyPart ==
  ASSUME NEW st,
         st[24] = 8, st[25] = 8, st[26] = 8
  PROVE  Part(GalAnomaly, st, 33, 23, 3)
  <1> DEFINE a == GalAnomaly
             Holds(i) == Fit(a[i], st[23 + i]) /\ (a[i].as = "spare" <=> 23 + i > 33)
  <1>1. Holds(1) /\ Holds(2) /\ Holds(3)
    BY DEF GalAnomaly, SD, UD, F, Fit
  <1> HIDE DEF a, Holds
  <1>2. \A i \in 1 .. 3 : Holds(i)
    BY <1>1
  <1>3. QED
    BY GalAnomalyBits, <1>2, Zenon DEF Part, a, Holds

\* The last part.
GalEnd == <<SD(24, 24), SD(10, 10), SD(10, 10), U8(2, 2), Spare(4, 4, 1), Crc24>>

\* Its bits.
LEMMA GalEndBits == GalEnd \in Seq(Field) /\ Len(GalEnd) = 6 /\ Bits(GalEnd) = 74
  <1> DEFINE a == GalEnd
  <1>1. a \in Seq(Field) /\ Len(a) = 6
    BY FieldForms DEF GalEnd
  <1>2. PICK sum : /\ sum[0] = 0 /\ Bits(a) = sum[Len(a)]
                   /\ \A i \in 1 .. Len(a) : sum[i] = sum[i - 1] + a[i].step
    BY <1>1, BitsLoop
  <1>3. a[1].step = 24 /\ a[2].step = 10 /\ a[3].step = 10 /\ a[4].step = 2 /\ a[5].step = 4
        /\ a[6].step = 24
    BY DEF GalEnd, SD, U8, Spare, Crc24, F
  <1> HIDE DEF a
  <1>4. sum[0] = 0
    BY <1>2, Zenon
  <1>5. \A i \in 1 .. 6 : sum[i] = sum[i - 1] + a[i].step
    BY <1>1, <1>2
  <1>6. sum[1] = sum[0] + a[1].step /\ sum[2] = sum[1] + a[2].step
        /\ sum[3] = sum[2] + a[3].step /\ sum[4] = sum[3] + a[4].step
        /\ sum[5] = sum[4] + a[5].step /\ sum[6] = sum[5] + a[6].step
    BY <1>5
  <1>7. sum[6] = 74
    BY ONLY <1>3, <1>6, <1>4, SMTT(40)
  <1>8. QED
    BY <1>1, <1>2, <1>7, Zenon DEF a

\* Its members.
LEMMA GalEndPart ==
  ASSUME NEW st,
         st[30] = 8, st[31] = 8, st[32] = 8, st[33] = 1, st[34] = 1, st[35] = 4
  PROVE  Part(GalEnd, st, 33, 29, 6)
  <1> DEFINE a == GalEnd
             Holds(i) == Fit(a[i], st[29 + i]) /\ (a[i].as = "spare" <=> 29 + i > 33)
  <1>1. Holds(1) /\ Holds(2) /\ Holds(3) /\ Holds(4) /\ Holds(5)
    BY DEF GalEnd, SD, U8, Spare, F, Fit
  <1>2. Holds(6)
    BY DEF GalEnd, Crc24, Spare, F, Fit
  <1> HIDE DEF a, Holds
  <1>3. \A i \in 1 .. 6 : Holds(i)
    BY <1>1, <1>2
  <1>4. QED
    BY GalEndBits, <1>3, Zenon DEF Part, a, Holds

\* Parts of the decoder of POSDATAB.
PosHead == <<U8(3, 3), U16(13, 13), UD(32, 32), I8(8, 8), U8(4, 4), U8(6, 6), U8(6, 6),
             LD(36, 36), LD(36, 36), LD(30, 30)>>

\* Its bits.
LEMMA PosHeadBits == PosHead \in Seq(Field) /\ Len(PosHead) = 10 /\ Bits(PosHead) = 174
  <1> DEFINE a == PosHead
  <1>1. a \in Seq(Field) /\ Len(a) = 10
    BY FieldForms DEF PosHead
  <1>2. PICK sum : /\ sum[0] = 0 /\ Bits(a) = sum[Len(a)]
                   /\ \A i \in 1 .. Len(a) : sum[i] = sum[i - 1] + a[i].step
    BY <1>1, BitsLoop
  <1>3. a[1].step = 3 /\ a[2].step = 13 /\ a[3].step = 32 /\ a[4].step = 8 /\ a[5].step = 4
        /\ a[6].step = 6 /\ a[7].step = 6 /\ a[8].step = 36 /\ a[9].step = 36 /\ a[10].step = 30
    BY DEF PosHead, U8, U16, UD, I8, LD, F
  <1> HIDE DEF a
  <1>4. sum[0] = 0
    BY <1>2, Zenon
  <1>5. \A i \in 1 .. 10 : sum[i] = sum[i - 1] + a[i].step
    BY <1>1, <1>2
  <1>6. sum[1] = sum[0] + a[1].step /\ sum[2] = sum[1] + a[2].step
        /\ sum[3] = sum[2] + a[3].step /\ sum[4] = sum[3] + a[4].step
        /\ sum[5] = sum[4] + a[5].step
    BY <1>5
  <1>7. sum[5] = 60
    BY ONLY <1>3, <1>6, <1>4, SMTT(40)
  <1>8. sum[6] = sum[5] + a[6].step /\ sum[7] = sum[6] + a[7].step
        /\ sum[8] = sum[7] + a[8].step /\ sum[9] = sum[8] + a[9].step
        /\ sum[10] = sum[9] + a[10].step
    BY <1>5
  <1>9. sum[10] = 174
    BY ONLY <1>3, <1>8, <1>7, SMTT(40)
  <1>10. QED
    BY <1>1, <1>2, <1>9, Zenon DEF a

\* Its members.
LEMMA PosHeadPart ==
  ASSUME NEW st,
         st[1] = 1, st[2] = 2, st[3] = 8, st[4] = 1, st[5] = 1, st[6] = 1, st[7] = 1, st[8] = 8,
         st[9] = 8, st[10] = 8
  PROVE  Part(PosHead, st, 34, 0, 10)
  <1> DEFINE a == PosHead
             Holds(i) == Fit(a[i], st[0 + i]) /\ (a[i].as = "spare" <=> 0 + i > 34)
  <1>1. Holds(1) /\ Holds(2) /\ Holds(3) /\ Holds(4) /\ Holds(5)
    BY DEF PosHead, U8, U16, UD, I8, F, Fit
  <1>2. Holds(6) /\ Holds(7) /\ Holds(8) /\ Holds(9) /\ Holds(10)
    BY DEF PosHead, U8, LD, F, Fit
  <1> HIDE DEF a, Holds
  <1>3. \A i \in 1 .. 10 : Holds(i)
    BY <1>1, <1>2
  <1>4. QED
    BY PosHeadBits, <1>3, Zenon DEF Part, a, Holds

\* The second part.
PosQuality == <<U8(8, 8), U8(8, 8), UD(16, 16), U8(1, 1), U8(3, 3)>>

\* Its bits.
LEMMA PosQualityBits == PosQuality \in Seq(Field) /\ Len(PosQuality) = 5 /\ Bits(PosQuality) = 36
  <1> DEFINE a == PosQuality
  <1>1. a \in Seq(Field) /\ Len(a) = 5
    BY FieldForms DEF PosQuality
  <1>2. PICK sum : /\ sum[0] = 0 /\ Bits(a) = sum[Len(a)]
                   /\ \A i \in 1 .. Len(a) : sum[i] = sum[i - 1] + a[i].step
    BY <1>1, BitsLoop
  <1>3. a[1].step = 8 /\ a[2].step = 8 /\ a[3].step = 16 /\ a[4].step = 1 /\ a[5].step = 3
    BY DEF PosQuality, U8, UD, F
  <1> HIDE DEF a
  <1>4. sum[0] = 0
    BY <1>2, Zenon
  <1>5. \A i \in 1 .. 5 : sum[i] = sum[i - 1] + a[i].step
    BY <1>1, <1>2
  <1>6. sum[1] = sum[0] + a[1].step /\ sum[2] = sum[1] + a[2].step
        /\ sum[3] = sum[2] + a[3].step /\ sum[4] = sum[3] + a[4].step
        /\ sum[5] = sum[4] + a[5].step
    BY <1>5
  <1>7. sum[5] = 36
    BY ONLY <1>3, <1>6, <1>4, SMTT(40)
  <1>8. QED
    BY <1>1, <1>2, <1>7, Zenon DEF a

\* Its members.
LEMMA PosQualityPart ==
  ASSUME NEW st,
         st[26] = 1, st[27] = 1, st[28] = 8, st[29] = 1, st[30] = 1
  PROVE  Part(PosQuality, st, 34, 25, 5)
  <1> DEFINE a == PosQuality
             Holds(i) == Fit(a[i], st[25 + i]) /\ (a[i].as = "spare" <=> 25 + i > 34)
  <1>1. Holds(1) /\ Holds(2) /\ Holds(3) /\ Holds(4) /\ Holds(5)
    BY DEF PosQuality, U8, UD, F, Fit
  <1> HIDE DEF a, Holds
  <1>2. \A i \in 1 .. 5 : Holds(i)
    BY <1>1
  <1>3. QED
    BY PosQualityBits, <1>2, Zenon DEF Part, a, Holds

\* The last part.
PosEnd == <<Spare(32, 32, 4), Spare(32, 32, 4), Crc24>>

\* Its bits.
LEMMA PosEndBits == PosEnd \in Seq(Field) /\ Len(PosEnd) = 3 /\ Bits(PosEnd) = 88
  <1> DEFINE a == PosEnd
  <1>1. a \in Seq(Field) /\ Len(a) = 3
    BY FieldForms DEF PosEnd
  <1>2. PICK sum : /\ sum[0] = 0 /\ Bits(a) = sum[Len(a)]
                   /\ \A i \in 1 .. Len(a) : sum[i] = sum[i - 1] + a[i].step
    BY <1>1, BitsLoop
  <1>3. a[1].step = 32 /\ a[2].step = 32 /\ a[3].step = 24
    BY DEF PosEnd, Spare, Crc24, F
  <1> HIDE DEF a
  <1>4. sum[0] = 0
    BY <1>2, Zenon
  <1>5. \A i \in 1 .. 3 : sum[i] = sum[i - 1] + a[i].step
    BY <1>1, <1>2
  <1>6. sum[1] = sum[0] + a[1].step /\ sum[2] = sum[1] + a[2].step
        /\ sum[3] = sum[2] + a[3].step
    BY <1>5
  <1>7. sum[3] = 88
    BY ONLY <1>3, <1>6, <1>4, SMTT(40)
  <1>8. QED
    BY <1>1, <1>2, <1>7, Zenon DEF a

\* Its members.
LEMMA PosEndPart ==
  ASSUME NEW st,
         st[35] = 4, st[36] = 4, st[37] = 4
  PROVE  Part(PosEnd, st, 34, 34, 3)
  <1> DEFINE a == PosEnd
             Holds(i) == Fit(a[i], st[34 + i]) /\ (a[i].as = "spare" <=> 34 + i > 34)
  <1>1. Holds(1) /\ Holds(2) /\ Holds(3)
    BY DEF PosEnd, Spare, Crc24, F, Fit
  <1> HIDE DEF a, Holds
  <1>2. \A i \in 1 .. 3 : Holds(i)
    BY <1>1
  <1>3. QED
    BY PosEndBits, <1>2, Zenon DEF Part, a, Holds

\* A struct: the members p, then doubles up to the j-th, then the members q.
Laid(st, p, j, q) ==
  /\ st \in Seq(Nat) /\ Len(st) = j + Len(q)
  /\ \A i \in 1 .. Len(p) : st[i] = p[i]
  /\ \A i \in Len(p) + 1 .. j : st[i] = 8
  /\ \A i \in 1 .. Len(q) : st[j + i] = q[i]

\* So it is when it is written that way.
LEMMA Layout ==
  ASSUME NEW p \in Seq(Nat), NEW k \in Nat, NEW q \in Seq(Nat), NEW j, j = Len(p) + k
  PROVE  Laid(p \o Times(k, 8) \o q, p, j, q)
  <1> DEFINE d == Times(k, 8)
             x == p \o d
             st == x \o q
  <1>1. d \in Seq(Nat) /\ Len(d) = k /\ \A i \in 1 .. k : d[i] = 8
    BY DEF Times
  <1> HIDE DEF d
  <1>2. /\ x \in Seq(Nat) /\ Len(x) = Len(p) + Len(d)
        /\ \A i \in 1 .. Len(p) + Len(d) : x[i] = IF i <= Len(p) THEN p[i] ELSE d[i - Len(p)]
    BY <1>1, ConcatProperties, Zenon
  <1> HIDE DEF x
  <1>9. x \in Seq(Nat)
    BY <1>2, Zenon
  <1>3. /\ st \in Seq(Nat) /\ Len(st) = Len(x) + Len(q)
        /\ \A i \in 1 .. Len(x) + Len(q) : st[i] = IF i <= Len(x) THEN x[i] ELSE q[i - Len(x)]
    BY <1>9, ConcatProperties, Zenon
  <1> HIDE DEF st
  <1>4. Len(p) \in Nat /\ Len(q) \in Nat /\ Len(x) = j
    BY <1>1, <1>2
  <1> DEFINE n == Len(p)
  <1> HIDE DEF n
  <1>5. ASSUME NEW i \in 1 .. n PROVE st[i] = p[i]
    <2>1. i \in 1 .. Len(x) + Len(q) /\ i <= Len(x) /\ i \in 1 .. n + Len(d) /\ i <= n
      BY <1>1, <1>2, <1>4 DEF n
    <2>2. QED
      BY <1>2, <1>3, <2>1 DEF n
  <1>6. ASSUME NEW i \in n + 1 .. j PROVE st[i] = 8
    <2>1. /\ i \in 1 .. Len(x) + Len(q) /\ i <= Len(x) /\ i \in 1 .. n + Len(d) /\ ~(i <= n)
          /\ i - n \in 1 .. k
      BY <1>1, <1>2, <1>4 DEF n
    <2>2. st[i] = x[i]
      BY <1>3, <2>1
    <2>3. x[i] = d[i - n]
      BY <1>2, <2>1 DEF n
    <2>4. QED
      BY <1>1, <2>1, <2>2, <2>3
  <1>7. ASSUME NEW i \in 1 .. Len(q) PROVE st[j + i] = q[i]
    <2>1. j + i \in 1 .. Len(x) + Len(q) /\ ~(j + i <= Len(x)) /\ (j + i) - Len(x) = i
      BY <1>4
    <2>2. QED
      BY <1>3, <2>1
  <1>8. Laid(st, p, j, q)
    BY <1>3, <1>4, <1>5, <1>6, <1>7, Zenon DEF Laid, n
  <1>10. QED
    BY <1>8, Zenon DEF st, x, d

\* w is a, then b.
Joining(w, a, b) ==
  /\ Len(w) = Len(a) + Len(b)
  /\ \A i \in 1 .. Len(a) : w[i] = a[i]
  /\ \A j \in 1 .. Len(b) : w[Len(a) + j] = b[j]

\* The elements of two sequences, one after the other.
LEMMA JoinedAt ==
  ASSUME NEW S, NEW a \in Seq(S), NEW b \in Seq(S)
  PROVE  a \o b \in Seq(S) /\ Joining(a \o b, a, b)
  BY DEF Joining

\* The last one.
LEMMA JoinedEnd ==
  ASSUME NEW S, NEW a \in Seq(S), NEW b \in Seq(S), NEW n \in Nat, n = Len(a) + Len(b), Len(b) > 0
  PROVE  (a \o b)[n] = b[Len(b)]
  OBVIOUS

\* A number of doubles.
LEMMA DoublesPart ==
  ASSUME NEW x \in Nat, x <= 64, NEW n \in Nat, NEW st, NEW m \in Nat, NEW o \in Nat, o + n <= m,
         \A i \in 1 .. n : st[o + i] = 8
  PROVE  /\ Part(Times(n, SD(x, x)), st, m, o, n) /\ Part(Times(n, WD(x, x)), st, m, o, n)
         /\ Part(Times(n, LD(x, x)), st, m, o, n)
  <1> DEFINE s == SD(x, x)
             w == WD(x, x)
             l == LD(x, x)
  <1>1. s \in Field /\ w \in Field /\ l \in Field
    BY FieldForms
  <1>2. /\ s.step = x /\ s.bits = x /\ s.size = 8 /\ s.as = "int32"
        /\ w.step = x /\ w.bits = x /\ w.size = 8 /\ w.as = "word"
        /\ l.step = x /\ l.bits = x /\ l.size = 8 /\ l.as = "int64"
    BY DEF SD, WD, LD, F
  <1> HIDE DEF s, w, l
  <1>3. s.as # "spare" /\ w.as # "spare" /\ l.as # "spare"
    BY <1>2
  <1>4. Fit(s, 8) /\ Fit(w, 8) /\ Fit(l, 8)
    BY <1>2 DEF Fit
  <1>5. \A i \in 1 .. n : /\ Fit(s, st[o + i]) /\ Fit(w, st[o + i]) /\ Fit(l, st[o + i])
                         /\ ~(o + i > m)
    BY <1>4
  <1>6. Part(Times(n, s), st, m, o, n)
    BY <1>1, <1>3, <1>5, PartTimes, Zenon
  <1>7. Part(Times(n, w), st, m, o, n)
    BY <1>1, <1>3, <1>5, PartTimes, Zenon
  <1>8. Part(Times(n, l), st, m, o, n)
    BY <1>1, <1>3, <1>5, PartTimes, Zenon
  <1>9. QED
    BY <1>6, <1>7, <1>8, Zenon DEF s, w, l

\* And their bits.
LEMMA DoublesBits ==
  ASSUME NEW x \in Nat, NEW n \in Nat
  PROVE  /\ Bits(Times(n, SD(x, x))) = n * x /\ Bits(Times(n, WD(x, x))) = n * x
         /\ Bits(Times(n, LD(x, x))) = n * x
  <1> DEFINE s == SD(x, x)
             w == WD(x, x)
             l == LD(x, x)
  <1>1. s \in Field /\ w \in Field /\ l \in Field
    BY FieldForms
  <1>2. s.step = x /\ w.step = x /\ l.step = x
    BY DEF SD, WD, LD, F
  <1> HIDE DEF s, w, l
  <1>3. Bits(Times(n, s)) = n * x /\ Bits(Times(n, w)) = n * x /\ Bits(Times(n, l)) = n * x
    BY <1>1, <1>2, TimesBits, Zenon
  <1>4. QED
    BY <1>3, Zenon DEF s, w, l

\* The members of its struct.
LEMMA GpsStruct ==
  ASSUME NEW st, st = GPSEPHB_Decoded_t
  PROVE  /\ st \in Seq(Nat) /\ Len(st) = 34
         /\ st[1] = 2 /\ st[2] = 4 /\ st[3] = 1 /\ st[4] = 1 /\ st[5] = 1 /\ st[6] = 2
            /\ st[7] = 2 /\ st[8] = 2 /\ st[9] = 8 /\ st[10] = 8 /\ st[11] = 8 /\ st[12] = 1
            /\ st[13] = 2
         /\ \A i \in 14 .. 29 : st[i] = 8
         /\ st[30] = 1 /\ st[31] = 1 /\ st[32] = 1 /\ st[33] = 1 /\ st[34] = 4
  <1> DEFINE p == <<2, 4, 1, 1, 1, 2, 2, 2, 8, 8, 8, 1, 2>>
             q == <<1, 1, 1, 1, 4>>
  <1>1. /\ p \in Seq(Nat) /\ Len(p) = 13
        /\ p[1] = 2 /\ p[2] = 4 /\ p[3] = 1 /\ p[4] = 1 /\ p[5] = 1 /\ p[6] = 2 /\ p[7] = 2
           /\ p[8] = 2 /\ p[9] = 8 /\ p[10] = 8 /\ p[11] = 8 /\ p[12] = 1 /\ p[13] = 2
    OBVIOUS
  <1>2. /\ q \in Seq(Nat) /\ Len(q) = 5
        /\ q[1] = 1 /\ q[2] = 1 /\ q[3] = 1 /\ q[4] = 1 /\ q[5] = 4
    OBVIOUS
  <1>3. st = p \o Times(16, 8) \o q
    BY Zenon DEF GPSEPHB_Decoded_t
  <1> HIDE DEF p, q
  <1>4. 16 \in Nat /\ 29 = Len(p) + 16
    BY <1>1
  <1>5. Laid(st, p, 29, q)
    BY <1>1, <1>2, <1>3, <1>4, Layout, Zenon
  <1>6. \A i \in 14 .. 29 : st[i] = 8
    <2>1. \A i \in Len(p) + 1 .. 29 : st[i] = 8
      BY <1>5, Zenon DEF Laid
    <2>2. Len(p) + 1 = 14
      BY <1>1
    <2>3. QED
      BY <2>1, <2>2, Zenon
  <1>7. st[1] = 2 /\ st[2] = 4 /\ st[3] = 1 /\ st[4] = 1 /\ st[5] = 1 /\ st[6] = 2 /\ st[7] = 2
    BY <1>1, <1>5 DEF Laid
  <1>8. st[8] = 2 /\ st[9] = 8 /\ st[10] = 8 /\ st[11] = 8 /\ st[12] = 1 /\ st[13] = 2
    BY <1>1, <1>5 DEF Laid
  <1>9. st[30] = 1 /\ st[31] = 1 /\ st[32] = 1 /\ st[33] = 1 /\ st[34] = 4
    BY <1>2, <1>5 DEF Laid
  <1>10. st \in Seq(Nat) /\ Len(st) = 34
    BY <1>2, <1>5 DEF Laid
  <1>11. QED
    BY <1>6, <1>7, <1>8, <1>9, <1>10

\* Every field fits its member.
LEMMA GpsFits ==
  Part(Gps, GPSEPHB_Decoded_t, 32, 0, 34) /\ Bits(Gps) = 536 /\ Gps[34].step = 24
  <1> DEFINE st == GPSEPHB_Decoded_t
  <1>1. /\ st \in Seq(Nat) /\ Len(st) = 34
        /\ st[1] = 2 /\ st[2] = 4 /\ st[3] = 1 /\ st[4] = 1 /\ st[5] = 1 /\ st[6] = 2
           /\ st[7] = 2 /\ st[8] = 2 /\ st[9] = 8 /\ st[10] = 8 /\ st[11] = 8 /\ st[12] = 1
           /\ st[13] = 2 /\ st[30] = 1 /\ st[31] = 1 /\ st[32] = 1 /\ st[33] = 1 /\ st[34] = 4
    BY GpsStruct, Zenon
  <1>2. \A i \in 14 .. 29 : st[i] = 8
    BY GpsStruct, Zenon
  <1> HIDE DEF st
  <1>3. Part(Moment, st, 32, 0, 2) /\ Bits(Moment) = 32
    <2>1. 32 \in Nat /\ 2 <= 32
      OBVIOUS
    <2>2. QED
      BY <1>1, <2>1, MomentPart, MomentBits, Zenon
  <1>4. Part(GpsOrbit, st, 32, 2, 12) /\ Bits(GpsOrbit) = 136
    <2>1. st[14] = 8
      BY <1>2
    <2>2. QED
      BY <1>1, <2>1, GpsOrbitPart, GpsOrbitBits, Zenon
  <1>5. Part(Times(7, SD(16, 16)), st, 32, 14, 7) /\ Bits(Times(7, SD(16, 16))) = 112
    <2>1. /\ 16 \in Nat /\ 16 <= 64 /\ 7 \in Nat /\ 32 \in Nat /\ 14 \in Nat
          /\ 14 + 7 <= 32
      OBVIOUS
    <2>2. \A i \in 1 .. 7 : st[14 + i] = 8
      BY <1>2
    <2>3. Part(Times(7, SD(16, 16)), st, 32, 14, 7)
      BY <2>1, <2>2, DoublesPart, Zenon
    <2>4. Bits(Times(7, SD(16, 16))) = 7 * 16
      BY <2>1, DoublesBits, Zenon
    <2>5. QED
      BY <2>3, <2>4
  <1>6. Part(GpsAnomaly, st, 32, 21, 3) /\ Bits(GpsAnomaly) = 96
    <2>1. st[22] = 8 /\ st[23] = 8 /\ st[24] = 8
      BY <1>2
    <2>2. QED
      BY <2>1, GpsAnomalyPart, GpsAnomalyBits, Zenon
  <1>7. Part(Times(3, SD(32, 32)), st, 32, 24, 3) /\ Bits(Times(3, SD(32, 32))) = 96
    <2>1. /\ 32 \in Nat /\ 32 <= 64 /\ 3 \in Nat /\ 32 \in Nat /\ 24 \in Nat
          /\ 24 + 3 <= 32
      OBVIOUS
    <2>2. \A i \in 1 .. 3 : st[24 + i] = 8
      BY <1>2
    <2>3. Part(Times(3, SD(32, 32)), st, 32, 24, 3)
      BY <2>1, <2>2, DoublesPart, Zenon
    <2>4. Bits(Times(3, SD(32, 32))) = 3 * 32
      BY <2>1, DoublesBits, Zenon
    <2>5. QED
      BY <2>3, <2>4
  <1>8. Part(GpsEnd, st, 32, 27, 7) /\ Bits(GpsEnd) = 64
    <2>1. st[28] = 8 /\ st[29] = 8
      BY <1>2
    <2>2. QED
      BY <1>1, <2>1, GpsEndPart, GpsEndBits, Zenon
  <1> DEFINE x1 == Moment
             x2 == GpsOrbit
             x3 == Times(7, SD(16, 16))
             x4 == GpsAnomaly
             x5 == Times(3, SD(32, 32))
             x6 == GpsEnd
             w2 == x1 \o x2
             w3 == w2 \o x3
             w4 == w3 \o x4
             w5 == w4 \o x5
             w6 == w5 \o x6
  <1>9. Gps = w6
    BY Zenon DEF Gps, GpsOrbit, GpsAnomaly, GpsEnd
  <1>10. Bits(x1) = 32 /\ Bits(x2) = 136 /\ Bits(x3) = 112 /\ Bits(x4) = 96 /\ Bits(x5) = 96
        /\ Bits(x6) = 64
    BY <1>3, <1>4, <1>5, <1>6, <1>7, <1>8, Zenon
  <1>11. Part(x1, st, 32, 0, 2)
    BY <1>3, Zenon
  <1>12. Part(x2, st, 32, 0 + 2, 12)
    BY <1>4
  <1>13. Part(x3, st, 32, 0 + 14, 7)
    BY <1>5
  <1>14. Part(x4, st, 32, 0 + 21, 3)
    BY <1>6
  <1>15. Part(x5, st, 32, 0 + 24, 3)
    BY <1>7
  <1>16. Part(x6, st, 32, 0 + 27, 7)
    BY <1>8
  <1>17. x6[7].step = 24
    BY DEF GpsEnd, Crc24, Spare, F
  <1> HIDE DEF x1, x2, x3, x4, x5, x6, w2, w3, w4, w5, w6
  <1>18. Part(w2, st, 32, 0, 14) /\ Bits(w2) = Bits(x1) + Bits(x2)
    <2>1. Part(x1 \o x2, st, 32, 0, 2 + 12)
      BY <1>11, <1>12, PartJoin, 0 \in Nat, Zenon
    <2>2. Bits(x1 \o x2) = Bits(x1) + Bits(x2)
      BY <1>11, <1>12, BitsJoin, Zenon DEF Part
    <2>3. QED
      BY <2>1, <2>2 DEF w2
  <1>19. Part(w3, st, 32, 0, 21) /\ Bits(w3) = Bits(w2) + Bits(x3)
    <2>1. Part(w2 \o x3, st, 32, 0, 14 + 7)
      BY <1>18, <1>13, PartJoin, 0 \in Nat, Zenon
    <2>2. Bits(w2 \o x3) = Bits(w2) + Bits(x3)
      BY <1>18, <1>13, BitsJoin, Zenon DEF Part
    <2>3. QED
      BY <2>1, <2>2 DEF w3
  <1>20. Part(w4, st, 32, 0, 24) /\ Bits(w4) = Bits(w3) + Bits(x4)
    <2>1. Part(w3 \o x4, st, 32, 0, 21 + 3)
      BY <1>19, <1>14, PartJoin, 0 \in Nat, Zenon
    <2>2. Bits(w3 \o x4) = Bits(w3) + Bits(x4)
      BY <1>19, <1>14, BitsJoin, Zenon DEF Part
    <2>3. QED
      BY <2>1, <2>2 DEF w4
  <1>21. Part(w5, st, 32, 0, 27) /\ Bits(w5) = Bits(w4) + Bits(x5)
    <2>1. Part(w4 \o x5, st, 32, 0, 24 + 3)
      BY <1>20, <1>15, PartJoin, 0 \in Nat, Zenon
    <2>2. Bits(w4 \o x5) = Bits(w4) + Bits(x5)
      BY <1>20, <1>15, BitsJoin, Zenon DEF Part
    <2>3. QED
      BY <2>1, <2>2 DEF w5
  <1>22. Part(w6, st, 32, 0, 34) /\ Bits(w6) = Bits(w5) + Bits(x6)
    <2>1. Part(w5 \o x6, st, 32, 0, 27 + 7)
      BY <1>21, <1>16, PartJoin, 0 \in Nat, Zenon
    <2>2. Bits(w5 \o x6) = Bits(w5) + Bits(x6)
      BY <1>21, <1>16, BitsJoin, Zenon DEF Part
    <2>3. QED
      BY <2>1, <2>2 DEF w6
  <1>23. Bits(w6) = 536
    BY <1>10, <1>18, <1>19, <1>20, <1>21, <1>22
  <1>24. w6[34].step = 24
    <2>1. w5 \in Seq(Field) /\ Len(w5) = 27
      BY <1>21, Zenon DEF Part
    <2>2. x6 \in Seq(Field) /\ Len(x6) = 7
      BY <1>16, Zenon DEF Part
    <2>3. w5 \in Seq(Field)
      BY <2>1, Zenon
    <2>4. x6 \in Seq(Field)
      BY <2>2, Zenon
    <2>5. 34 \in Nat /\ 34 = Len(w5) + Len(x6) /\ Len(x6) > 0
      BY <2>1, <2>2
    <2>6. (w5 \o x6)[34] = x6[Len(x6)]
      BY ONLY <2>3, <2>4, <2>5, JoinedEnd, SMT
    <2>7. QED
      BY <1>17, <2>2, <2>6, Zenon DEF w6
  <1>25. QED
    BY <1>24, <1>23, <1>22, <1>9, Zenon DEF st

\* The members of its struct.
LEMMA Bd2Struct ==
  ASSUME NEW st, st = BD2EPHB_Decoded_t
  PROVE  /\ st \in Seq(Nat) /\ Len(st) = 32
         /\ st[1] = 2 /\ st[2] = 4 /\ st[3] = 1 /\ st[4] = 1 /\ st[5] = 1 /\ st[6] = 2
            /\ st[7] = 4 /\ st[8] = 4 /\ st[9] = 8 /\ st[10] = 8 /\ st[11] = 8 /\ st[12] = 1
            /\ st[13] = 1
         /\ \A i \in 14 .. 30 : st[i] = 8
         /\ st[31] = 1 /\ st[32] = 4
  <1> DEFINE p == <<2, 4, 1, 1, 1, 2, 4, 4, 8, 8, 8, 1, 1>>
             q == <<1, 4>>
  <1>1. /\ p \in Seq(Nat) /\ Len(p) = 13
        /\ p[1] = 2 /\ p[2] = 4 /\ p[3] = 1 /\ p[4] = 1 /\ p[5] = 1 /\ p[6] = 2 /\ p[7] = 4
           /\ p[8] = 4 /\ p[9] = 8 /\ p[10] = 8 /\ p[11] = 8 /\ p[12] = 1 /\ p[13] = 1
    OBVIOUS
  <1>2. /\ q \in Seq(Nat) /\ Len(q) = 2
        /\ q[1] = 1 /\ q[2] = 4
    OBVIOUS
  <1>3. st = p \o Times(17, 8) \o q
    BY Zenon DEF BD2EPHB_Decoded_t
  <1> HIDE DEF p, q
  <1>4. 17 \in Nat /\ 30 = Len(p) + 17
    BY <1>1
  <1>5. Laid(st, p, 30, q)
    BY <1>1, <1>2, <1>3, <1>4, Layout, Zenon
  <1>6. \A i \in 14 .. 30 : st[i] = 8
    <2>1. \A i \in Len(p) + 1 .. 30 : st[i] = 8
      BY <1>5, Zenon DEF Laid
    <2>2. Len(p) + 1 = 14
      BY <1>1
    <2>3. QED
      BY <2>1, <2>2, Zenon
  <1>7. st[1] = 2 /\ st[2] = 4 /\ st[3] = 1 /\ st[4] = 1 /\ st[5] = 1 /\ st[6] = 2 /\ st[7] = 4
    BY <1>1, <1>5 DEF Laid
  <1>8. st[8] = 4 /\ st[9] = 8 /\ st[10] = 8 /\ st[11] = 8 /\ st[12] = 1 /\ st[13] = 1
    BY <1>1, <1>5 DEF Laid
  <1>9. st[31] = 1 /\ st[32] = 4
    BY <1>2, <1>5 DEF Laid
  <1>10. st \in Seq(Nat) /\ Len(st) = 32
    BY <1>2, <1>5 DEF Laid
  <1>11. QED
    BY <1>6, <1>7, <1>8, <1>9, <1>10

\* Every field fits its member.
LEMMA Bd2Fits ==
  Part(Bd2, BD2EPHB_Decoded_t, 30, 0, 32) /\ Bits(Bd2) = 560 /\ Bd2[32].step = 24
  <1> DEFINE st == BD2EPHB_Decoded_t
  <1>1. /\ st \in Seq(Nat) /\ Len(st) = 32
        /\ st[1] = 2 /\ st[2] = 4 /\ st[3] = 1 /\ st[4] = 1 /\ st[5] = 1 /\ st[6] = 2
           /\ st[7] = 4 /\ st[8] = 4 /\ st[9] = 8 /\ st[10] = 8 /\ st[11] = 8 /\ st[12] = 1
           /\ st[13] = 1 /\ st[31] = 1 /\ st[32] = 4
    BY Bd2Struct, Zenon
  <1>2. \A i \in 14 .. 30 : st[i] = 8
    BY Bd2Struct, Zenon
  <1> HIDE DEF st
  <1>3. Part(Moment, st, 30, 0, 2) /\ Bits(Moment) = 32
    <2>1. 30 \in Nat /\ 2 <= 30
      OBVIOUS
    <2>2. QED
      BY <1>1, <2>1, MomentPart, MomentBits, Zenon
  <1>4. Part(Bd2Orbit, st, 30, 2, 12) /\ Bits(Bd2Orbit) = 139
    <2>1. st[14] = 8
      BY <1>2
    <2>2. QED
      BY <1>1, <2>1, Bd2OrbitPart, Bd2OrbitBits, Zenon
  <1>5. Part(Times(6, SD(18, 18)), st, 30, 14, 6) /\ Bits(Times(6, SD(18, 18))) = 108
    <2>1. /\ 18 \in Nat /\ 18 <= 64 /\ 6 \in Nat /\ 30 \in Nat /\ 14 \in Nat
          /\ 14 + 6 <= 30
      OBVIOUS
    <2>2. \A i \in 1 .. 6 : st[14 + i] = 8
      BY <1>2
    <2>3. Part(Times(6, SD(18, 18)), st, 30, 14, 6)
      BY <2>1, <2>2, DoublesPart, Zenon
    <2>4. Bits(Times(6, SD(18, 18))) = 6 * 18
      BY <2>1, DoublesBits, Zenon
    <2>5. QED
      BY <2>3, <2>4
  <1>6. Part(Bd2Anomaly, st, 30, 20, 4) /\ Bits(Bd2Anomaly) = 112
    <2>1. st[21] = 8 /\ st[22] = 8 /\ st[23] = 8 /\ st[24] = 8
      BY <1>2
    <2>2. QED
      BY <2>1, Bd2AnomalyPart, Bd2AnomalyBits, Zenon
  <1>7. Part(Times(3, SD(32, 32)), st, 30, 24, 3) /\ Bits(Times(3, SD(32, 32))) = 96
    <2>1. /\ 32 \in Nat /\ 32 <= 64 /\ 3 \in Nat /\ 30 \in Nat /\ 24 \in Nat
          /\ 24 + 3 <= 30
      OBVIOUS
    <2>2. \A i \in 1 .. 3 : st[24 + i] = 8
      BY <1>2
    <2>3. Part(Times(3, SD(32, 32)), st, 30, 24, 3)
      BY <2>1, <2>2, DoublesPart, Zenon
    <2>4. Bits(Times(3, SD(32, 32))) = 3 * 32
      BY <2>1, DoublesBits, Zenon
    <2>5. QED
      BY <2>3, <2>4
  <1>8. Part(Bd2End, st, 30, 27, 5) /\ Bits(Bd2End) = 73
    <2>1. st[28] = 8 /\ st[29] = 8 /\ st[30] = 8
      BY <1>2
    <2>2. QED
      BY <1>1, <2>1, Bd2EndPart, Bd2EndBits, Zenon
  <1> DEFINE x1 == Moment
             x2 == Bd2Orbit
             x3 == Times(6, SD(18, 18))
             x4 == Bd2Anomaly
             x5 == Times(3, SD(32, 32))
             x6 == Bd2End
             w2 == x1 \o x2
             w3 == w2 \o x3
             w4 == w3 \o x4
             w5 == w4 \o x5
             w6 == w5 \o x6
  <1>9. Bd2 = w6
    BY Zenon DEF Bd2, Bd2Orbit, Bd2Anomaly, Bd2End
  <1>10. Bits(x1) = 32 /\ Bits(x2) = 139 /\ Bits(x3) = 108 /\ Bits(x4) = 112 /\ Bits(x5) = 96
        /\ Bits(x6) = 73
    BY <1>3, <1>4, <1>5, <1>6, <1>7, <1>8, Zenon
  <1>11. Part(x1, st, 30, 0, 2)
    BY <1>3, Zenon
  <1>12. Part(x2, st, 30, 0 + 2, 12)
    BY <1>4
  <1>13. Part(x3, st, 30, 0 + 14, 6)
    BY <1>5
  <1>14. Part(x4, st, 30, 0 + 20, 4)
    BY <1>6
  <1>15. Part(x5, st, 30, 0 + 24, 3)
    BY <1>7
  <1>16. Part(x6, st, 30, 0 + 27, 5)
    BY <1>8
  <1>17. x6[5].step = 24
    BY DEF Bd2End, Crc24, Spare, F
  <1> HIDE DEF x1, x2, x3, x4, x5, x6, w2, w3, w4, w5, w6
  <1>18. Part(w2, st, 30, 0, 14) /\ Bits(w2) = Bits(x1) + Bits(x2)
    <2>1. Part(x1 \o x2, st, 30, 0, 2 + 12)
      BY <1>11, <1>12, PartJoin, 0 \in Nat, Zenon
    <2>2. Bits(x1 \o x2) = Bits(x1) + Bits(x2)
      BY <1>11, <1>12, BitsJoin, Zenon DEF Part
    <2>3. QED
      BY <2>1, <2>2 DEF w2
  <1>19. Part(w3, st, 30, 0, 20) /\ Bits(w3) = Bits(w2) + Bits(x3)
    <2>1. Part(w2 \o x3, st, 30, 0, 14 + 6)
      BY <1>18, <1>13, PartJoin, 0 \in Nat, Zenon
    <2>2. Bits(w2 \o x3) = Bits(w2) + Bits(x3)
      BY <1>18, <1>13, BitsJoin, Zenon DEF Part
    <2>3. QED
      BY <2>1, <2>2 DEF w3
  <1>20. Part(w4, st, 30, 0, 24) /\ Bits(w4) = Bits(w3) + Bits(x4)
    <2>1. Part(w3 \o x4, st, 30, 0, 20 + 4)
      BY <1>19, <1>14, PartJoin, 0 \in Nat, Zenon
    <2>2. Bits(w3 \o x4) = Bits(w3) + Bits(x4)
      BY <1>19, <1>14, BitsJoin, Zenon DEF Part
    <2>3. QED
      BY <2>1, <2>2 DEF w4
  <1>21. Part(w5, st, 30, 0, 27) /\ Bits(w5) = Bits(w4) + Bits(x5)
    <2>1. Part(w4 \o x5, st, 30, 0, 24 + 3)
      BY <1>20, <1>15, PartJoin, 0 \in Nat, Zenon
    <2>2. Bits(w4 \o x5) = Bits(w4) + Bits(x5)
      BY <1>20, <1>15, BitsJoin, Zenon DEF Part
    <2>3. QED
      BY <2>1, <2>2 DEF w5
  <1>22. Part(w6, st, 30, 0, 32) /\ Bits(w6) = Bits(w5) + Bits(x6)
    <2>1. Part(w5 \o x6, st, 30, 0, 27 + 5)
      BY <1>21, <1>16, PartJoin, 0 \in Nat, Zenon
    <2>2. Bits(w5 \o x6) = Bits(w5) + Bits(x6)
      BY <1>21, <1>16, BitsJoin, Zenon DEF Part
    <2>3. QED
      BY <2>1, <2>2 DEF w6
  <1>23. Bits(w6) = 560
    BY <1>10, <1>18, <1>19, <1>20, <1>21, <1>22
  <1>24. w6[32].step = 24
    <2>1. w5 \in Seq(Field) /\ Len(w5) = 27
      BY <1>21, Zenon DEF Part
    <2>2. x6 \in Seq(Field) /\ Len(x6) = 5
      BY <1>16, Zenon DEF Part
    <2>3. w5 \in Seq(Field)
      BY <2>1, Zenon
    <2>4. x6 \in Seq(Field)
      BY <2>2, Zenon
    <2>5. 32 \in Nat /\ 32 = Len(w5) + Len(x6) /\ Len(x6) > 0
      BY <2>1, <2>2
    <2>6. (w5 \o x6)[32] = x6[Len(x6)]
      BY ONLY <2>3, <2>4, <2>5, JoinedEnd, SMT
    <2>7. QED
      BY <1>17, <2>2, <2>6, Zenon DEF w6
  <1>25. QED
    BY <1>24, <1>23, <1>22, <1>9, Zenon DEF st

\* The members of its struct.
LEMMA Bd3Struct ==
  ASSUME NEW st, st = BD3EPHB_Decoded_t
  PROVE  /\ st \in Seq(Nat) /\ Len(st) = 34
         /\ st[1] = 2 /\ st[2] = 4 /\ st[3] = 1 /\ st[4] = 1 /\ st[5] = 2 /\ st[6] = 4
            /\ st[7] = 4 /\ st[8] = 8 /\ st[9] = 8 /\ st[10] = 8 /\ st[11] = 1 /\ st[12] = 2
         /\ \A i \in 13 .. 32 : st[i] = 8
         /\ st[33] = 1 /\ st[34] = 4
  <1> DEFINE p == <<2, 4, 1, 1, 2, 4, 4, 8, 8, 8, 1, 2>>
             q == <<1, 4>>
  <1>1. /\ p \in Seq(Nat) /\ Len(p) = 12
        /\ p[1] = 2 /\ p[2] = 4 /\ p[3] = 1 /\ p[4] = 1 /\ p[5] = 2 /\ p[6] = 4 /\ p[7] = 4
           /\ p[8] = 8 /\ p[9] = 8 /\ p[10] = 8 /\ p[11] = 1 /\ p[12] = 2
    OBVIOUS
  <1>2. /\ q \in Seq(Nat) /\ Len(q) = 2
        /\ q[1] = 1 /\ q[2] = 4
    OBVIOUS
  <1>3. st = p \o Times(20, 8) \o q
    BY Zenon DEF BD3EPHB_Decoded_t
  <1> HIDE DEF p, q
  <1>4. 20 \in Nat /\ 32 = Len(p) + 20
    BY <1>1
  <1>5. Laid(st, p, 32, q)
    BY <1>1, <1>2, <1>3, <1>4, Layout, Zenon
  <1>6. \A i \in 13 .. 32 : st[i] = 8
    <2>1. \A i \in Len(p) + 1 .. 32 : st[i] = 8
      BY <1>5, Zenon DEF Laid
    <2>2. Len(p) + 1 = 13
      BY <1>1
    <2>3. QED
      BY <2>1, <2>2, Zenon
  <1>7. st[1] = 2 /\ st[2] = 4 /\ st[3] = 1 /\ st[4] = 1 /\ st[5] = 2 /\ st[6] = 4 /\ st[7] = 4
    BY <1>1, <1>5 DEF Laid
  <1>8. st[8] = 8 /\ st[9] = 8 /\ st[10] = 8 /\ st[11] = 1 /\ st[12] = 2
    BY <1>1, <1>5 DEF Laid
  <1>9. st[33] = 1 /\ st[34] = 4
    BY <1>2, <1>5 DEF Laid
  <1>10. st \in Seq(Nat) /\ Len(st) = 34
    BY <1>2, <1>5 DEF Laid
  <1>11. QED
    BY <1>6, <1>7, <1>8, <1>9, <1>10

\* Every field fits its member.
LEMMA Bd3Fits ==
  Part(Bd3, BD3EPHB_Decoded_t, 32, 0, 34) /\ Bits(Bd3) = 632 /\ Bd3[34].step = 24
  <1> DEFINE st == BD3EPHB_Decoded_t
  <1>1. /\ st \in Seq(Nat) /\ Len(st) = 34
        /\ st[1] = 2 /\ st[2] = 4 /\ st[3] = 1 /\ st[4] = 1 /\ st[5] = 2 /\ st[6] = 4
           /\ st[7] = 4 /\ st[8] = 8 /\ st[9] = 8 /\ st[10] = 8 /\ st[11] = 1 /\ st[12] = 2
           /\ st[33] = 1 /\ st[34] = 4
    BY Bd3Struct, Zenon
  <1>2. \A i \in 13 .. 32 : st[i] = 8
    BY Bd3Struct, Zenon
  <1> HIDE DEF st
  <1>3. Part(Moment, st, 32, 0, 2) /\ Bits(Moment) = 32
    <2>1. 32 \in Nat /\ 2 <= 32
      OBVIOUS
    <2>2. QED
      BY <1>1, <2>1, MomentPart, MomentBits, Zenon
  <1>4. Part(Bd3Orbit, st, 32, 2, 11) /\ Bits(Bd3Orbit) = 141
    <2>1. 32 \in Nat /\ 13 <= 32
      OBVIOUS
    <2>2. st[13] = 8
      BY <1>2
    <2>3. QED
      BY <1>1, <2>1, <2>2, Bd3OrbitPart, Bd3OrbitBits, Zenon
  <1>5. Part(Bd3Terms, st, 32, 13, 16) /\ Bits(Bd3Terms) = 397
    <2>1. 32 \in Nat /\ 29 <= 32
      OBVIOUS
    <2>2. st[14] = 8 /\ st[15] = 8 /\ st[16] = 8 /\ st[17] = 8 /\ st[18] = 8 /\ st[19] = 8
          /\ st[20] = 8 /\ st[21] = 8 /\ st[22] = 8 /\ st[23] = 8 /\ st[24] = 8 /\ st[25] = 8
          /\ st[26] = 8 /\ st[27] = 8 /\ st[28] = 8 /\ st[29] = 8
      BY <1>2
    <2>3. QED
      BY <2>1, <2>2, Bd3TermsPart, Bd3TermsBits, Zenon
  <1>6. Part(Times(3, LD(12, 12)), st, 32, 29, 3) /\ Bits(Times(3, LD(12, 12))) = 36
    <2>1. /\ 12 \in Nat /\ 12 <= 64 /\ 3 \in Nat /\ 32 \in Nat /\ 29 \in Nat
          /\ 29 + 3 <= 32
      OBVIOUS
    <2>2. \A i \in 1 .. 3 : st[29 + i] = 8
      BY <1>2
    <2>3. Part(Times(3, LD(12, 12)), st, 32, 29, 3)
      BY <2>1, <2>2, DoublesPart, Zenon
    <2>4. Bits(Times(3, LD(12, 12))) = 3 * 12
      BY <2>1, DoublesBits, Zenon
    <2>5. QED
      BY <2>3, <2>4
  <1>7. Part(Bd3End, st, 32, 32, 2) /\ Bits(Bd3End) = 26
    BY <1>1, Bd3EndPart, Bd3EndBits, Zenon
  <1> DEFINE x1 == Moment
             x2 == Bd3Orbit
             x3 == Bd3Terms
             x4 == Times(3, LD(12, 12))
             x5 == Bd3End
             w2 == x1 \o x2
             w3 == w2 \o x3
             w4 == w3 \o x4
             w5 == w4 \o x5
  <1>8. Bd3 = w5
    BY Zenon DEF Bd3, Bd3End
  <1>9. Bits(x1) = 32 /\ Bits(x2) = 141 /\ Bits(x3) = 397 /\ Bits(x4) = 36 /\ Bits(x5) = 26
    BY <1>3, <1>4, <1>5, <1>6, <1>7, Zenon
  <1>10. Part(x1, st, 32, 0, 2)
    BY <1>3, Zenon
  <1>11. Part(x2, st, 32, 0 + 2, 11)
    BY <1>4
  <1>12. Part(x3, st, 32, 0 + 13, 16)
    BY <1>5
  <1>13. Part(x4, st, 32, 0 + 29, 3)
    BY <1>6
  <1>14. Part(x5, st, 32, 0 + 32, 2)
    BY <1>7
  <1>15. x5[2].step = 24
    BY DEF Bd3End, Crc24, Spare, F
  <1> HIDE DEF x1, x2, x3, x4, x5, w2, w3, w4, w5
  <1>16. Part(w2, st, 32, 0, 13) /\ Bits(w2) = Bits(x1) + Bits(x2)
    <2>1. Part(x1 \o x2, st, 32, 0, 2 + 11)
      BY <1>10, <1>11, PartJoin, 0 \in Nat, Zenon
    <2>2. Bits(x1 \o x2) = Bits(x1) + Bits(x2)
      BY <1>10, <1>11, BitsJoin, Zenon DEF Part
    <2>3. QED
      BY <2>1, <2>2 DEF w2
  <1>17. Part(w3, st, 32, 0, 29) /\ Bits(w3) = Bits(w2) + Bits(x3)
    <2>1. Part(w2 \o x3, st, 32, 0, 13 + 16)
      BY <1>16, <1>12, PartJoin, 0 \in Nat, Zenon
    <2>2. Bits(w2 \o x3) = Bits(w2) + Bits(x3)
      BY <1>16, <1>12, BitsJoin, Zenon DEF Part
    <2>3. QED
      BY <2>1, <2>2 DEF w3
  <1>18. Part(w4, st, 32, 0, 32) /\ Bits(w4) = Bits(w3) + Bits(x4)
    <2>1. Part(w3 \o x4, st, 32, 0, 29 + 3)
      BY <1>17, <1>13, PartJoin, 0 \in Nat, Zenon
    <2>2. Bits(w3 \o x4) = Bits(w3) + Bits(x4)
      BY <1>17, <1>13, BitsJoin, Zenon DEF Part
    <2>3. QED
      BY <2>1, <2>2 DEF w4
  <1>19. Part(w5, st, 32, 0, 34) /\ Bits(w5) = Bits(w4) + Bits(x5)
    <2>1. Part(w4 \o x5, st, 32, 0, 32 + 2)
      BY <1>18, <1>14, PartJoin, 0 \in Nat, Zenon
    <2>2. Bits(w4 \o x5) = Bits(w4) + Bits(x5)
      BY <1>18, <1>14, BitsJoin, Zenon DEF Part
    <2>3. QED
      BY <2>1, <2>2 DEF w5
  <1>20. Bits(w5) = 632
    BY <1>9, <1>16, <1>17, <1>18, <1>19
  <1>21. w5[34].step = 24
    <2>1. w4 \in Seq(Field) /\ Len(w4) = 32
      BY <1>18, Zenon DEF Part
    <2>2. x5 \in Seq(Field) /\ Len(x5) = 2
      BY <1>14, Zenon DEF Part
    <2>3. w4 \in Seq(Field)
      BY <2>1, Zenon
    <2>4. x5 \in Seq(Field)
      BY <2>2, Zenon
    <2>5. 34 \in Nat /\ 34 = Len(w4) + Len(x5) /\ Len(x5) > 0
      BY <2>1, <2>2
    <2>6. (w4 \o x5)[34] = x5[Len(x5)]
      BY ONLY <2>3, <2>4, <2>5, JoinedEnd, SMT
    <2>7. QED
      BY <1>15, <2>2, <2>6, Zenon DEF w5
  <1>22. QED
    BY <1>21, <1>20, <1>19, <1>8, Zenon DEF st

\* The members of its struct.
LEMMA Bd3Cnav2Struct ==
  ASSUME NEW st, st = BD3CNAV2EPHB_Decoded_t
  PROVE  /\ st \in Seq(Nat) /\ Len(st) = 34
         /\ st[1] = 2 /\ st[2] = 4 /\ st[3] = 1 /\ st[4] = 1 /\ st[5] = 2 /\ st[6] = 4
            /\ st[7] = 4 /\ st[8] = 8 /\ st[9] = 8 /\ st[10] = 8 /\ st[11] = 1 /\ st[12] = 2
         /\ \A i \in 13 .. 32 : st[i] = 8
         /\ st[33] = 1 /\ st[34] = 4
  <1> DEFINE p == <<2, 4, 1, 1, 2, 4, 4, 8, 8, 8, 1, 2>>
             q == <<1, 4>>
  <1>1. /\ p \in Seq(Nat) /\ Len(p) = 12
        /\ p[1] = 2 /\ p[2] = 4 /\ p[3] = 1 /\ p[4] = 1 /\ p[5] = 2 /\ p[6] = 4 /\ p[7] = 4
           /\ p[8] = 8 /\ p[9] = 8 /\ p[10] = 8 /\ p[11] = 1 /\ p[12] = 2
    OBVIOUS
  <1>2. /\ q \in Seq(Nat) /\ Len(q) = 2
        /\ q[1] = 1 /\ q[2] = 4
    OBVIOUS
  <1>3. st = p \o Times(20, 8) \o q
    BY Zenon DEF BD3CNAV2EPHB_Decoded_t
  <1> HIDE DEF p, q
  <1>4. 20 \in Nat /\ 32 = Len(p) + 20
    BY <1>1
  <1>5. Laid(st, p, 32, q)
    BY <1>1, <1>2, <1>3, <1>4, Layout, Zenon
  <1>6. \A i \in 13 .. 32 : st[i] = 8
    <2>1. \A i \in Len(p) + 1 .. 32 : st[i] = 8
      BY <1>5, Zenon DEF Laid
    <2>2. Len(p) + 1 = 13
      BY <1>1
    <2>3. QED
      BY <2>1, <2>2, Zenon
  <1>7. st[1] = 2 /\ st[2] = 4 /\ st[3] = 1 /\ st[4] = 1 /\ st[5] = 2 /\ st[6] = 4 /\ st[7] = 4
    BY <1>1, <1>5 DEF Laid
  <1>8. st[8] = 8 /\ st[9] = 8 /\ st[10] = 8 /\ st[11] = 1 /\ st[12] = 2
    BY <1>1, <1>5 DEF Laid
  <1>9. st[33] = 1 /\ st[34] = 4
    BY <1>2, <1>5 DEF Laid
  <1>10. st \in Seq(Nat) /\ Len(st) = 34
    BY <1>2, <1>5 DEF Laid
  <1>11. QED
    BY <1>6, <1>7, <1>8, <1>9, <1>10

\* Every field fits its member.
LEMMA Bd3Cnav2Fits ==
  /\ Part(Bd3Cnav2, BD3CNAV2EPHB_Decoded_t, 32, 0, 34)
  /\ Bits(Bd3Cnav2) = 632
  /\ Bd3Cnav2[34].step = 24
  <1> DEFINE st == BD3CNAV2EPHB_Decoded_t
  <1>1. /\ st \in Seq(Nat) /\ Len(st) = 34
        /\ st[1] = 2 /\ st[2] = 4 /\ st[3] = 1 /\ st[4] = 1 /\ st[5] = 2 /\ st[6] = 4
           /\ st[7] = 4 /\ st[8] = 8 /\ st[9] = 8 /\ st[10] = 8 /\ st[11] = 1 /\ st[12] = 2
           /\ st[33] = 1 /\ st[34] = 4
    BY Bd3Cnav2Struct, Zenon
  <1>2. \A i \in 13 .. 32 : st[i] = 8
    BY Bd3Cnav2Struct, Zenon
  <1> HIDE DEF st
  <1>3. Part(Moment, st, 32, 0, 2) /\ Bits(Moment) = 32
    <2>1. 32 \in Nat /\ 2 <= 32
      OBVIOUS
    <2>2. QED
      BY <1>1, <2>1, MomentPart, MomentBits, Zenon
  <1>4. Part(Bd3Orbit, st, 32, 2, 11) /\ Bits(Bd3Orbit) = 141
    <2>1. 32 \in Nat /\ 13 <= 32
      OBVIOUS
    <2>2. st[13] = 8
      BY <1>2
    <2>3. QED
      BY <1>1, <2>1, <2>2, Bd3OrbitPart, Bd3OrbitBits, Zenon
  <1>5. Part(Bd3Terms, st, 32, 13, 16) /\ Bits(Bd3Terms) = 397
    <2>1. 32 \in Nat /\ 29 <= 32
      OBVIOUS
    <2>2. st[14] = 8 /\ st[15] = 8 /\ st[16] = 8 /\ st[17] = 8 /\ st[18] = 8 /\ st[19] = 8
          /\ st[20] = 8 /\ st[21] = 8 /\ st[22] = 8 /\ st[23] = 8 /\ st[24] = 8 /\ st[25] = 8
          /\ st[26] = 8 /\ st[27] = 8 /\ st[28] = 8 /\ st[29] = 8
      BY <1>2
    <2>3. QED
      BY <2>1, <2>2, Bd3TermsPart, Bd3TermsBits, Zenon
  <1>6. Part(Times(3, LD(12, 12)), st, 32, 29, 3) /\ Bits(Times(3, LD(12, 12))) = 36
    <2>1. /\ 12 \in Nat /\ 12 <= 64 /\ 3 \in Nat /\ 32 \in Nat /\ 29 \in Nat
          /\ 29 + 3 <= 32
      OBVIOUS
    <2>2. \A i \in 1 .. 3 : st[29 + i] = 8
      BY <1>2
    <2>3. Part(Times(3, LD(12, 12)), st, 32, 29, 3)
      BY <2>1, <2>2, DoublesPart, Zenon
    <2>4. Bits(Times(3, LD(12, 12))) = 3 * 12
      BY <2>1, DoublesBits, Zenon
    <2>5. QED
      BY <2>3, <2>4
  <1>7. Part(Bd3End, st, 32, 32, 2) /\ Bits(Bd3End) = 26
    BY <1>1, Bd3EndPart, Bd3EndBits, Zenon
  <1> DEFINE x1 == Moment
             x2 == Bd3Orbit
             x3 == Bd3Terms
             x4 == Times(3, LD(12, 12))
             x5 == Bd3End
             w2 == x1 \o x2
             w3 == w2 \o x3
             w4 == w3 \o x4
             w5 == w4 \o x5
  <1>8. Bd3Cnav2 = w5
    BY Zenon DEF Bd3Cnav2, Bd3End
  <1>9. Bits(x1) = 32 /\ Bits(x2) = 141 /\ Bits(x3) = 397 /\ Bits(x4) = 36 /\ Bits(x5) = 26
    BY <1>3, <1>4, <1>5, <1>6, <1>7, Zenon
  <1>10. Part(x1, st, 32, 0, 2)
    BY <1>3, Zenon
  <1>11. Part(x2, st, 32, 0 + 2, 11)
    BY <1>4
  <1>12. Part(x3, st, 32, 0 + 13, 16)
    BY <1>5
  <1>13. Part(x4, st, 32, 0 + 29, 3)
    BY <1>6
  <1>14. Part(x5, st, 32, 0 + 32, 2)
    BY <1>7
  <1>15. x5[2].step = 24
    BY DEF Bd3End, Crc24, Spare, F
  <1> HIDE DEF x1, x2, x3, x4, x5, w2, w3, w4, w5
  <1>16. Part(w2, st, 32, 0, 13) /\ Bits(w2) = Bits(x1) + Bits(x2)
    <2>1. Part(x1 \o x2, st, 32, 0, 2 + 11)
      BY <1>10, <1>11, PartJoin, 0 \in Nat, Zenon
    <2>2. Bits(x1 \o x2) = Bits(x1) + Bits(x2)
      BY <1>10, <1>11, BitsJoin, Zenon DEF Part
    <2>3. QED
      BY <2>1, <2>2 DEF w2
  <1>17. Part(w3, st, 32, 0, 29) /\ Bits(w3) = Bits(w2) + Bits(x3)
    <2>1. Part(w2 \o x3, st, 32, 0, 13 + 16)
      BY <1>16, <1>12, PartJoin, 0 \in Nat, Zenon
    <2>2. Bits(w2 \o x3) = Bits(w2) + Bits(x3)
      BY <1>16, <1>12, BitsJoin, Zenon DEF Part
    <2>3. QED
      BY <2>1, <2>2 DEF w3
  <1>18. Part(w4, st, 32, 0, 32) /\ Bits(w4) = Bits(w3) + Bits(x4)
    <2>1. Part(w3 \o x4, st, 32, 0, 29 + 3)
      BY <1>17, <1>13, PartJoin, 0 \in Nat, Zenon
    <2>2. Bits(w3 \o x4) = Bits(w3) + Bits(x4)
      BY <1>17, <1>13, BitsJoin, Zenon DEF Part
    <2>3. QED
      BY <2>1, <2>2 DEF w4
  <1>19. Part(w5, st, 32, 0, 34) /\ Bits(w5) = Bits(w4) + Bits(x5)
    <2>1. Part(w4 \o x5, st, 32, 0, 32 + 2)
      BY <1>18, <1>14, PartJoin, 0 \in Nat, Zenon
    <2>2. Bits(w4 \o x5) = Bits(w4) + Bits(x5)
      BY <1>18, <1>14, BitsJoin, Zenon DEF Part
    <2>3. QED
      BY <2>1, <2>2 DEF w5
  <1>20. Bits(w5) = 632
    BY <1>9, <1>16, <1>17, <1>18, <1>19
  <1>21. w5[34].step = 24
    <2>1. w4 \in Seq(Field) /\ Len(w4) = 32
      BY <1>18, Zenon DEF Part
    <2>2. x5 \in Seq(Field) /\ Len(x5) = 2
      BY <1>14, Zenon DEF Part
    <2>3. w4 \in Seq(Field)
      BY <2>1, Zenon
    <2>4. x5 \in Seq(Field)
      BY <2>2, Zenon
    <2>5. 34 \in Nat /\ 34 = Len(w4) + Len(x5) /\ Len(x5) > 0
      BY <2>1, <2>2
    <2>6. (w4 \o x5)[34] = x5[Len(x5)]
      BY ONLY <2>3, <2>4, <2>5, JoinedEnd, SMT
    <2>7. QED
      BY <1>15, <2>2, <2>6, Zenon DEF w5
  <1>22. QED
    BY <1>21, <1>20, <1>19, <1>8, Zenon DEF st

\* The members of its struct.
LEMMA Bd3Cnav3Struct ==
  ASSUME NEW st, st = BD3CNAV3EPHB_Decoded_t
  PROVE  /\ st \in Seq(Nat) /\ Len(st) = 32
         /\ st[1] = 2 /\ st[2] = 4 /\ st[3] = 1 /\ st[4] = 1 /\ st[5] = 2 /\ st[6] = 4
            /\ st[7] = 4 /\ st[8] = 8 /\ st[9] = 8 /\ st[10] = 8 /\ st[11] = 1 /\ st[12] = 2
         /\ \A i \in 13 .. 30 : st[i] = 8
         /\ st[31] = 4 /\ st[32] = 4
  <1> DEFINE p == <<2, 4, 1, 1, 2, 4, 4, 8, 8, 8, 1, 2>>
             q == <<4, 4>>
  <1>1. /\ p \in Seq(Nat) /\ Len(p) = 12
        /\ p[1] = 2 /\ p[2] = 4 /\ p[3] = 1 /\ p[4] = 1 /\ p[5] = 2 /\ p[6] = 4 /\ p[7] = 4
           /\ p[8] = 8 /\ p[9] = 8 /\ p[10] = 8 /\ p[11] = 1 /\ p[12] = 2
    OBVIOUS
  <1>2. /\ q \in Seq(Nat) /\ Len(q) = 2
        /\ q[1] = 4 /\ q[2] = 4
    OBVIOUS
  <1>3. st = p \o Times(18, 8) \o q
    BY Zenon DEF BD3CNAV3EPHB_Decoded_t
  <1> HIDE DEF p, q
  <1>4. 18 \in Nat /\ 30 = Len(p) + 18
    BY <1>1
  <1>5. Laid(st, p, 30, q)
    BY <1>1, <1>2, <1>3, <1>4, Layout, Zenon
  <1>6. \A i \in 13 .. 30 : st[i] = 8
    <2>1. \A i \in Len(p) + 1 .. 30 : st[i] = 8
      BY <1>5, Zenon DEF Laid
    <2>2. Len(p) + 1 = 13
      BY <1>1
    <2>3. QED
      BY <2>1, <2>2, Zenon
  <1>7. st[1] = 2 /\ st[2] = 4 /\ st[3] = 1 /\ st[4] = 1 /\ st[5] = 2 /\ st[6] = 4 /\ st[7] = 4
    BY <1>1, <1>5 DEF Laid
  <1>8. st[8] = 8 /\ st[9] = 8 /\ st[10] = 8 /\ st[11] = 1 /\ st[12] = 2
    BY <1>1, <1>5 DEF Laid
  <1>9. st[31] = 4 /\ st[32] = 4
    BY <1>2, <1>5 DEF Laid
  <1>10. st \in Seq(Nat) /\ Len(st) = 32
    BY <1>2, <1>5 DEF Laid
  <1>11. QED
    BY <1>6, <1>7, <1>8, <1>9, <1>10

\* Every field fits its member.
LEMMA Bd3Cnav3Fits ==
  /\ Part(Bd3Cnav3, BD3CNAV3EPHB_Decoded_t, 30, 0, 32)
  /\ Bits(Bd3Cnav3) = 632
  /\ Bd3Cnav3[32].step = 24
  <1> DEFINE st == BD3CNAV3EPHB_Decoded_t
  <1>1. /\ st \in Seq(Nat) /\ Len(st) = 32
        /\ st[1] = 2 /\ st[2] = 4 /\ st[3] = 1 /\ st[4] = 1 /\ st[5] = 2 /\ st[6] = 4
           /\ st[7] = 4 /\ st[8] = 8 /\ st[9] = 8 /\ st[10] = 8 /\ st[11] = 1 /\ st[12] = 2
           /\ st[31] = 4 /\ st[32] = 4
    BY Bd3Cnav3Struct, Zenon
  <1>2. \A i \in 13 .. 30 : st[i] = 8
    BY Bd3Cnav3Struct, Zenon
  <1> HIDE DEF st
  <1>3. Part(Moment, st, 30, 0, 2) /\ Bits(Moment) = 32
    <2>1. 30 \in Nat /\ 2 <= 30
      OBVIOUS
    <2>2. QED
      BY <1>1, <2>1, MomentPart, MomentBits, Zenon
  <1>4. Part(Bd3Orbit, st, 30, 2, 11) /\ Bits(Bd3Orbit) = 141
    <2>1. 30 \in Nat /\ 13 <= 30
      OBVIOUS
    <2>2. st[13] = 8
      BY <1>2
    <2>3. QED
      BY <1>1, <2>1, <2>2, Bd3OrbitPart, Bd3OrbitBits, Zenon
  <1>5. Part(Bd3Terms, st, 30, 13, 16) /\ Bits(Bd3Terms) = 397
    <2>1. 30 \in Nat /\ 29 <= 30
      OBVIOUS
    <2>2. st[14] = 8 /\ st[15] = 8 /\ st[16] = 8 /\ st[17] = 8 /\ st[18] = 8 /\ st[19] = 8
          /\ st[20] = 8 /\ st[21] = 8 /\ st[22] = 8 /\ st[23] = 8 /\ st[24] = 8 /\ st[25] = 8
          /\ st[26] = 8 /\ st[27] = 8 /\ st[28] = 8 /\ st[29] = 8
      BY <1>2
    <2>3. QED
      BY <2>1, <2>2, Bd3TermsPart, Bd3TermsBits, Zenon
  <1>6. Part(Cnav3End, st, 30, 29, 3) /\ Bits(Cnav3End) = 62
    <2>1. st[30] = 8
      BY <1>2
    <2>2. QED
      BY <1>1, <2>1, Cnav3EndPart, Cnav3EndBits, Zenon
  <1> DEFINE x1 == Moment
             x2 == Bd3Orbit
             x3 == Bd3Terms
             x4 == Cnav3End
             w2 == x1 \o x2
             w3 == w2 \o x3
             w4 == w3 \o x4
  <1>7. Bd3Cnav3 = w4
    BY Zenon DEF Bd3Cnav3, Cnav3End
  <1>8. Bits(x1) = 32 /\ Bits(x2) = 141 /\ Bits(x3) = 397 /\ Bits(x4) = 62
    BY <1>3, <1>4, <1>5, <1>6, Zenon
  <1>9. Part(x1, st, 30, 0, 2)
    BY <1>3, Zenon
  <1>10. Part(x2, st, 30, 0 + 2, 11)
    BY <1>4
  <1>11. Part(x3, st, 30, 0 + 13, 16)
    BY <1>5
  <1>12. Part(x4, st, 30, 0 + 29, 3)
    BY <1>6
  <1>13. x4[3].step = 24
    BY DEF Cnav3End, Crc24, Spare, F
  <1> HIDE DEF x1, x2, x3, x4, w2, w3, w4
  <1>14. Part(w2, st, 30, 0, 13) /\ Bits(w2) = Bits(x1) + Bits(x2)
    <2>1. Part(x1 \o x2, st, 30, 0, 2 + 11)
      BY <1>9, <1>10, PartJoin, 0 \in Nat, Zenon
    <2>2. Bits(x1 \o x2) = Bits(x1) + Bits(x2)
      BY <1>9, <1>10, BitsJoin, Zenon DEF Part
    <2>3. QED
      BY <2>1, <2>2 DEF w2
  <1>15. Part(w3, st, 30, 0, 29) /\ Bits(w3) = Bits(w2) + Bits(x3)
    <2>1. Part(w2 \o x3, st, 30, 0, 13 + 16)
      BY <1>14, <1>11, PartJoin, 0 \in Nat, Zenon
    <2>2. Bits(w2 \o x3) = Bits(w2) + Bits(x3)
      BY <1>14, <1>11, BitsJoin, Zenon DEF Part
    <2>3. QED
      BY <2>1, <2>2 DEF w3
  <1>16. Part(w4, st, 30, 0, 32) /\ Bits(w4) = Bits(w3) + Bits(x4)
    <2>1. Part(w3 \o x4, st, 30, 0, 29 + 3)
      BY <1>15, <1>12, PartJoin, 0 \in Nat, Zenon
    <2>2. Bits(w3 \o x4) = Bits(w3) + Bits(x4)
      BY <1>15, <1>12, BitsJoin, Zenon DEF Part
    <2>3. QED
      BY <2>1, <2>2 DEF w4
  <1>17. Bits(w4) = 632
    BY <1>8, <1>14, <1>15, <1>16
  <1>18. w4[32].step = 24
    <2>1. w3 \in Seq(Field) /\ Len(w3) = 29
      BY <1>15, Zenon DEF Part
    <2>2. x4 \in Seq(Field) /\ Len(x4) = 3
      BY <1>12, Zenon DEF Part
    <2>3. w3 \in Seq(Field)
      BY <2>1, Zenon
    <2>4. x4 \in Seq(Field)
      BY <2>2, Zenon
    <2>5. 32 \in Nat /\ 32 = Len(w3) + Len(x4) /\ Len(x4) > 0
      BY <2>1, <2>2
    <2>6. (w3 \o x4)[32] = x4[Len(x4)]
      BY ONLY <2>3, <2>4, <2>5, JoinedEnd, SMT
    <2>7. QED
      BY <1>13, <2>2, <2>6, Zenon DEF w4
  <1>19. QED
    BY <1>18, <1>17, <1>16, <1>7, Zenon DEF st

\* The members of its struct.
LEMMA BdxwStruct ==
  ASSUME NEW st, st = BDXWEPHB_Decoded_t
  PROVE  /\ st \in Seq(Nat) /\ Len(st) = 34
         /\ st[1] = 2 /\ st[2] = 4 /\ st[3] = 1 /\ st[4] = 1 /\ st[5] = 2 /\ st[6] = 4
            /\ st[7] = 4 /\ st[8] = 8 /\ st[9] = 8 /\ st[10] = 1 /\ st[11] = 1
         /\ \A i \in 12 .. 33 : st[i] = 8
         /\ st[34] = 4
  <1> DEFINE p == <<2, 4, 1, 1, 2, 4, 4, 8, 8, 1, 1>>
             q == <<4>>
  <1>1. /\ p \in Seq(Nat) /\ Len(p) = 11
        /\ p[1] = 2 /\ p[2] = 4 /\ p[3] = 1 /\ p[4] = 1 /\ p[5] = 2 /\ p[6] = 4 /\ p[7] = 4
           /\ p[8] = 8 /\ p[9] = 8 /\ p[10] = 1 /\ p[11] = 1
    OBVIOUS
  <1>2. /\ q \in Seq(Nat) /\ Len(q) = 1
        /\ q[1] = 4
    OBVIOUS
  <1>3. st = p \o Times(22, 8) \o q
    BY Zenon DEF BDXWEPHB_Decoded_t
  <1> HIDE DEF p, q
  <1>4. 22 \in Nat /\ 33 = Len(p) + 22
    BY <1>1
  <1>5. Laid(st, p, 33, q)
    BY <1>1, <1>2, <1>3, <1>4, Layout, Zenon
  <1>6. \A i \in 12 .. 33 : st[i] = 8
    <2>1. \A i \in Len(p) + 1 .. 33 : st[i] = 8
      BY <1>5, Zenon DEF Laid
    <2>2. Len(p) + 1 = 12
      BY <1>1
    <2>3. QED
      BY <2>1, <2>2, Zenon
  <1>7. st[1] = 2 /\ st[2] = 4 /\ st[3] = 1 /\ st[4] = 1 /\ st[5] = 2 /\ st[6] = 4 /\ st[7] = 4
    BY <1>1, <1>5 DEF Laid
  <1>8. st[8] = 8 /\ st[9] = 8 /\ st[10] = 1 /\ st[11] = 1
    BY <1>1, <1>5 DEF Laid
  <1>9. st[34] = 4
    BY <1>2, <1>5 DEF Laid
  <1>10. st \in Seq(Nat) /\ Len(st) = 34
    BY <1>2, <1>5 DEF Laid
  <1>11. QED
    BY <1>6, <1>7, <1>8, <1>9, <1>10

\* Every field fits its member.
LEMMA BdxwFits ==
  Part(Bdxw, BDXWEPHB_Decoded_t, 32, 0, 34) /\ Bits(Bdxw) = 768 /\ Bdxw[34].step = 24
  <1> DEFINE st == BDXWEPHB_Decoded_t
  <1>1. /\ st \in Seq(Nat) /\ Len(st) = 34
        /\ st[1] = 2 /\ st[2] = 4 /\ st[3] = 1 /\ st[4] = 1 /\ st[5] = 2 /\ st[6] = 4
           /\ st[7] = 4 /\ st[8] = 8 /\ st[9] = 8 /\ st[10] = 1 /\ st[11] = 1 /\ st[34] = 4
    BY BdxwStruct, Zenon
  <1>2. \A i \in 12 .. 33 : st[i] = 8
    BY BdxwStruct, Zenon
  <1> HIDE DEF st
  <1>3. Part(Moment, st, 32, 0, 2) /\ Bits(Moment) = 32
    <2>1. 32 \in Nat /\ 2 <= 32
      OBVIOUS
    <2>2. QED
      BY <1>1, <2>1, MomentPart, MomentBits, Zenon
  <1>4. Part(BdxwOrbit, st, 32, 2, 9) /\ Bits(BdxwOrbit) = 112
    BY <1>1, BdxwOrbitPart, BdxwOrbitBits, Zenon
  <1>5. Part(BdxwTerms, st, 32, 11, 4) /\ Bits(BdxwTerms) = 102
    <2>1. st[12] = 8 /\ st[13] = 8 /\ st[14] = 8 /\ st[15] = 8
      BY <1>2
    <2>2. QED
      BY <2>1, BdxwTermsPart, BdxwTermsBits, Zenon
  <1>6. Part(Times(4, SD(21, 21)), st, 32, 15, 4) /\ Bits(Times(4, SD(21, 21))) = 84
    <2>1. /\ 21 \in Nat /\ 21 <= 64 /\ 4 \in Nat /\ 32 \in Nat /\ 15 \in Nat
          /\ 15 + 4 <= 32
      OBVIOUS
    <2>2. \A i \in 1 .. 4 : st[15 + i] = 8
      BY <1>2
    <2>3. Part(Times(4, SD(21, 21)), st, 32, 15, 4)
      BY <2>1, <2>2, DoublesPart, Zenon
    <2>4. Bits(Times(4, SD(21, 21))) = 4 * 21
      BY <2>1, DoublesBits, Zenon
    <2>5. QED
      BY <2>3, <2>4
  <1>7. Part(BdxwEnd, st, 32, 19, 15) /\ Bits(BdxwEnd) = 438
    <2>1. st[20] = 8 /\ st[21] = 8 /\ st[22] = 8 /\ st[23] = 8 /\ st[24] = 8 /\ st[25] = 8
          /\ st[26] = 8 /\ st[27] = 8 /\ st[28] = 8 /\ st[29] = 8 /\ st[30] = 8 /\ st[31] = 8
          /\ st[32] = 8 /\ st[33] = 8
      BY <1>2
    <2>2. QED
      BY <1>1, <2>1, BdxwEndPart, BdxwEndBits, Zenon
  <1> DEFINE x1 == Moment
             x2 == BdxwOrbit
             x3 == BdxwTerms
             x4 == Times(4, SD(21, 21))
             x5 == BdxwEnd
             w2 == x1 \o x2
             w3 == w2 \o x3
             w4 == w3 \o x4
             w5 == w4 \o x5
  <1>8. Bdxw = w5
    BY Zenon DEF Bdxw, BdxwOrbit, BdxwTerms, BdxwEnd
  <1>9. Bits(x1) = 32 /\ Bits(x2) = 112 /\ Bits(x3) = 102 /\ Bits(x4) = 84 /\ Bits(x5) = 438
    BY <1>3, <1>4, <1>5, <1>6, <1>7, Zenon
  <1>10. Part(x1, st, 32, 0, 2)
    BY <1>3, Zenon
  <1>11. Part(x2, st, 32, 0 + 2, 9)
    BY <1>4
  <1>12. Part(x3, st, 32, 0 + 11, 4)
    BY <1>5
  <1>13. Part(x4, st, 32, 0 + 15, 4)
    BY <1>6
  <1>14. Part(x5, st, 32, 0 + 19, 15)
    BY <1>7
  <1>15. x5[15].step = 24
    BY DEF BdxwEnd, Crc24, Spare, F
  <1> HIDE DEF x1, x2, x3, x4, x5, w2, w3, w4, w5
  <1>16. Part(w2, st, 32, 0, 11) /\ Bits(w2) = Bits(x1) + Bits(x2)
    <2>1. Part(x1 \o x2, st, 32, 0, 2 + 9)
      BY <1>10, <1>11, PartJoin, 0 \in Nat, Zenon
    <2>2. Bits(x1 \o x2) = Bits(x1) + Bits(x2)
      BY <1>10, <1>11, BitsJoin, Zenon DEF Part
    <2>3. QED
      BY <2>1, <2>2 DEF w2
  <1>17. Part(w3, st, 32, 0, 15) /\ Bits(w3) = Bits(w2) + Bits(x3)
    <2>1. Part(w2 \o x3, st, 32, 0, 11 + 4)
      BY <1>16, <1>12, PartJoin, 0 \in Nat, Zenon
    <2>2. Bits(w2 \o x3) = Bits(w2) + Bits(x3)
      BY <1>16, <1>12, BitsJoin, Zenon DEF Part
    <2>3. QED
      BY <2>1, <2>2 DEF w3
  <1>18. Part(w4, st, 32, 0, 19) /\ Bits(w4) = Bits(w3) + Bits(x4)
    <2>1. Part(w3 \o x4, st, 32, 0, 15 + 4)
      BY <1>17, <1>13, PartJoin, 0 \in Nat, Zenon
    <2>2. Bits(w3 \o x4) = Bits(w3) + Bits(x4)
      BY <1>17, <1>13, BitsJoin, Zenon DEF Part
    <2>3. QED
      BY <2>1, <2>2 DEF w4
  <1>19. Part(w5, st, 32, 0, 34) /\ Bits(w5) = Bits(w4) + Bits(x5)
    <2>1. Part(w4 \o x5, st, 32, 0, 19 + 15)
      BY <1>18, <1>14, PartJoin, 0 \in Nat, Zenon
    <2>2. Bits(w4 \o x5) = Bits(w4) + Bits(x5)
      BY <1>18, <1>14, BitsJoin, Zenon DEF Part
    <2>3. QED
      BY <2>1, <2>2 DEF w5
  <1>20. Bits(w5) = 768
    BY <1>9, <1>16, <1>17, <1>18, <1>19
  <1>21. w5[34].step = 24
    <2>1. w4 \in Seq(Field) /\ Len(w4) = 19
      BY <1>18, Zenon DEF Part
    <2>2. x5 \in Seq(Field) /\ Len(x5) = 15
      BY <1>14, Zenon DEF Part
    <2>3. w4 \in Seq(Field)
      BY <2>1, Zenon
    <2>4. x5 \in Seq(Field)
      BY <2>2, Zenon
    <2>5. 34 \in Nat /\ 34 = Len(w4) + Len(x5) /\ Len(x5) > 0
      BY <2>1, <2>2
    <2>6. (w4 \o x5)[34] = x5[Len(x5)]
      BY ONLY <2>3, <2>4, <2>5, JoinedEnd, SMT
    <2>7. QED
      BY <1>15, <2>2, <2>6, Zenon DEF w5
  <1>22. QED
    BY <1>21, <1>20, <1>19, <1>8, Zenon DEF st

\* The members of its struct.
LEMMA GloStruct ==
  ASSUME NEW st, st = GLOEPHB_Decoded_t
  PROVE  /\ st \in Seq(Nat) /\ Len(st) = 21
         /\ st[1] = 2 /\ st[2] = 4 /\ st[3] = 1 /\ st[4] = 1 /\ st[5] = 1 /\ st[6] = 1
            /\ st[7] = 2 /\ st[8] = 2 /\ st[9] = 1
         /\ \A i \in 10 .. 20 : st[i] = 8
         /\ st[21] = 4
  <1> DEFINE p == <<2, 4, 1, 1, 1, 1, 2, 2, 1>>
             q == <<4>>
  <1>1. /\ p \in Seq(Nat) /\ Len(p) = 9
        /\ p[1] = 2 /\ p[2] = 4 /\ p[3] = 1 /\ p[4] = 1 /\ p[5] = 1 /\ p[6] = 1 /\ p[7] = 2
           /\ p[8] = 2 /\ p[9] = 1
    OBVIOUS
  <1>2. /\ q \in Seq(Nat) /\ Len(q) = 1
        /\ q[1] = 4
    OBVIOUS
  <1>3. st = p \o Times(11, 8) \o q
    BY Zenon DEF GLOEPHB_Decoded_t
  <1> HIDE DEF p, q
  <1>4. 11 \in Nat /\ 20 = Len(p) + 11
    BY <1>1
  <1>5. Laid(st, p, 20, q)
    BY <1>1, <1>2, <1>3, <1>4, Layout, Zenon
  <1>6. \A i \in 10 .. 20 : st[i] = 8
    <2>1. \A i \in Len(p) + 1 .. 20 : st[i] = 8
      BY <1>5, Zenon DEF Laid
    <2>2. Len(p) + 1 = 10
      BY <1>1
    <2>3. QED
      BY <2>1, <2>2, Zenon
  <1>7. st[1] = 2 /\ st[2] = 4 /\ st[3] = 1 /\ st[4] = 1 /\ st[5] = 1 /\ st[6] = 1 /\ st[7] = 2
    BY <1>1, <1>5 DEF Laid
  <1>8. st[8] = 2 /\ st[9] = 1
    BY <1>1, <1>5 DEF Laid
  <1>9. st[21] = 4
    BY <1>2, <1>5 DEF Laid
  <1>10. st \in Seq(Nat) /\ Len(st) = 21
    BY <1>2, <1>5 DEF Laid
  <1>11. QED
    BY <1>6, <1>7, <1>8, <1>9, <1>10

\* Every field fits its member.
LEMMA GloFits ==
  Part(Glo, GLOEPHB_Decoded_t, 20, 0, 21) /\ Bits(Glo) = 304 /\ Glo[21].step = 24
  <1> DEFINE st == GLOEPHB_Decoded_t
  <1>1. /\ st \in Seq(Nat) /\ Len(st) = 21
        /\ st[1] = 2 /\ st[2] = 4 /\ st[3] = 1 /\ st[4] = 1 /\ st[5] = 1 /\ st[6] = 1
           /\ st[7] = 2 /\ st[8] = 2 /\ st[9] = 1 /\ st[21] = 4
    BY GloStruct, Zenon
  <1>2. \A i \in 10 .. 20 : st[i] = 8
    BY GloStruct, Zenon
  <1> HIDE DEF st
  <1>3. Part(Moment, st, 20, 0, 2) /\ Bits(Moment) = 32
    <2>1. 20 \in Nat /\ 2 <= 20
      OBVIOUS
    <2>2. QED
      BY <1>1, <2>1, MomentPart, MomentBits, Zenon
  <1>4. Part(GloOrbit, st, 20, 2, 9) /\ Bits(GloOrbit) = 80
    <2>1. st[10] = 8 /\ st[11] = 8
      BY <1>2
    <2>2. QED
      BY <1>1, <2>1, GloOrbitPart, GloOrbitBits, Zenon
  <1>5. Part(GloAxis, st, 20, 11, 3) /\ Bits(GloAxis) = 56
    <2>1. 20 \in Nat /\ 11 \in Nat /\ 11 + 3 <= 20
      OBVIOUS
    <2>2. st[11 + 1] = 8 /\ st[11 + 2] = 8 /\ st[11 + 3] = 8
      BY <1>2
    <2>3. QED
      BY <2>1, <2>2, GloAxisPart, GloAxisBits, Zenon
  <1>6. Part(GloAxis, st, 20, 14, 3) /\ Bits(GloAxis) = 56
    <2>1. 20 \in Nat /\ 14 \in Nat /\ 14 + 3 <= 20
      OBVIOUS
    <2>2. st[14 + 1] = 8 /\ st[14 + 2] = 8 /\ st[14 + 3] = 8
      BY <1>2
    <2>3. QED
      BY <2>1, <2>2, GloAxisPart, GloAxisBits, Zenon
  <1>7. Part(GloAxis, st, 20, 17, 3) /\ Bits(GloAxis) = 56
    <2>1. 20 \in Nat /\ 17 \in Nat /\ 17 + 3 <= 20
      OBVIOUS
    <2>2. st[17 + 1] = 8 /\ st[17 + 2] = 8 /\ st[17 + 3] = 8
      BY <1>2
    <2>3. QED
      BY <2>1, <2>2, GloAxisPart, GloAxisBits, Zenon
  <1>8. Part(GloEnd, st, 20, 20, 1) /\ Bits(GloEnd) = 24
    BY <1>1, GloEndPart, GloEndBits, Zenon
  <1> DEFINE x1 == Moment
             x2 == GloOrbit
             x3 == GloAxis
             x4 == GloAxis
             x5 == GloAxis
             x6 == GloEnd
             w2 == x1 \o x2
             w3 == w2 \o x3
             w4 == w3 \o x4
             w5 == w4 \o x5
             w6 == w5 \o x6
  <1>9. Glo = w6
    BY Zenon DEF Glo, GloOrbit, GloEnd
  <1>10. Bits(x1) = 32 /\ Bits(x2) = 80 /\ Bits(x3) = 56 /\ Bits(x4) = 56 /\ Bits(x5) = 56
        /\ Bits(x6) = 24
    BY <1>3, <1>4, <1>5, <1>6, <1>7, <1>8, Zenon
  <1>11. Part(x1, st, 20, 0, 2)
    BY <1>3, Zenon
  <1>12. Part(x2, st, 20, 0 + 2, 9)
    BY <1>4
  <1>13. Part(x3, st, 20, 0 + 11, 3)
    BY <1>5
  <1>14. Part(x4, st, 20, 0 + 14, 3)
    BY <1>6
  <1>15. Part(x5, st, 20, 0 + 17, 3)
    BY <1>7
  <1>16. Part(x6, st, 20, 0 + 20, 1)
    BY <1>8
  <1>17. x6[1].step = 24
    BY DEF GloEnd, Crc24, Spare, F
  <1> HIDE DEF x1, x2, x3, x4, x5, x6, w2, w3, w4, w5, w6
  <1>18. Part(w2, st, 20, 0, 11) /\ Bits(w2) = Bits(x1) + Bits(x2)
    <2>1. Part(x1 \o x2, st, 20, 0, 2 + 9)
      BY <1>11, <1>12, PartJoin, 0 \in Nat, Zenon
    <2>2. Bits(x1 \o x2) = Bits(x1) + Bits(x2)
      BY <1>11, <1>12, BitsJoin, Zenon DEF Part
    <2>3. QED
      BY <2>1, <2>2 DEF w2
  <1>19. Part(w3, st, 20, 0, 14) /\ Bits(w3) = Bits(w2) + Bits(x3)
    <2>1. Part(w2 \o x3, st, 20, 0, 11 + 3)
      BY <1>18, <1>13, PartJoin, 0 \in Nat, Zenon
    <2>2. Bits(w2 \o x3) = Bits(w2) + Bits(x3)
      BY <1>18, <1>13, BitsJoin, Zenon DEF Part
    <2>3. QED
      BY <2>1, <2>2 DEF w3
  <1>20. Part(w4, st, 20, 0, 17) /\ Bits(w4) = Bits(w3) + Bits(x4)
    <2>1. Part(w3 \o x4, st, 20, 0, 14 + 3)
      BY <1>19, <1>14, PartJoin, 0 \in Nat, Zenon
    <2>2. Bits(w3 \o x4) = Bits(w3) + Bits(x4)
      BY <1>19, <1>14, BitsJoin, Zenon DEF Part
    <2>3. QED
      BY <2>1, <2>2 DEF w4
  <1>21. Part(w5, st, 20, 0, 20) /\ Bits(w5) = Bits(w4) + Bits(x5)
    <2>1. Part(w4 \o x5, st, 20, 0, 17 + 3)
      BY <1>20, <1>15, PartJoin, 0 \in Nat, Zenon
    <2>2. Bits(w4 \o x5) = Bits(w4) + Bits(x5)
      BY <1>20, <1>15, BitsJoin, Zenon DEF Part
    <2>3. QED
      BY <2>1, <2>2 DEF w5
  <1>22. Part(w6, st, 20, 0, 21) /\ Bits(w6) = Bits(w5) + Bits(x6)
    <2>1. Part(w5 \o x6, st, 20, 0, 20 + 1)
      BY <1>21, <1>16, PartJoin, 0 \in Nat, Zenon
    <2>2. Bits(w5 \o x6) = Bits(w5) + Bits(x6)
      BY <1>21, <1>16, BitsJoin, Zenon DEF Part
    <2>3. QED
      BY <2>1, <2>2 DEF w6
  <1>23. Bits(w6) = 304
    BY <1>10, <1>18, <1>19, <1>20, <1>21, <1>22
  <1>24. w6[21].step = 24
    <2>1. w5 \in Seq(Field) /\ Len(w5) = 20
      BY <1>21, Zenon DEF Part
    <2>2. x6 \in Seq(Field) /\ Len(x6) = 1
      BY <1>16, Zenon DEF Part
    <2>3. w5 \in Seq(Field)
      BY <2>1, Zenon
    <2>4. x6 \in Seq(Field)
      BY <2>2, Zenon
    <2>5. 21 \in Nat /\ 21 = Len(w5) + Len(x6) /\ Len(x6) > 0
      BY <2>1, <2>2
    <2>6. (w5 \o x6)[21] = x6[Len(x6)]
      BY ONLY <2>3, <2>4, <2>5, JoinedEnd, SMT
    <2>7. QED
      BY <1>17, <2>2, <2>6, Zenon DEF w6
  <1>25. QED
    BY <1>24, <1>23, <1>22, <1>9, Zenon DEF st

\* The members of its struct.
LEMMA GalStruct ==
  ASSUME NEW st, st = GALEPHB_Decoded_t
  PROVE  /\ st \in Seq(Nat) /\ Len(st) = 35
         /\ st[1] = 2 /\ st[2] = 4 /\ st[3] = 1 /\ st[4] = 1 /\ st[5] = 1 /\ st[6] = 1
            /\ st[7] = 1 /\ st[8] = 1 /\ st[9] = 2 /\ st[10] = 4 /\ st[11] = 4 /\ st[12] = 8
            /\ st[13] = 8 /\ st[14] = 8 /\ st[15] = 2
         /\ \A i \in 16 .. 32 : st[i] = 8
         /\ st[33] = 1 /\ st[34] = 1 /\ st[35] = 4
  <1> DEFINE p == <<2, 4, 1, 1, 1, 1, 1, 1, 2, 4, 4, 8, 8, 8, 2>>
             q == <<1, 1, 4>>
  <1>1. /\ p \in Seq(Nat) /\ Len(p) = 15
        /\ p[1] = 2 /\ p[2] = 4 /\ p[3] = 1 /\ p[4] = 1 /\ p[5] = 1 /\ p[6] = 1 /\ p[7] = 1
           /\ p[8] = 1 /\ p[9] = 2 /\ p[10] = 4 /\ p[11] = 4 /\ p[12] = 8 /\ p[13] = 8
           /\ p[14] = 8 /\ p[15] = 2
    OBVIOUS
  <1>2. /\ q \in Seq(Nat) /\ Len(q) = 3
        /\ q[1] = 1 /\ q[2] = 1 /\ q[3] = 4
    OBVIOUS
  <1>3. st = p \o Times(17, 8) \o q
    BY Zenon DEF GALEPHB_Decoded_t
  <1> HIDE DEF p, q
  <1>4. 17 \in Nat /\ 32 = Len(p) + 17
    BY <1>1
  <1>5. Laid(st, p, 32, q)
    BY <1>1, <1>2, <1>3, <1>4, Layout, Zenon
  <1>6. \A i \in 16 .. 32 : st[i] = 8
    <2>1. \A i \in Len(p) + 1 .. 32 : st[i] = 8
      BY <1>5, Zenon DEF Laid
    <2>2. Len(p) + 1 = 16
      BY <1>1
    <2>3. QED
      BY <2>1, <2>2, Zenon
  <1>7. st[1] = 2 /\ st[2] = 4 /\ st[3] = 1 /\ st[4] = 1 /\ st[5] = 1 /\ st[6] = 1 /\ st[7] = 1
    BY <1>1, <1>5 DEF Laid
  <1>8. st[8] = 1 /\ st[9] = 2 /\ st[10] = 4 /\ st[11] = 4 /\ st[12] = 8 /\ st[13] = 8
        /\ st[14] = 8
    BY <1>1, <1>5 DEF Laid
  <1>9. st[15] = 2
    BY <1>1, <1>5 DEF Laid
  <1>10. st[33] = 1 /\ st[34] = 1 /\ st[35] = 4
    BY <1>2, <1>5 DEF Laid
  <1>11. st \in Seq(Nat) /\ Len(st) = 35
    BY <1>2, <1>5 DEF Laid
  <1>12. QED
    BY <1>6, <1>7, <1>8, <1>9, <1>10, <1>11

\* Every field fits its member.
LEMMA GalFits ==
  Part(Gal, GALEPHB_Decoded_t, 33, 0, 35) /\ Bits(Gal) = 552 /\ Gal[35].step = 24
  <1> DEFINE st == GALEPHB_Decoded_t
  <1>1. /\ st \in Seq(Nat) /\ Len(st) = 35
        /\ st[1] = 2 /\ st[2] = 4 /\ st[3] = 1 /\ st[4] = 1 /\ st[5] = 1 /\ st[6] = 1
           /\ st[7] = 1 /\ st[8] = 1 /\ st[9] = 2 /\ st[10] = 4 /\ st[11] = 4 /\ st[12] = 8
           /\ st[13] = 8 /\ st[14] = 8 /\ st[15] = 2 /\ st[33] = 1 /\ st[34] = 1 /\ st[35] = 4
    BY GalStruct, Zenon
  <1>2. \A i \in 16 .. 32 : st[i] = 8
    BY GalStruct, Zenon
  <1> HIDE DEF st
  <1>3. Part(Moment, st, 33, 0, 2) /\ Bits(Moment) = 32
    <2>1. 33 \in Nat /\ 2 <= 33
      OBVIOUS
    <2>2. QED
      BY <1>1, <2>1, MomentPart, MomentBits, Zenon
  <1>4. Part(GalOrbit, st, 33, 2, 14) /\ Bits(GalOrbit) = 142
    <2>1. st[16] = 8
      BY <1>2
    <2>2. QED
      BY <1>1, <2>1, GalOrbitPart, GalOrbitBits, Zenon
  <1>5. Part(Times(7, SD(16, 16)), st, 33, 16, 7) /\ Bits(Times(7, SD(16, 16))) = 112
    <2>1. /\ 16 \in Nat /\ 16 <= 64 /\ 7 \in Nat /\ 33 \in Nat /\ 16 \in Nat
          /\ 16 + 7 <= 33
      OBVIOUS
    <2>2. \A i \in 1 .. 7 : st[16 + i] = 8
      BY <1>2
    <2>3. Part(Times(7, SD(16, 16)), st, 33, 16, 7)
      BY <2>1, <2>2, DoublesPart, Zenon
    <2>4. Bits(Times(7, SD(16, 16))) = 7 * 16
      BY <2>1, DoublesBits, Zenon
    <2>5. QED
      BY <2>3, <2>4
  <1>6. Part(GalAnomaly, st, 33, 23, 3) /\ Bits(GalAnomaly) = 96
    <2>1. st[24] = 8 /\ st[25] = 8 /\ st[26] = 8
      BY <1>2
    <2>2. QED
      BY <2>1, GalAnomalyPart, GalAnomalyBits, Zenon
  <1>7. Part(Times(3, SD(32, 32)), st, 33, 26, 3) /\ Bits(Times(3, SD(32, 32))) = 96
    <2>1. /\ 32 \in Nat /\ 32 <= 64 /\ 3 \in Nat /\ 33 \in Nat /\ 26 \in Nat
          /\ 26 + 3 <= 33
      OBVIOUS
    <2>2. \A i \in 1 .. 3 : st[26 + i] = 8
      BY <1>2
    <2>3. Part(Times(3, SD(32, 32)), st, 33, 26, 3)
      BY <2>1, <2>2, DoublesPart, Zenon
    <2>4. Bits(Times(3, SD(32, 32))) = 3 * 32
      BY <2>1, DoublesBits, Zenon
    <2>5. QED
      BY <2>3, <2>4
  <1>8. Part(GalEnd, st, 33, 29, 6) /\ Bits(GalEnd) = 74
    <2>1. st[30] = 8 /\ st[31] = 8 /\ st[32] = 8
      BY <1>2
    <2>2. QED
      BY <1>1, <2>1, GalEndPart, GalEndBits, Zenon
  <1> DEFINE x1 == Moment
             x2 == GalOrbit
             x3 == Times(7, SD(16, 16))
             x4 == GalAnomaly
             x5 == Times(3, SD(32, 32))
             x6 == GalEnd
             w2 == x1 \o x2
             w3 == w2 \o x3
             w4 == w3 \o x4
             w5 == w4 \o x5
             w6 == w5 \o x6
  <1>9. Gal = w6
    BY Zenon DEF Gal, GalOrbit, GalAnomaly, GalEnd
  <1>10. Bits(x1) = 32 /\ Bits(x2) = 142 /\ Bits(x3) = 112 /\ Bits(x4) = 96 /\ Bits(x5) = 96
        /\ Bits(x6) = 74
    BY <1>3, <1>4, <1>5, <1>6, <1>7, <1>8, Zenon
  <1>11. Part(x1, st, 33, 0, 2)
    BY <1>3, Zenon
  <1>12. Part(x2, st, 33, 0 + 2, 14)
    BY <1>4
  <1>13. Part(x3, st, 33, 0 + 16, 7)
    BY <1>5
  <1>14. Part(x4, st, 33, 0 + 23, 3)
    BY <1>6
  <1>15. Part(x5, st, 33, 0 + 26, 3)
    BY <1>7
  <1>16. Part(x6, st, 33, 0 + 29, 6)
    BY <1>8
  <1>17. x6[6].step = 24
    BY DEF GalEnd, Crc24, Spare, F
  <1> HIDE DEF x1, x2, x3, x4, x5, x6, w2, w3, w4, w5, w6
  <1>18. Part(w2, st, 33, 0, 16) /\ Bits(w2) = Bits(x1) + Bits(x2)
    <2>1. Part(x1 \o x2, st, 33, 0, 2 + 14)
      BY <1>11, <1>12, PartJoin, 0 \in Nat, Zenon
    <2>2. Bits(x1 \o x2) = Bits(x1) + Bits(x2)
      BY <1>11, <1>12, BitsJoin, Zenon DEF Part
    <2>3. QED
      BY <2>1, <2>2 DEF w2
  <1>19. Part(w3, st, 33, 0, 23) /\ Bits(w3) = Bits(w2) + Bits(x3)
    <2>1. Part(w2 \o x3, st, 33, 0, 16 + 7)
      BY <1>18, <1>13, PartJoin, 0 \in Nat, Zenon
    <2>2. Bits(w2 \o x3) = Bits(w2) + Bits(x3)
      BY <1>18, <1>13, BitsJoin, Zenon DEF Part
    <2>3. QED
      BY <2>1, <2>2 DEF w3
  <1>20. Part(w4, st, 33, 0, 26) /\ Bits(w4) = Bits(w3) + Bits(x4)
    <2>1. Part(w3 \o x4, st, 33, 0, 23 + 3)
      BY <1>19, <1>14, PartJoin, 0 \in Nat, Zenon
    <2>2. Bits(w3 \o x4) = Bits(w3) + Bits(x4)
      BY <1>19, <1>14, BitsJoin, Zenon DEF Part
    <2>3. QED
      BY <2>1, <2>2 DEF w4
  <1>21. Part(w5, st, 33, 0, 29) /\ Bits(w5) = Bits(w4) + Bits(x5)
    <2>1. Part(w4 \o x5, st, 33, 0, 26 + 3)
      BY <1>20, <1>15, PartJoin, 0 \in Nat, Zenon
    <2>2. Bits(w4 \o x5) = Bits(w4) + Bits(x5)
      BY <1>20, <1>15, BitsJoin, Zenon DEF Part
    <2>3. QED
      BY <2>1, <2>2 DEF w5
  <1>22. Part(w6, st, 33, 0, 35) /\ Bits(w6) = Bits(w5) + Bits(x6)
    <2>1. Part(w5 \o x6, st, 33, 0, 29 + 6)
      BY <1>21, <1>16, PartJoin, 0 \in Nat, Zenon
    <2>2. Bits(w5 \o x6) = Bits(w5) + Bits(x6)
      BY <1>21, <1>16, BitsJoin, Zenon DEF Part
    <2>3. QED
      BY <2>1, <2>2 DEF w6
  <1>23. Bits(w6) = 552
    BY <1>10, <1>18, <1>19, <1>20, <1>21, <1>22
  <1>24. w6[35].step = 24
    <2>1. w5 \in Seq(Field) /\ Len(w5) = 29
      BY <1>21, Zenon DEF Part
    <2>2. x6 \in Seq(Field) /\ Len(x6) = 6
      BY <1>16, Zenon DEF Part
    <2>3. w5 \in Seq(Field)
      BY <2>1, Zenon
    <2>4. x6 \in Seq(Field)
      BY <2>2, Zenon
    <2>5. 35 \in Nat /\ 35 = Len(w5) + Len(x6) /\ Len(x6) > 0
      BY <2>1, <2>2
    <2>6. (w5 \o x6)[35] = x6[Len(x6)]
      BY ONLY <2>3, <2>4, <2>5, JoinedEnd, SMT
    <2>7. QED
      BY <1>17, <2>2, <2>6, Zenon DEF w6
  <1>25. QED
    BY <1>24, <1>23, <1>22, <1>9, Zenon DEF st

\* The members of its struct.
LEMMA PosdatabStruct ==
  ASSUME NEW st, st = POSDATAB_Decoded_t
  PROVE  /\ st \in Seq(Nat) /\ Len(st) = 37
         /\ st[1] = 1 /\ st[2] = 2 /\ st[3] = 8 /\ st[4] = 1 /\ st[5] = 1 /\ st[6] = 1 /\ st[7] = 1
         /\ \A i \in 8 .. 25 : st[i] = 8
         /\ st[26] = 1 /\ st[27] = 1 /\ st[28] = 8 /\ st[29] = 1 /\ st[30] = 1
         /\ \A i \in 31 .. 34 : st[i] = 8
         /\ st[35] = 4 /\ st[36] = 4 /\ st[37] = 4
  <1> DEFINE p == <<1, 2, 8, 1, 1, 1, 1>>
             q == <<1, 1, 8, 1, 1>>
             r == <<4, 4, 4>>
             x == p \o Times(18, 8) \o q
  <1>1. /\ p \in Seq(Nat) /\ Len(p) = 7
        /\ p[1] = 1 /\ p[2] = 2 /\ p[3] = 8 /\ p[4] = 1 /\ p[5] = 1 /\ p[6] = 1 /\ p[7] = 1
    OBVIOUS
  <1>2. /\ q \in Seq(Nat) /\ Len(q) = 5
        /\ q[1] = 1 /\ q[2] = 1 /\ q[3] = 8 /\ q[4] = 1 /\ q[5] = 1
    OBVIOUS
  <1>3. r \in Seq(Nat) /\ Len(r) = 3 /\ r[1] = 4 /\ r[2] = 4 /\ r[3] = 4
    OBVIOUS
  <1>4. st = x \o Times(4, 8) \o r
    BY Zenon DEF POSDATAB_Decoded_t
  <1> HIDE DEF p, q, r
  <1>5. 18 \in Nat /\ 25 = Len(p) + 18
    BY <1>1
  <1>6. Laid(x, p, 25, q)
    BY <1>1, <1>2, <1>5, Layout, Zenon
  <1> HIDE DEF x
  <1>7. x \in Seq(Nat) /\ Len(x) = 30
    BY <1>2, <1>6 DEF Laid
  <1>8. \A i \in 8 .. 25 : x[i] = 8
    <2>1. \A i \in Len(p) + 1 .. 25 : x[i] = 8
      BY <1>6, Zenon DEF Laid
    <2>2. Len(p) + 1 = 8
      BY <1>1
    <2>3. QED
      BY <2>1, <2>2, Zenon
  <1>9. x[1] = 1 /\ x[2] = 2 /\ x[3] = 8 /\ x[4] = 1 /\ x[5] = 1 /\ x[6] = 1 /\ x[7] = 1
    BY <1>1, <1>6 DEF Laid
  <1>10. x[26] = 1 /\ x[27] = 1 /\ x[28] = 8 /\ x[29] = 1 /\ x[30] = 1
    BY <1>2, <1>6 DEF Laid
  <1>11. 4 \in Nat /\ 34 = Len(x) + 4
    BY <1>7
  <1>12. Laid(st, x, 34, r)
    BY <1>3, <1>4, <1>7, <1>11, Layout, Zenon
  <1>13. st \in Seq(Nat) /\ Len(st) = 37
    BY <1>3, <1>12 DEF Laid
  <1>14. \A i \in 1 .. 30 : st[i] = x[i]
    <2>1. \A i \in 1 .. Len(x) : st[i] = x[i]
      BY <1>12, Zenon DEF Laid
    <2>2. QED
      BY <1>7, <2>1, Zenon
  <1>15. \A i \in 31 .. 34 : st[i] = 8
    <2>1. \A i \in Len(x) + 1 .. 34 : st[i] = 8
      BY <1>12, Zenon DEF Laid
    <2>2. Len(x) + 1 = 31
      BY <1>7
    <2>3. QED
      BY <2>1, <2>2, Zenon
  <1>16. st[35] = 4 /\ st[36] = 4 /\ st[37] = 4
    BY <1>3, <1>12 DEF Laid
  <1>17. \A i \in 8 .. 25 : st[i] = 8
    BY <1>8, <1>14
  <1>18. /\ st[1] = 1 /\ st[2] = 2 /\ st[3] = 8 /\ st[4] = 1 /\ st[5] = 1 /\ st[6] = 1
         /\ st[7] = 1
    BY <1>9, <1>14
  <1>19. st[26] = 1 /\ st[27] = 1 /\ st[28] = 8 /\ st[29] = 1 /\ st[30] = 1
    BY <1>10, <1>14
  <1>20. QED
    BY <1>13, <1>15, <1>16, <1>17, <1>18, <1>19

\* Every field fits its member.
LEMMA PosdatabFits ==
  Part(Posdatab, POSDATAB_Decoded_t, 34, 0, 37) /\ Bits(Posdatab) = 584 /\ Posdatab[37].step = 24
  <1> DEFINE st == POSDATAB_Decoded_t
  <1>1. /\ st \in Seq(Nat) /\ Len(st) = 37
        /\ st[1] = 1 /\ st[2] = 2 /\ st[3] = 8 /\ st[4] = 1 /\ st[5] = 1 /\ st[6] = 1
           /\ st[7] = 1 /\ st[26] = 1 /\ st[27] = 1 /\ st[28] = 8 /\ st[29] = 1 /\ st[30] = 1
           /\ st[35] = 4 /\ st[36] = 4 /\ st[37] = 4
    BY PosdatabStruct, Zenon
  <1>2. \A i \in 8 .. 25 : st[i] = 8
    BY PosdatabStruct, Zenon
  <1>3. \A i \in 31 .. 34 : st[i] = 8
    BY PosdatabStruct, Zenon
  <1> HIDE DEF st
  <1>4. Part(PosHead, st, 34, 0, 10) /\ Bits(PosHead) = 174
    <2>1. st[8] = 8 /\ st[9] = 8 /\ st[10] = 8
      BY <1>2
    <2>2. QED
      BY <1>1, <2>1, PosHeadPart, PosHeadBits, Zenon
  <1>5. Part(Times(6, WD(16, 16)), st, 34, 10, 6) /\ Bits(Times(6, WD(16, 16))) = 96
    <2>1. /\ 16 \in Nat /\ 16 <= 64 /\ 6 \in Nat /\ 34 \in Nat /\ 10 \in Nat
          /\ 10 + 6 <= 34
      OBVIOUS
    <2>2. \A i \in 1 .. 6 : st[10 + i] = 8
      BY <1>2
    <2>3. Part(Times(6, WD(16, 16)), st, 34, 10, 6)
      BY <2>1, <2>2, DoublesPart, Zenon
    <2>4. Bits(Times(6, WD(16, 16))) = 6 * 16
      BY <2>1, DoublesBits, Zenon
    <2>5. QED
      BY <2>3, <2>4
  <1>6. Part(Times(3, WD(18, 18)), st, 34, 16, 3) /\ Bits(Times(3, WD(18, 18))) = 54
    <2>1. /\ 18 \in Nat /\ 18 <= 64 /\ 3 \in Nat /\ 34 \in Nat /\ 16 \in Nat
          /\ 16 + 3 <= 34
      OBVIOUS
    <2>2. \A i \in 1 .. 3 : st[16 + i] = 8
      BY <1>2
    <2>3. Part(Times(3, WD(18, 18)), st, 34, 16, 3)
      BY <2>1, <2>2, DoublesPart, Zenon
    <2>4. Bits(Times(3, WD(18, 18))) = 3 * 18
      BY <2>1, DoublesBits, Zenon
    <2>5. QED
      BY <2>3, <2>4
  <1>7. Part(Times(6, WD(12, 12)), st, 34, 19, 6) /\ Bits(Times(6, WD(12, 12))) = 72
    <2>1. /\ 12 \in Nat /\ 12 <= 64 /\ 6 \in Nat /\ 34 \in Nat /\ 19 \in Nat
          /\ 19 + 6 <= 34
      OBVIOUS
    <2>2. \A i \in 1 .. 6 : st[19 + i] = 8
      BY <1>2
    <2>3. Part(Times(6, WD(12, 12)), st, 34, 19, 6)
      BY <2>1, <2>2, DoublesPart, Zenon
    <2>4. Bits(Times(6, WD(12, 12))) = 6 * 12
      BY <2>1, DoublesBits, Zenon
    <2>5. QED
      BY <2>3, <2>4
  <1>8. Part(PosQuality, st, 34, 25, 5) /\ Bits(PosQuality) = 36
    BY <1>1, PosQualityPart, PosQualityBits, Zenon
  <1>9. Part(Times(4, WD(16, 16)), st, 34, 30, 4) /\ Bits(Times(4, WD(16, 16))) = 64
    <2>1. /\ 16 \in Nat /\ 16 <= 64 /\ 4 \in Nat /\ 34 \in Nat /\ 30 \in Nat
          /\ 30 + 4 <= 34
      OBVIOUS
    <2>2. \A i \in 1 .. 4 : st[30 + i] = 8
      BY <1>3
    <2>3. Part(Times(4, WD(16, 16)), st, 34, 30, 4)
      BY <2>1, <2>2, DoublesPart, Zenon
    <2>4. Bits(Times(4, WD(16, 16))) = 4 * 16
      BY <2>1, DoublesBits, Zenon
    <2>5. QED
      BY <2>3, <2>4
  <1>10. Part(PosEnd, st, 34, 34, 3) /\ Bits(PosEnd) = 88
    BY <1>1, PosEndPart, PosEndBits, Zenon
  <1> DEFINE x1 == PosHead
             x2 == Times(6, WD(16, 16))
             x3 == Times(3, WD(18, 18))
             x4 == Times(6, WD(12, 12))
             x5 == PosQuality
             x6 == Times(4, WD(16, 16))
             x7 == PosEnd
             w2 == x1 \o x2
             w3 == w2 \o x3
             w4 == w3 \o x4
             w5 == w4 \o x5
             w6 == w5 \o x6
             w7 == w6 \o x7
  <1>11. Posdatab = w7
    BY Zenon DEF Posdatab, PosHead, PosQuality, PosEnd
  <1>12. Bits(x1) = 174 /\ Bits(x2) = 96 /\ Bits(x3) = 54 /\ Bits(x4) = 72 /\ Bits(x5) = 36
        /\ Bits(x6) = 64 /\ Bits(x7) = 88
    BY <1>4, <1>5, <1>6, <1>7, <1>8, <1>9, <1>10, Zenon
  <1>13. Part(x1, st, 34, 0, 10)
    BY <1>4, Zenon
  <1>14. Part(x2, st, 34, 0 + 10, 6)
    BY <1>5
  <1>15. Part(x3, st, 34, 0 + 16, 3)
    BY <1>6
  <1>16. Part(x4, st, 34, 0 + 19, 6)
    BY <1>7
  <1>17. Part(x5, st, 34, 0 + 25, 5)
    BY <1>8
  <1>18. Part(x6, st, 34, 0 + 30, 4)
    BY <1>9
  <1>19. Part(x7, st, 34, 0 + 34, 3)
    BY <1>10
  <1>20. x7[3].step = 24
    BY DEF PosEnd, Crc24, Spare, F
  <1> HIDE DEF x1, x2, x3, x4, x5, x6, x7, w2, w3, w4, w5, w6, w7
  <1>21. Part(w2, st, 34, 0, 16) /\ Bits(w2) = Bits(x1) + Bits(x2)
    <2>1. Part(x1 \o x2, st, 34, 0, 10 + 6)
      BY <1>13, <1>14, PartJoin, 0 \in Nat, Zenon
    <2>2. Bits(x1 \o x2) = Bits(x1) + Bits(x2)
      BY <1>13, <1>14, BitsJoin, Zenon DEF Part
    <2>3. QED
      BY <2>1, <2>2 DEF w2
  <1>22. Part(w3, st, 34, 0, 19) /\ Bits(w3) = Bits(w2) + Bits(x3)
    <2>1. Part(w2 \o x3, st, 34, 0, 16 + 3)
      BY <1>21, <1>15, PartJoin, 0 \in Nat, Zenon
    <2>2. Bits(w2 \o x3) = Bits(w2) + Bits(x3)
      BY <1>21, <1>15, BitsJoin, Zenon DEF Part
    <2>3. QED
      BY <2>1, <2>2 DEF w3
  <1>23. Part(w4, st, 34, 0, 25) /\ Bits(w4) = Bits(w3) + Bits(x4)
    <2>1. Part(w3 \o x4, st, 34, 0, 19 + 6)
      BY <1>22, <1>16, PartJoin, 0 \in Nat, Zenon
    <2>2. Bits(w3 \o x4) = Bits(w3) + Bits(x4)
      BY <1>22, <1>16, BitsJoin, Zenon DEF Part
    <2>3. QED
      BY <2>1, <2>2 DEF w4
  <1>24. Part(w5, st, 34, 0, 30) /\ Bits(w5) = Bits(w4) + Bits(x5)
    <2>1. Part(w4 \o x5, st, 34, 0, 25 + 5)
      BY <1>23, <1>17, PartJoin, 0 \in Nat, Zenon
    <2>2. Bits(w4 \o x5) = Bits(w4) + Bits(x5)
      BY <1>23, <1>17, BitsJoin, Zenon DEF Part
    <2>3. QED
      BY <2>1, <2>2 DEF w5
  <1>25. Part(w6, st, 34, 0, 34) /\ Bits(w6) = Bits(w5) + Bits(x6)
    <2>1. Part(w5 \o x6, st, 34, 0, 30 + 4)
      BY <1>24, <1>18, PartJoin, 0 \in Nat, Zenon
    <2>2. Bits(w5 \o x6) = Bits(w5) + Bits(x6)
      BY <1>24, <1>18, BitsJoin, Zenon DEF Part
    <2>3. QED
      BY <2>1, <2>2 DEF w6
  <1>26. Part(w7, st, 34, 0, 37) /\ Bits(w7) = Bits(w6) + Bits(x7)
    <2>1. Part(w6 \o x7, st, 34, 0, 34 + 3)
      BY <1>25, <1>19, PartJoin, 0 \in Nat, Zenon
    <2>2. Bits(w6 \o x7) = Bits(w6) + Bits(x7)
      BY <1>25, <1>19, BitsJoin, Zenon DEF Part
    <2>3. QED
      BY <2>1, <2>2 DEF w7
  <1>27. Bits(w7) = 584
    BY <1>12, <1>21, <1>22, <1>23, <1>24, <1>25, <1>26
  <1>28. w7[37].step = 24
    <2>1. w6 \in Seq(Field) /\ Len(w6) = 34
      BY <1>25, Zenon DEF Part
    <2>2. x7 \in Seq(Field) /\ Len(x7) = 3
      BY <1>19, Zenon DEF Part
    <2>3. w6 \in Seq(Field)
      BY <2>1, Zenon
    <2>4. x7 \in Seq(Field)
      BY <2>2, Zenon
    <2>5. 37 \in Nat /\ 37 = Len(w6) + Len(x7) /\ Len(x7) > 0
      BY <2>1, <2>2
    <2>6. (w6 \o x7)[37] = x7[Len(x7)]
      BY ONLY <2>3, <2>4, <2>5, JoinedEnd, SMT
    <2>7. QED
      BY <1>20, <2>2, <2>6, Zenon DEF w7
  <1>29. QED
    BY <1>28, <1>27, <1>26, <1>11, Zenon DEF st

-----------------------------------------------------------------------------
(* The members that are assigned *)

\* f joins the sequences over S one after the other.
Joins(f, S, seqs) ==
  /\ f[0] = <<>> /\ f[0] \in Seq(S)
  /\ \A i \in 1 .. Len(seqs) : f[i] = f[i - 1] \o seqs[i] /\ f[i] \in Seq(S)
  /\ FlattenSeq(seqs) = f[Len(seqs)]

\* That is what FlattenSeq does.
LEMMA FlattenSteps ==
  ASSUME NEW S, NEW seqs \in Seq(Seq(S))
  PROVE  \E f : Joins(f, S, seqs)
  <1> DEFINE n == Len(seqs)
  <1>1. n \in Nat /\ \A i \in 1 .. n : seqs[i] \in Seq(S)
    OBVIOUS
  <1>2. CASE n = 0
    <2> DEFINE f == [i \in {0} |-> <<>>]
    <2>1. f[0] = <<>> /\ f[0] \in Seq(S)
      OBVIOUS
    <2>2. FlattenSeq(seqs) = <<>>
      BY <1>2 DEF FlattenSeq
    <2> HIDE DEF f
    <2>3. Joins(f, S, seqs)
      BY <1>2, <2>1, <2>2 DEF Joins
    <2>4. QED
      BY <2>3, Zenon
  <1>3. CASE n > 0
    <2>1. PICK f : /\ f[1] = seqs[1]
                   /\ \A i \in 2 .. n : f[i] = f[i - 1] \o seqs[i]
                   /\ FlattenSeq(seqs) = f[n]
      BY <1>1, <1>3, FlattenLoop
    <2> DEFINE h == [i \in 0 .. n |-> IF i = 0 THEN <<>> ELSE f[i]]
    <2> HIDE DEF n
    <2>2. h[0] = <<>> /\ \A i \in 1 .. n : h[i] = f[i]
      BY <1>1
    <2> HIDE DEF h
    <2>3. ASSUME NEW i \in 1 .. n PROVE h[i] = h[i - 1] \o seqs[i]
      <3>1. CASE i = 1
        <4>1. h[i] = seqs[i] /\ h[i - 1] = <<>> /\ seqs[i] \in Seq(S)
          BY <1>1, <2>1, <2>2, <3>1
        <4> DEFINE s == seqs[i]
        <4>2. s = <<>> \o s
          <5>1. s \in Seq(S)
            BY <4>1
          <5> HIDE DEF s
          <5>2. QED
            BY <5>1, ConcatEmptySeq
        <4>3. QED
          BY <4>1, <4>2, Zenon
      <3>2. CASE i # 1
        <4>1. i \in 2 .. n /\ i - 1 \in 1 .. n
          BY <1>1, <3>2
        <4>2. f[i] = f[i - 1] \o seqs[i]
          BY <2>1, <4>1, Zenon
        <4>3. QED
          BY <2>2, <4>1, <4>2, Zenon
      <3>3. QED
        BY <3>1, <3>2
    <2> DEFINE P == {k \in 0 .. n : h[k] \in Seq(S)}
    <2>4. 0 \in P
      <3>1. <<>> \in Seq(S)
        OBVIOUS
      <3>2. h[0] \in Seq(S) /\ 0 \in 0 .. n
        BY <1>1, <2>2, <3>1
      <3>3. QED
        BY <3>2, Zenon
    <2>5. ASSUME NEW k \in 1 .. n, k - 1 \in P PROVE k \in P
      <3>1. h[k - 1] \in Seq(S) /\ seqs[k] \in Seq(S) /\ k \in 0 .. n
        BY <1>1, <2>5
      <3>2. h[k - 1] \o seqs[k] \in Seq(S)
        BY <3>1, ConcatProperties
      <3>3. QED
        BY <2>3, <3>1, <3>2, Zenon
    <2>6. P \in SUBSET (0 .. n)
      OBVIOUS
    <2>7. \A k \in 0 .. n : k \in P
      <3> HIDE DEF P
      <3>1. QED
        BY <1>1, <2>4, <2>5, <2>6, Upwards
    <2>8. \A i \in 0 .. n : h[i] \in Seq(S)
      BY <2>7, Zenon
    <2>9. \A i \in 1 .. n : h[i] \in Seq(S)
      BY <1>1, <2>8
    <2>10. FlattenSeq(seqs) = h[n]
      BY <1>1, <1>3, <2>1, <2>2
    <2>11. h[0] \in Seq(S)
      BY <2>2
    <2>12. Joins(h, S, seqs)
      BY <2>2, <2>3, <2>9, <2>10, <2>11, Zenon DEF n, Joins
    <2>13. QED
      BY <2>12, Zenon
  <1>4. QED
    <2> HIDE DEF n
    <2>1. n = 0 \/ n > 0
      BY <1>1
    <2>2. QED
      BY <1>2, <1>3, <2>1, Zenon

\* Which two of three sequences are joined first does not matter.
Regroups(p, q, u) == (p \o q) \o u = p \o (q \o u)

\* Sequences are joined in any order.
LEMMA Joined ==
  ASSUME NEW S, NEW p \in Seq(S), NEW q \in Seq(S), NEW u \in Seq(S)
  PROVE  Regroups(p, q, u)
  BY ConcatAssociative, SMTT(40) DEF Regroups

\* FlattenSeq of one list of sequences after another.
LEMMA FlattenJoin ==
  ASSUME NEW S, NEW x \in Seq(Seq(S)), NEW y \in Seq(Seq(S))
  PROVE  FlattenSeq(x \o y) = FlattenSeq(x) \o FlattenSeq(y)
  <1> DEFINE w == x \o y
             m == Len(x)
             n == Len(y)
             D == Seq(S)
  <1>1. m \in Nat /\ n \in Nat
    OBVIOUS
  <1>2. /\ w \in Seq(D) /\ Len(w) = m + n
        /\ \A i \in 1 .. m : w[i] = x[i]
        /\ \A i \in 1 .. n : w[m + i] = y[i]
    <2> HIDE DEF D
    <2>1. x \in Seq(D) /\ y \in Seq(D)
      BY DEF D
    <2>2. QED
      BY <2>1
  <1> HIDE DEF w
  <1>3. PICK f : Joins(f, S, x)
    BY FlattenSteps, Zenon
  <1>4. PICK g : Joins(g, S, y)
    BY FlattenSteps, Zenon
  <1>5. PICK h : Joins(h, S, w)
    BY <1>2, FlattenSteps, Zenon
  <1>20. /\ f[0] = <<>> /\ f[0] \in Seq(S)
         /\ \A i \in 1 .. m : f[i] = f[i - 1] \o x[i] /\ f[i] \in Seq(S)
         /\ FlattenSeq(x) = f[m]
    BY <1>3, Zenon DEF Joins
  <1>21. /\ g[0] = <<>> /\ g[0] \in Seq(S)
         /\ \A i \in 1 .. n : g[i] = g[i - 1] \o y[i] /\ g[i] \in Seq(S)
         /\ FlattenSeq(y) = g[n]
    BY <1>4, Zenon DEF Joins
  <1>22. /\ h[0] = <<>> /\ h[0] \in Seq(S)
         /\ \A i \in 1 .. Len(w) : h[i] = h[i - 1] \o w[i] /\ h[i] \in Seq(S)
         /\ FlattenSeq(w) = h[Len(w)]
    BY <1>5, Zenon DEF Joins
  <1>6. \A i \in 1 .. n : y[i] \in Seq(S)
    OBVIOUS
  <1> HIDE DEF m, n, D
  <1>7. \A k \in 0 .. m : f[k] \in Seq(S)
    <2>1. ASSUME NEW k \in 0 .. m PROVE f[k] \in Seq(S)
      <3>1. k = 0 \/ k \in 1 .. m
        BY <1>1
      <3>2. QED
        BY <1>20, <3>1, Zenon
    <2>2. QED
      BY <2>1
  <1>8. \A k \in 0 .. n : g[k] \in Seq(S)
    <2>1. ASSUME NEW k \in 0 .. n PROVE g[k] \in Seq(S)
      <3>1. k = 0 \/ k \in 1 .. n
        BY <1>1
      <3>2. QED
        BY <1>21, <3>1, Zenon
    <2>2. QED
      BY <2>1
  <1>9. h[m] = f[m]
    <2> DEFINE P == {k \in 0 .. m : h[k] = f[k]}
    <2>1. 0 \in P
      BY <1>1, <1>20, <1>22
    <2>2. ASSUME NEW k \in 1 .. m, k - 1 \in P PROVE k \in P
      <3>1. k \in 1 .. Len(w) /\ k \in 0 .. m
        BY <1>1, <1>2
      <3>2. h[k] = h[k - 1] \o w[k] /\ f[k] = f[k - 1] \o x[k] /\ w[k] = x[k]
        BY <1>2, <1>20, <1>22, <3>1, Zenon
      <3>3. h[k - 1] = f[k - 1]
        BY <2>2
      <3>4. h[k] = f[k]
        BY <3>2, <3>3, Zenon
      <3>5. QED
        BY <3>1, <3>4
    <2>3. P \in SUBSET (0 .. m) /\ m \in 0 .. m
      BY <1>1
    <2>4. m \in P
      <3> HIDE DEF P
      <3>1. QED
        BY <1>1, <2>1, <2>2, <2>3, Upwards
    <2>5. QED
      BY <2>4
  <1>10. h[m + n] = f[m] \o g[n]
    <2> DEFINE P == {k \in 0 .. n : h[m + k] = f[m] \o g[k]}
    <2>0. f[m] \in Seq(S)
      BY <1>1, <1>7
    <2>1. 0 \in P
      <3>1. f[m] \o <<>> = f[m]
        <4> DEFINE s == f[m]
        <4> HIDE DEF s
        <4>1. s \in Seq(S)
          BY <2>0, Zenon DEF s
        <4>2. s \o <<>> = s
          BY <4>1, ConcatEmptySeq
        <4>3. QED
          BY <4>2, Zenon DEF s
      <3>2. m + 0 = m /\ 0 \in 0 .. n
        BY <1>1
      <3>3. h[m + 0] = f[m] \o g[0]
        BY <1>21, <1>9, <3>1, <3>2, Zenon
      <3>4. QED
        BY <3>2, <3>3
    <2>2. ASSUME NEW k \in 1 .. n, k - 1 \in P PROVE k \in P
      <3>1. /\ m + k \in 1 .. Len(w) /\ (m + k) - 1 = m + (k - 1)
            /\ k \in 0 .. n /\ k - 1 \in 0 .. n
        BY <1>1, <1>2
      <3>2. h[m + (k - 1)] = f[m] \o g[k - 1]
        BY <2>2
      <3>3. h[m + k] = h[(m + k) - 1] \o w[m + k] /\ w[m + k] = y[k]
        BY <1>2, <1>22, <3>1, Zenon
      <3>4. h[m + k] = (f[m] \o g[k - 1]) \o y[k]
        BY <3>1, <3>2, <3>3, Zenon
      <3>5. g[k] = g[k - 1] \o y[k]
        BY <1>21, Zenon
      <3>6. (f[m] \o g[k - 1]) \o y[k] = f[m] \o (g[k - 1] \o y[k])
        <4>1. f[m] \in Seq(S) /\ g[k - 1] \in Seq(S) /\ y[k] \in Seq(S)
          BY <1>6, <1>8, <2>0, <3>1, Zenon
        <4> DEFINE p == f[m]
                   q == g[k - 1]
                   u == y[k]
        <4> HIDE DEF p, q, u
        <4>2. p \in Seq(S) /\ q \in Seq(S) /\ u \in Seq(S)
          BY <4>1, Zenon DEF p, q, u
        <4>3. Regroups(p, q, u)
          BY <4>2, Joined, Zenon
        <4>4. QED
          BY <4>3, Zenon DEF Regroups, p, q, u
      <3>7. h[m + k] = f[m] \o g[k]
        BY <3>4, <3>5, <3>6, Zenon
      <3>8. QED
        BY <3>1, <3>7
    <2>3. P \in SUBSET (0 .. n) /\ n \in 0 .. n
      <3>1. \A k \in P : k \in 0 .. n
        BY Zenon
      <3> HIDE DEF P
      <3>2. QED
        BY <1>1, <3>1
    <2>4. n \in P
      <3> HIDE DEF P
      <3>1. QED
        BY <1>1, <2>1, <2>2, <2>3, Upwards
    <2>5. QED
      BY <2>4
  <1>11. QED
    BY <1>2, <1>20, <1>21, <1>22, <1>10, Zenon DEF w

\* A field that a member is assigned from, and what Assigned makes of each field.
Stays(f) == f.size > 0 /\ f.as # "local"
Piece(f) == IF Stays(f) THEN <<f>> ELSE <<>>
Pieces(fields) == [i \in 1 .. Len(fields) |-> Piece(fields[i])]

\* Assigned joins the pieces.
LEMMA PiecesForm ==
  ASSUME NEW a \in Seq(Field)
  PROVE  /\ Assigned(a) = FlattenSeq(Pieces(a)) /\ Pieces(a) \in Seq(Seq(Field))
         /\ Len(Pieces(a)) = Len(a) /\ \A i \in 1 .. Len(a) : Pieces(a)[i] = Piece(a[i])
         /\ Assigned(a) \in Seq(Field)
  <1> DEFINE D == Seq(Field)
             p == Pieces(a)
  <1>1. Assigned(a) = FlattenSeq(p)
    BY Zenon DEF Assigned, Pieces, Piece, Stays
  <1>2. \A i \in 1 .. Len(a) : Piece(a[i]) \in D
    <2>1. \A f \in Field : Piece(f) \in D
      BY DEF Piece
    <2> HIDE DEF D
    <2>2. QED
      BY <2>1
  <1> HIDE DEF D
  <1>3. p \in Seq(D) /\ Len(p) = Len(a) /\ \A i \in 1 .. Len(a) : p[i] = Piece(a[i])
    BY <1>2 DEF Pieces
  <1> HIDE DEF p
  <1>4. FlattenSeq(p) \in Seq(Field)
    <2>1. p \in Seq(Seq(Field))
      BY <1>3, Zenon DEF D
    <2>2. QED
      BY <2>1, FlattenIn, Zenon
  <1>5. QED
    BY <1>1, <1>3, <1>4, Zenon DEF D, p

\* What is assigned from fields, and from more after them.
LEMMA AssignedJoin ==
  ASSUME NEW a \in Seq(Field), NEW b \in Seq(Field)
  PROVE  Assigned(a \o b) = Assigned(a) \o Assigned(b)
  <1> DEFINE w == a \o b
             D == Seq(Field)
             p == Pieces(a)
             q == Pieces(b)
             r == Pieces(w)
             u == p \o q
  <1>1. /\ w \in Seq(Field) /\ Len(w) = Len(a) + Len(b)
        /\ \A i \in 1 .. Len(a) + Len(b) : w[i] = IF i <= Len(a) THEN a[i] ELSE b[i - Len(a)]
    BY ConcatProperties, Zenon
  <1>0. w \in Seq(Field)
    BY <1>1, Zenon
  <1> HIDE DEF w
  <1>2. /\ Assigned(a) = FlattenSeq(p) /\ p \in Seq(D) /\ Len(p) = Len(a)
        /\ \A i \in 1 .. Len(a) : p[i] = Piece(a[i])
    BY PiecesForm, Zenon
  <1>3. /\ Assigned(b) = FlattenSeq(q) /\ q \in Seq(D) /\ Len(q) = Len(b)
        /\ \A i \in 1 .. Len(b) : q[i] = Piece(b[i])
    BY PiecesForm, Zenon
  <1>4. /\ Assigned(w) = FlattenSeq(r) /\ r \in Seq(D) /\ Len(r) = Len(w)
        /\ \A i \in 1 .. Len(w) : r[i] = Piece(w[i])
    BY <1>0, PiecesForm, Zenon
  <1>5. FlattenSeq(u) = FlattenSeq(p) \o FlattenSeq(q)
    BY <1>2, <1>3, FlattenJoin, Zenon
  <1> HIDE DEF p, q, r, D
  <1>6. p \in Seq(D) /\ q \in Seq(D) /\ r \in Seq(D)
    BY <1>2, <1>3, <1>4, Zenon
  <1>7. /\ u \in Seq(D) /\ Len(u) = Len(p) + Len(q)
        /\ \A i \in 1 .. Len(p) + Len(q) : u[i] = IF i <= Len(p) THEN p[i] ELSE q[i - Len(p)]
    BY <1>6, ConcatProperties, Zenon
  <1> HIDE DEF u
  <1>8. Len(a) \in Nat /\ Len(b) \in Nat
    OBVIOUS
  <1>9. ASSUME NEW i \in 1 .. Len(r) PROVE r[i] = u[i]
    <2>0. i \in 1 .. Len(a) + Len(b) /\ i \in 1 .. Len(p) + Len(q) /\ i \in 1 .. Len(w)
      BY <1>1, <1>2, <1>3, <1>4
    <2>1. CASE i <= Len(a)
      <3>1. i \in 1 .. Len(a) /\ i <= Len(p)
        BY <1>2, <1>8, <2>0, <2>1
      <3>2. r[i] = Piece(w[i]) /\ w[i] = a[i] /\ p[i] = Piece(a[i]) /\ u[i] = p[i]
        BY <1>1, <1>2, <1>4, <1>7, <2>0, <2>1, <3>1, Zenon
      <3>3. QED
        BY <3>2, Zenon
    <2>2. CASE ~(i <= Len(a))
      <3> DEFINE j == i - Len(a)
      <3>1. j \in 1 .. Len(b) /\ ~(i <= Len(p)) /\ i - Len(p) = j
        BY <1>2, <1>8, <2>0, <2>2
      <3>2. w[i] = b[j]
        BY <1>1, <2>0, <2>2, Zenon
      <3>3. u[i] = q[j]
        BY <1>7, <2>0, <3>1, Zenon
      <3> HIDE DEF j
      <3>4. r[i] = Piece(w[i]) /\ q[j] = Piece(b[j])
        BY <1>3, <1>4, <2>0, <3>1, Zenon
      <3>5. QED
        BY <3>2, <3>3, <3>4, Zenon
    <2>3. QED
      BY <2>1, <2>2
  <1>10. r = u
    <2>1. Len(r) = Len(u)
      BY <1>1, <1>2, <1>3, <1>4, <1>7
    <2>2. u \in Seq(D)
      BY <1>7, Zenon
    <2>3. QED
      BY <1>6, <1>9, <2>1, <2>2, SeqEqual, Zenon
  <1>11. QED
    BY <1>2, <1>3, <1>4, <1>5, <1>10, Zenon DEF w

\* Fields that members are all assigned from.
LEMMA AssignedAll ==
  ASSUME NEW a \in Seq(Field), \A i \in 1 .. Len(a) : Stays(a[i])
  PROVE  Assigned(a) = a
  <1> DEFINE n == Len(a)
             p == Pieces(a)
  <1>1. /\ Assigned(a) = FlattenSeq(p) /\ p \in Seq(Seq(Field)) /\ Len(p) = n
        /\ \A i \in 1 .. n : p[i] = Piece(a[i])
    BY PiecesForm, Zenon
  <1>2. PICK f : Joins(f, Field, p)
    BY <1>1, FlattenSteps, Zenon
  <1>3. n \in Nat /\ \A i \in 1 .. n : a[i] \in Field
    OBVIOUS
  <1> HIDE DEF p
  <1>4. /\ f[0] = <<>>
        /\ \A i \in 1 .. n : f[i] = f[i - 1] \o p[i]
        /\ FlattenSeq(p) = f[n]
    BY <1>1, <1>2, Zenon DEF Joins
  <1> DEFINE P == {k \in 0 .. n : f[k] = SubSeq(a, 1, k)}
  <1>5. 0 \in P
    <2>1. SubSeq(a, 1, 0) = <<>>
      OBVIOUS
    <2>2. f[0] = SubSeq(a, 1, 0) /\ 0 \in 0 .. n
      BY <1>3, <1>4, <2>1
    <2>3. QED
      BY <2>2, Zenon
  <1>6. ASSUME NEW k \in 1 .. n, k - 1 \in P PROVE k \in P
    <2> DEFINE s == SubSeq(a, 1, k - 1)
               t == SubSeq(a, 1, k)
               x == a[k]
    <2>1. k \in 0 .. n /\ k - 1 \in 0 .. n
      BY <1>3
    <2>2. s \in Seq(Field) /\ Len(s) = k - 1 /\ \A i \in 1 .. k - 1 : s[i] = a[i]
      BY <1>3, <2>1
    <2>3. t \in Seq(Field) /\ Len(t) = k /\ \A i \in 1 .. k : t[i] = a[i]
      BY <1>3, <2>1
    <2>4. x \in Field /\ t[k] = x
      BY <1>3, <2>3
    <2>5. p[k] = <<x>>
      BY <1>1, Zenon DEF Piece
    <2>6. f[k] = f[k - 1] \o p[k] /\ f[k - 1] = s
      <3>1. f[k] = f[k - 1] \o p[k]
        BY <1>4, Zenon
      <3>2. f[k - 1] = s
        BY <1>6
      <3>3. QED
        BY <3>1, <3>2
    <2>7. t = s \o <<x>>
      <3> HIDE DEF s, t, x
      <3> DEFINE y == <<x>>
                 v == s \o y
      <3>1. y \in Seq(Field) /\ Len(y) = 1 /\ y[1] = x
        BY <2>4
      <3>8. s \in Seq(Field)
        BY <2>2, Zenon
      <3>9. y \in Seq(Field)
        BY <3>1, Zenon
      <3> HIDE DEF y
      <3>2. /\ v \in Seq(Field) /\ Len(v) = Len(s) + Len(y)
            /\ \A i \in 1 .. Len(s) + Len(y) : v[i] = IF i <= Len(s) THEN s[i] ELSE y[i - Len(s)]
        BY <3>8, <3>9, ConcatProperties, Zenon
      <3> HIDE DEF v
      <3>3. Len(v) = k /\ k \in Nat
        BY <1>3, <2>2, <3>1, <3>2
      <3>4. ASSUME NEW i \in 1 .. k PROVE v[i] = t[i]
        <4>1. CASE i = k
          <5>1. i - (k - 1) = 1 /\ ~(i <= k - 1) /\ i \in 1 .. (k - 1) + 1
            BY <3>3, <4>1
          <5>2. v[i] = y[1]
            BY <2>2, <3>1, <3>2, <5>1
          <5>3. QED
            BY <2>4, <3>1, <4>1, <5>2, Zenon
        <4>2. CASE i # k
          <5>1. i \in 1 .. k - 1 /\ i <= k - 1 /\ i \in 1 .. (k - 1) + 1
            BY <3>3, <4>2
          <5>2. v[i] = s[i]
            BY <2>2, <3>1, <3>2, <5>1
          <5>3. QED
            BY <2>2, <2>3, <5>1, <5>2
        <4>3. QED
          BY <4>1, <4>2
      <3>5. v = t
        <4>1. v \in Seq(Field) /\ t \in Seq(Field) /\ Len(v) = Len(t)
              /\ \A i \in 1 .. Len(v) : v[i] = t[i]
          BY <2>3, <3>2, <3>3, <3>4
        <4>2. QED
          BY <4>1, SeqEqual, Zenon
      <3>6. QED
        BY <3>5, Zenon DEF v, y
    <2>8. f[k] = t
      BY <2>5, <2>6, <2>7, Zenon
    <2>9. QED
      BY <2>1, <2>8
  <1>7. P \in SUBSET (0 .. n) /\ n \in 0 .. n
    BY <1>3
  <1>8. n \in P
    <2> HIDE DEF P, n
    <2>1. QED
      BY <1>3, <1>5, <1>6, <1>7, Upwards
  <1>9. SubSeq(a, 1, n) = a
    OBVIOUS
  <1>10. QED
    BY <1>1, <1>4, <1>8, <1>9

\* Where in what is assigned a field comes: cut counts them.
LEMMA AssignedAt ==
  ASSUME NEW a \in Seq(Field), NEW cut, cut[0] = 0,
         \A i \in 1 .. Len(a) : cut[i] = IF Stays(a[i]) THEN cut[i - 1] + 1 ELSE cut[i - 1]
  PROVE  /\ Len(Assigned(a)) = cut[Len(a)]
         /\ \A i \in 1 .. Len(a) : Stays(a[i]) => Assigned(a)[cut[i]] = a[i]
  <1> DEFINE n == Len(a)
             p == Pieces(a)
  <1>1. /\ Assigned(a) = FlattenSeq(p) /\ p \in Seq(Seq(Field)) /\ Len(p) = n
        /\ \A i \in 1 .. n : p[i] = Piece(a[i])
    BY PiecesForm, Zenon
  <1>2. PICK f : Joins(f, Field, p)
    BY <1>1, FlattenSteps, Zenon
  <1>3. n \in Nat /\ \A i \in 1 .. n : a[i] \in Field
    OBVIOUS
  <1> HIDE DEF p
  <1>4. /\ f[0] = <<>>
        /\ \A i \in 1 .. n : f[i] = f[i - 1] \o p[i]
        /\ FlattenSeq(p) = f[n]
    BY <1>1, <1>2, Zenon DEF Joins
  <1>5. /\ f[0] \in Seq(Field)
        /\ \A i \in 1 .. n : f[i] \in Seq(Field)
    BY <1>1, <1>2, Zenon DEF Joins
  <1> DEFINE Good(k) == /\ Len(f[k]) = cut[k] /\ cut[k] \in Nat
                        /\ \A i \in 1 .. k : Stays(a[i]) =>
                             cut[i] \in 1 .. cut[k] /\ f[k][cut[i]] = a[i]
             P == {k \in 0 .. n : Good(k)}
  <1>6. 0 \in P
    BY <1>3, <1>4
  <1>7. ASSUME NEW k \in 1 .. n, k - 1 \in P PROVE k \in P
    <2>1. k \in 0 .. n /\ k - 1 \in 0 .. n
      BY <1>3
    <2>2. Good(k - 1)
      BY <1>7
    <2>3. f[k - 1] \in Seq(Field) /\ f[k] \in Seq(Field)
      <3>1. k - 1 = 0 \/ k - 1 \in 1 .. n
        BY <2>1
      <3>2. QED
        BY <1>5, <3>1, Zenon
    <2>4. cut[k] = IF Stays(a[k]) THEN cut[k - 1] + 1 ELSE cut[k - 1]
      OBVIOUS
    <2>5. f[k] = f[k - 1] \o p[k] /\ p[k] = Piece(a[k])
      BY <1>1, <1>4, Zenon
    <2> DEFINE s == f[k - 1]
               c == cut[k - 1]
               x == a[k]
    <2>6. s \in Seq(Field) /\ Len(s) = c /\ c \in Nat /\ x \in Field
      BY <1>3, <2>2, <2>3
    <2>7. CASE Stays(x)
      <3>1. f[k] = s \o <<x>> /\ cut[k] = c + 1
        BY <2>4, <2>5, <2>7, Zenon DEF Piece
      <3> DEFINE w == s \o <<x>>
      <3> HIDE DEF s, c, x
      <3>2. Len(w) = c + 1 /\ w[c + 1] = x /\ \A j \in 1 .. c : w[j] = s[j]
        BY <2>6
      <3> HIDE DEF w
      <3>3. Len(f[k]) = cut[k] /\ cut[k] \in Nat
        BY <2>6, <3>1, <3>2 DEF w
      <3>4. ASSUME NEW i \in 1 .. k, Stays(a[i]) PROVE cut[i] \in 1 .. cut[k] /\ f[k][cut[i]] = a[i]
        <4>1. CASE i = k
          BY <2>6, <3>1, <3>2, <4>1 DEF w, x
        <4>2. CASE i # k
          <5>1. i \in 1 .. k - 1
            BY <2>1, <4>2
          <5>2. cut[i] \in 1 .. c /\ s[cut[i]] = a[i]
            BY <2>2, <3>4, <5>1, Zenon DEF s, c
          <5>3. w[cut[i]] = a[i]
            BY <3>2, <5>2, Zenon
          <5>4. cut[i] \in 1 .. cut[k]
            BY <2>6, <3>1, <5>2
          <5>5. QED
            BY <3>1, <5>3, <5>4, Zenon DEF w
        <4>3. QED
          BY <4>1, <4>2
      <3>5. Good(k)
        BY <3>3, <3>4
      <3>6. QED
        BY <2>1, <3>5
    <2>8. CASE ~Stays(x)
      <3>1. f[k] = s \o <<>> /\ cut[k] = c
        BY <2>4, <2>5, <2>8, Zenon DEF Piece
      <3>2. s \o <<>> = s
        <4> HIDE DEF s
        <4>1. QED
          BY <2>6, ConcatEmptySeq
      <3>3. f[k] = s
        BY <3>1, <3>2, Zenon
      <3>4. ASSUME NEW i \in 1 .. k, Stays(a[i]) PROVE cut[i] \in 1 .. cut[k] /\ f[k][cut[i]] = a[i]
        <4>1. i \in 1 .. k - 1
          BY <2>1, <2>8, <3>4
        <4>2. cut[i] \in 1 .. c /\ s[cut[i]] = a[i]
          BY <2>2, <3>4, <4>1, Zenon
        <4>3. QED
          BY <3>1, <3>3, <4>2, Zenon
      <3>5. Good(k)
        BY <2>6, <3>1, <3>3, <3>4, Zenon
      <3>6. QED
        BY <2>1, <3>5
    <2>9. QED
      BY <2>7, <2>8
  <1>8. P \in SUBSET (0 .. n) /\ n \in 0 .. n
    <2> HIDE DEF Good
    <2>1. QED
      BY <1>3
  <1>9. n \in P
    <2> HIDE DEF P, n
    <2>1. QED
      BY <1>3, <1>6, <1>7, <1>8, Upwards
  <1>10. Good(n)
    BY <1>9
  <1>11. QED
    BY <1>1, <1>4, <1>10

\* What is assigned fits the members of st, and none is left over.
Fits(fs, st) ==
  /\ Len(fs) = Len(st)
  /\ \A k \in 1 .. Len(st) : fs[k].bits <= 8 * fs[k].size /\ fs[k].size <= st[k]

\* A part of a decoder, of whole bytes, and the part of the struct it fills.
Pair(a, st) == a \in Seq(Field) /\ st \in Seq(Nat) /\ Fits(Assigned(a), st) /\ Bits(a) % 8 = 0

\* Two of them, one after the other.
LEMMA PairJoin ==
  ASSUME NEW a, NEW b, NEW s, NEW t, Pair(a, s), Pair(b, t)
  PROVE  Pair(a \o b, s \o t)
  <1> DEFINE c == Assigned(a)
             d == Assigned(b)
             w == c \o d
             u == s \o t
             n == Len(c)
             k == Len(d)
  <1>1. a \in Seq(Field) /\ b \in Seq(Field) /\ s \in Seq(Nat) /\ t \in Seq(Nat)
    BY Zenon DEF Pair
  <1>2. Bits(a) % 8 = 0 /\ Bits(b) % 8 = 0
    BY Zenon DEF Pair
  <1>3. Fits(c, s) /\ Fits(d, t)
    BY Zenon DEF Pair
  <1>4. c \in Seq(Field) /\ d \in Seq(Field)
    BY <1>1, PiecesForm, Zenon
  <1>5. Assigned(a \o b) = w
    BY <1>1, AssignedJoin, Zenon
  <1> HIDE DEF c, d
  <1>6. /\ w \in Seq(Field) /\ Len(w) = Len(c) + Len(d)
        /\ \A i \in 1 .. Len(c) + Len(d) : w[i] = IF i <= Len(c) THEN c[i] ELSE d[i - Len(c)]
    BY <1>4, ConcatProperties, Zenon
  <1>7. /\ u \in Seq(Nat) /\ Len(u) = Len(s) + Len(t)
        /\ \A i \in 1 .. Len(s) + Len(t) : u[i] = IF i <= Len(s) THEN s[i] ELSE t[i - Len(s)]
    BY <1>1, ConcatProperties, Zenon
  <1> HIDE DEF w, u
  <1>8. n \in Nat /\ k \in Nat /\ Len(s) = n /\ Len(t) = k
    BY <1>3, <1>4 DEF Fits
  <1>9. /\ \A i \in 1 .. n : c[i].bits <= 8 * c[i].size /\ c[i].size <= s[i]
        /\ \A i \in 1 .. k : d[i].bits <= 8 * d[i].size /\ d[i].size <= t[i]
    BY <1>3, <1>8, Zenon DEF Fits
  <1> HIDE DEF n, k
  <1>10. ASSUME NEW i \in 1 .. Len(u) PROVE w[i].bits <= 8 * w[i].size /\ w[i].size <= u[i]
    <2>0. /\ i \in 1 .. n + k
          /\ w[i] = IF i <= n THEN c[i] ELSE d[i - n]
          /\ u[i] = IF i <= n THEN s[i] ELSE t[i - n]
      BY <1>6, <1>7, <1>8 DEF n, k
    <2>1. CASE i <= n
      <3>1. i \in 1 .. n /\ w[i] = c[i] /\ u[i] = s[i]
        BY <1>8, <2>0, <2>1
      <3>2. QED
        BY <1>9, <3>1, Zenon
    <2>2. CASE ~(i <= n)
      <3> DEFINE j == i - n
      <3>1. j \in 1 .. k /\ w[i] = d[j] /\ u[i] = t[j]
        BY <1>8, <2>0, <2>2
      <3> HIDE DEF j
      <3>2. QED
        BY <1>9, <3>1, Zenon
    <2>3. QED
      BY <2>1, <2>2
  <1>11. Fits(w, u)
    <2>1. Len(w) = Len(u)
      BY <1>6, <1>7, <1>8 DEF n, k
    <2>2. QED
      BY <1>10, <2>1, Zenon DEF Fits
  <1>12. Bits(a \o b) % 8 = 0
    <2>1. Bits(a \o b) = Bits(a) + Bits(b)
      BY <1>1, BitsJoin, Zenon
    <2>2. Bits(a) \in Nat /\ Bits(b) \in Nat
      BY <1>1, StepsForm, Zenon
    <2> DEFINE p == Bits(a)
               q == Bits(b)
    <2>3. p \in Nat /\ q \in Nat /\ p % 8 = 0 /\ q % 8 = 0
      BY <1>2, <2>2, Zenon
    <2> HIDE DEF p, q
    <2>4. (p + q) % 8 = 0
      BY <2>3
    <2>5. QED
      BY <2>1, <2>4, Zenon DEF p, q
  <1>13. a \o b \in Seq(Field)
    BY <1>1, ConcatProperties, Zenon
  <1>14. QED
    BY <1>5, <1>7, <1>11, <1>12, <1>13, Zenon DEF Pair, u

\* No part at all.
LEMMA PairEmpty == Pair(<<>>, <<>>)
  <1> DEFINE a == <<>>
  <1>1. a \in Seq(Field) /\ a \in Seq(Nat) /\ Len(a) = 0
    OBVIOUS
  <1>2. \A i \in 1 .. Len(a) : Stays(a[i])
    BY <1>1
  <1>3. a \in Seq(Field)
    BY <1>1, Zenon
  <1> HIDE DEF a
  <1>4. Assigned(a) = a
    BY <1>2, <1>3, AssignedAll, Zenon
  <1>5. PICK sum : /\ sum[0] = 0 /\ Bits(a) = sum[Len(a)]
                   /\ \A i \in 1 .. Len(a) : sum[i] = sum[i - 1] + a[i].step
    BY <1>3, BitsLoop, Zenon
  <1>6. Bits(a) % 8 = 0
    <2>1. Bits(a) = 0
      BY <1>1, <1>5, Zenon
    <2>2. QED
      BY <2>1
  <1>7. Fits(a, a)
    BY <1>1 DEF Fits
  <1>8. Pair(a, a)
    BY <1>1, <1>4, <1>6, <1>7, Zenon DEF Pair
  <1>9. QED
    BY <1>8, Zenon DEF a

\* Many of them, one after the other.
LEMMA PairFlatten ==
  ASSUME NEW x \in Seq(Seq(Field)), NEW y \in Seq(Seq(Nat)), Len(x) = Len(y),
         \A i \in 1 .. Len(x) : Pair(x[i], y[i])
  PROVE  Pair(FlattenSeq(x), FlattenSeq(y))
  <1> DEFINE n == Len(x)
  <1>1. PICK f : Joins(f, Field, x)
    BY FlattenSteps, Zenon
  <1>2. PICK g : Joins(g, Nat, y)
    BY FlattenSteps, Zenon
  <1>3. n \in Nat
    OBVIOUS
  <1>4. /\ f[0] = <<>> /\ \A i \in 1 .. n : f[i] = f[i - 1] \o x[i]
        /\ FlattenSeq(x) = f[n]
    BY <1>1, Zenon DEF Joins
  <1>5. /\ g[0] = <<>> /\ \A i \in 1 .. n : g[i] = g[i - 1] \o y[i]
        /\ FlattenSeq(y) = g[n]
    BY <1>2, Zenon DEF Joins
  <1> DEFINE P == {k \in 0 .. n : Pair(f[k], g[k])}
  <1>6. 0 \in P
    <2>1. Pair(f[0], g[0])
      BY <1>4, <1>5, PairEmpty, Zenon
    <2>2. QED
      BY <1>3, <2>1
  <1>7. ASSUME NEW k \in 1 .. n, k - 1 \in P PROVE k \in P
    <2>1. Pair(f[k - 1], g[k - 1])
      BY <1>7
    <2>2. Pair(f[k - 1] \o x[k], g[k - 1] \o y[k])
      BY <2>1, PairJoin, Zenon
    <2>3. Pair(f[k], g[k])
      BY <1>4, <1>5, <2>2, Zenon
    <2>4. k \in 0 .. n
      BY <1>3
    <2>5. QED
      BY <2>3, <2>4
  <1>8. P \in SUBSET (0 .. n) /\ n \in 0 .. n
    BY <1>3
  <1>9. n \in P
    <2> HIDE DEF P, n
    <2>1. QED
      BY <1>3, <1>6, <1>7, <1>8, Upwards
  <1>10. Pair(f[n], g[n])
    BY <1>9
  <1>11. QED
    BY <1>4, <1>5, <1>10, Zenon

\* A whole decoder that leaves no field out.
LEMMA PartPair ==
  ASSUME NEW a, NEW st, NEW m, NEW n, Part(a, st, m, 0, n), st \in Seq(Nat), Len(st) = n,
         Bits(a) % 8 = 0
  PROVE  Pair(a, st) /\ Assigned(a) = a
  <1>1. a \in Seq(Field) /\ Len(a) = n /\ \A i \in 1 .. n : Fit(a[i], st[0 + i])
    BY Zenon DEF Part
  <1>2. n \in Nat
    OBVIOUS
  <1>3. ASSUME NEW i \in 1 .. n
        PROVE  Stays(a[i]) /\ a[i].bits <= 8 * a[i].size /\ a[i].size <= st[i]
    <2>1. 0 + i = i
      BY <1>2
    <2>2. Fit(a[i], st[i])
      BY <1>1, <2>1
    <2>3. QED
      BY <2>2, Zenon DEF Fit, Stays
  <1>4. Assigned(a) = a
    BY <1>1, <1>3, AssignedAll, Zenon
  <1>5. Fits(a, st)
    BY <1>1, <1>3, Zenon DEF Fits
  <1>6. Pair(a, st)
    BY <1>1, <1>4, <1>5, Zenon DEF Pair
  <1>7. QED
    BY <1>4, <1>6, Zenon

\* The head of a PRANGEB record.
RangeHead == <<U16(12, 12), U32(20, 20), U8(7, 7), U8(1, 1), U8(3, 3), U8(6, 6), Skip(7)>>

\* Its members.
LEMMA RangeHeadPair == Pair(RangeHead, <<2, 4, 1, 1, 1, 1>>)
  <1> DEFINE a == RangeHead
             st == <<2, 4, 1, 1, 1, 1>>
             cut == [i \in 0 .. 7 |-> IF i <= 6 THEN i ELSE i - 1]
  <1>1. a \in Seq(Field) /\ Len(a) = 7
    BY FieldForms DEF RangeHead
  <1>2. Stays(a[1]) /\ Stays(a[2]) /\ Stays(a[3]) /\ Stays(a[4]) /\ Stays(a[5]) /\ Stays(a[6])
        /\ ~Stays(a[7])
    BY DEF RangeHead, U16, U32, U8, Skip, Spare, F, Stays
  <1>3. a[1].step = 12 /\ a[2].step = 20 /\ a[3].step = 7 /\ a[4].step = 1 /\ a[5].step = 3
        /\ a[6].step = 6 /\ a[7].step = 7
    BY DEF RangeHead, U16, U32, U8, Skip, Spare, F
  <1>4. st \in Seq(Nat) /\ Len(st) = 6
    OBVIOUS
  <1>5. /\ a[1].bits <= 8 * a[1].size /\ a[1].size <= st[1]
        /\ a[2].bits <= 8 * a[2].size /\ a[2].size <= st[2]
        /\ a[3].bits <= 8 * a[3].size /\ a[3].size <= st[3]
        /\ a[4].bits <= 8 * a[4].size /\ a[4].size <= st[4]
    BY DEF RangeHead, U16, U32, U8, Skip, Spare, F
  <1>6. /\ a[5].bits <= 8 * a[5].size /\ a[5].size <= st[5]
        /\ a[6].bits <= 8 * a[6].size /\ a[6].size <= st[6]
    BY DEF RangeHead, U16, U32, U8, Skip, Spare, F
  <1>7. cut[0] = 0 /\ cut[1] = 1 /\ cut[2] = 2 /\ cut[3] = 3 /\ cut[4] = 4 /\ cut[5] = 5
        /\ cut[6] = 6 /\ cut[7] = 6
    OBVIOUS
  <1> HIDE DEF a, cut, st
  <1>8. \A i \in 1 .. 7 : cut[i] = IF Stays(a[i]) THEN cut[i - 1] + 1 ELSE cut[i - 1]
    BY <1>2, <1>7
  <1>9. /\ Len(Assigned(a)) = cut[7]
        /\ \A i \in 1 .. 7 : Stays(a[i]) => Assigned(a)[cut[i]] = a[i]
    <2>1. a \in Seq(Field) /\ cut[0] = 0
      BY <1>1, <1>7, Zenon
    <2>2. \A i \in 1 .. Len(a) : cut[i] = IF Stays(a[i]) THEN cut[i - 1] + 1 ELSE cut[i - 1]
      BY <1>1, <1>8, Zenon
    <2>3. /\ Len(Assigned(a)) = cut[Len(a)]
          /\ \A i \in 1 .. Len(a) : Stays(a[i]) => Assigned(a)[cut[i]] = a[i]
      BY <2>1, <2>2, AssignedAt
    <2>4. QED
      BY <1>1, <2>3, Zenon
  <1>10. Assigned(a)[1] = a[1] /\ Assigned(a)[2] = a[2] /\ Assigned(a)[3] = a[3]
        /\ Assigned(a)[4] = a[4] /\ Assigned(a)[5] = a[5] /\ Assigned(a)[6] = a[6]
    BY <1>2, <1>7, <1>9
  <1>11. Fits(Assigned(a), st)
    <2> DEFINE b == Assigned(a)
    <2> HIDE DEF b
    <2>1. Len(b) = Len(st)
      BY <1>4, <1>7, <1>9 DEF b
    <2>2. /\ b[1].bits <= 8 * b[1].size /\ b[1].size <= st[1]
          /\ b[2].bits <= 8 * b[2].size /\ b[2].size <= st[2]
          /\ b[3].bits <= 8 * b[3].size /\ b[3].size <= st[3]
          /\ b[4].bits <= 8 * b[4].size /\ b[4].size <= st[4]
          /\ b[5].bits <= 8 * b[5].size /\ b[5].size <= st[5]
          /\ b[6].bits <= 8 * b[6].size /\ b[6].size <= st[6]
      BY <1>5, <1>6, <1>10, Zenon DEF b
    <2>3. \A k \in 1 .. Len(st) : b[k].bits <= 8 * b[k].size /\ b[k].size <= st[k]
      BY <1>4, <2>2
    <2>4. QED
      BY <2>1, <2>3, Zenon DEF Fits, b
  <1>12. Bits(a) % 8 = 0
    <2>1. PICK sum : /\ sum[0] = 0 /\ Bits(a) = sum[Len(a)]
                     /\ \A i \in 1 .. Len(a) : sum[i] = sum[i - 1] + a[i].step
      BY <1>1, BitsLoop, Zenon
    <2>2. \A i \in 1 .. 7 : sum[i] = sum[i - 1] + a[i].step
      BY <1>1, <2>1, Zenon
    <2>3. sum[1] = sum[0] + a[1].step /\ sum[2] = sum[1] + a[2].step
          /\ sum[3] = sum[2] + a[3].step /\ sum[4] = sum[3] + a[4].step
          /\ sum[5] = sum[4] + a[5].step /\ sum[6] = sum[5] + a[6].step
          /\ sum[7] = sum[6] + a[7].step
      BY <2>2
    <2>4. sum[0] = 0
      BY <2>1, Zenon
    <2>5. sum[7] = 56
      BY ONLY <1>3, <2>3, <2>4, SMT
    <2>6. Bits(a) = 56
      BY <1>1, <2>1, <2>5, Zenon
    <2>7. QED
      BY <2>6
  <1>13. QED
    BY <1>1, <1>4, <1>11, <1>12, Zenon DEF Pair, a, st

\* The head of a satellite.
SatHead == <<U8(6, 6), U8(4, 4), Local(8, 8), HD(10, 10), I16(14, 14), Skip(6)>>

\* Its members.
LEMMA SatHeadPair == Pair(SatHead, <<1, 1, 8, 2>>)
  <1> DEFINE a == SatHead
             st == <<1, 1, 8, 2>>
             cut == [i \in 0 .. 6 |-> IF i <= 2 THEN i ELSE IF i <= 5 THEN i - 1 ELSE i - 2]
  <1>1. a \in Seq(Field) /\ Len(a) = 6
    BY FieldForms DEF SatHead
  <1>2. Stays(a[1]) /\ Stays(a[2]) /\ ~Stays(a[3]) /\ Stays(a[4]) /\ Stays(a[5]) /\ ~Stays(a[6])
    BY DEF SatHead, U8, Local, HD, I16, Skip, Spare, F, Stays
  <1>3. a[1].step = 6 /\ a[2].step = 4 /\ a[3].step = 8 /\ a[4].step = 10 /\ a[5].step = 14
        /\ a[6].step = 6
    BY DEF SatHead, U8, Local, HD, I16, Skip, Spare, F
  <1>4. st \in Seq(Nat) /\ Len(st) = 4
    OBVIOUS
  <1>5. /\ a[1].bits <= 8 * a[1].size /\ a[1].size <= st[1]
        /\ a[2].bits <= 8 * a[2].size /\ a[2].size <= st[2]
        /\ a[4].bits <= 8 * a[4].size /\ a[4].size <= st[3]
        /\ a[5].bits <= 8 * a[5].size /\ a[5].size <= st[4]
    BY DEF SatHead, U8, Local, HD, I16, Skip, Spare, F
  <1>6. cut[0] = 0 /\ cut[1] = 1 /\ cut[2] = 2 /\ cut[3] = 2 /\ cut[4] = 3 /\ cut[5] = 4
        /\ cut[6] = 4
    OBVIOUS
  <1> HIDE DEF a, cut, st
  <1>7. \A i \in 1 .. 6 : cut[i] = IF Stays(a[i]) THEN cut[i - 1] + 1 ELSE cut[i - 1]
    BY <1>2, <1>6
  <1>8. /\ Len(Assigned(a)) = cut[6]
        /\ \A i \in 1 .. 6 : Stays(a[i]) => Assigned(a)[cut[i]] = a[i]
    <2>1. a \in Seq(Field) /\ cut[0] = 0
      BY <1>1, <1>6, Zenon
    <2>2. \A i \in 1 .. Len(a) : cut[i] = IF Stays(a[i]) THEN cut[i - 1] + 1 ELSE cut[i - 1]
      BY <1>1, <1>7, Zenon
    <2>3. /\ Len(Assigned(a)) = cut[Len(a)]
          /\ \A i \in 1 .. Len(a) : Stays(a[i]) => Assigned(a)[cut[i]] = a[i]
      BY <2>1, <2>2, AssignedAt
    <2>4. QED
      BY <1>1, <2>3, Zenon
  <1>9. Assigned(a)[1] = a[1] /\ Assigned(a)[2] = a[2] /\ Assigned(a)[3] = a[4]
        /\ Assigned(a)[4] = a[5]
    BY <1>2, <1>6, <1>8
  <1>10. Fits(Assigned(a), st)
    <2> DEFINE b == Assigned(a)
    <2> HIDE DEF b
    <2>1. Len(b) = Len(st)
      BY <1>4, <1>6, <1>8 DEF b
    <2>2. /\ b[1].bits <= 8 * b[1].size /\ b[1].size <= st[1]
          /\ b[2].bits <= 8 * b[2].size /\ b[2].size <= st[2]
          /\ b[3].bits <= 8 * b[3].size /\ b[3].size <= st[3]
          /\ b[4].bits <= 8 * b[4].size /\ b[4].size <= st[4]
      BY <1>5, <1>9, Zenon DEF b
    <2>3. \A k \in 1 .. Len(st) : b[k].bits <= 8 * b[k].size /\ b[k].size <= st[k]
      BY <1>4, <2>2
    <2>4. QED
      BY <2>1, <2>3, Zenon DEF Fits, b
  <1>11. Bits(a) % 8 = 0
    <2>1. PICK sum : /\ sum[0] = 0 /\ Bits(a) = sum[Len(a)]
                     /\ \A i \in 1 .. Len(a) : sum[i] = sum[i - 1] + a[i].step
      BY <1>1, BitsLoop, Zenon
    <2>2. \A i \in 1 .. 6 : sum[i] = sum[i - 1] + a[i].step
      BY <1>1, <2>1, Zenon
    <2>3. sum[1] = sum[0] + a[1].step /\ sum[2] = sum[1] + a[2].step
          /\ sum[3] = sum[2] + a[3].step /\ sum[4] = sum[3] + a[4].step
          /\ sum[5] = sum[4] + a[5].step /\ sum[6] = sum[5] + a[6].step
      BY <2>2
    <2>4. sum[0] = 0
      BY <2>1, Zenon
    <2>5. sum[6] = 48
      BY ONLY <1>3, <2>3, <2>4, SMT
    <2>6. Bits(a) = 48
      BY <1>1, <2>1, <2>5, Zenon
    <2>7. QED
      BY <2>6
  <1>12. QED
    BY <1>1, <1>4, <1>10, <1>11, Zenon DEF Pair, a, st

\* The members of a signal.
LEMMA SignalPair == Pair(Signal, <<1, 1, 8, 8, 8, 8, 1>>)
  <1> DEFINE a == Signal
             st == <<1, 1, 8, 8, 8, 8, 1>>
             cut == [i \in 0 .. 8 |-> IF i <= 7 THEN i ELSE i - 1]
  <1>1. a \in Seq(Field) /\ Len(a) = 8
    BY FieldForms DEF Signal
  <1>2. Stays(a[1]) /\ Stays(a[2]) /\ Stays(a[3]) /\ Stays(a[4]) /\ Stays(a[5]) /\ Stays(a[6])
        /\ Stays(a[7]) /\ ~Stays(a[8])
    BY DEF Signal, U8, ID, SD, HD, Skip, Spare, F, Stays
  <1>3. a[1].step = 6 /\ a[2].step = 4 /\ a[3].step = 15 /\ a[4].step = 22 /\ a[5].step = 15
        /\ a[6].step = 13 /\ a[7].step = 1 /\ a[8].step = 4
    BY DEF Signal, U8, ID, SD, HD, Skip, Spare, F
  <1>4. st \in Seq(Nat) /\ Len(st) = 7
    OBVIOUS
  <1>5. /\ a[1].bits <= 8 * a[1].size /\ a[1].size <= st[1]
        /\ a[2].bits <= 8 * a[2].size /\ a[2].size <= st[2]
        /\ a[3].bits <= 8 * a[3].size /\ a[3].size <= st[3]
        /\ a[4].bits <= 8 * a[4].size /\ a[4].size <= st[4]
    BY DEF Signal, U8, ID, SD, HD, Skip, Spare, F
  <1>6. /\ a[5].bits <= 8 * a[5].size /\ a[5].size <= st[5]
        /\ a[6].bits <= 8 * a[6].size /\ a[6].size <= st[6]
        /\ a[7].bits <= 8 * a[7].size /\ a[7].size <= st[7]
    BY DEF Signal, U8, ID, SD, HD, Skip, Spare, F
  <1>7. cut[0] = 0 /\ cut[1] = 1 /\ cut[2] = 2 /\ cut[3] = 3 /\ cut[4] = 4 /\ cut[5] = 5
        /\ cut[6] = 6 /\ cut[7] = 7 /\ cut[8] = 7
    OBVIOUS
  <1> HIDE DEF a, cut, st
  <1>8. \A i \in 1 .. 8 : cut[i] = IF Stays(a[i]) THEN cut[i - 1] + 1 ELSE cut[i - 1]
    BY <1>2, <1>7
  <1>9. /\ Len(Assigned(a)) = cut[8]
        /\ \A i \in 1 .. 8 : Stays(a[i]) => Assigned(a)[cut[i]] = a[i]
    <2>1. a \in Seq(Field) /\ cut[0] = 0
      BY <1>1, <1>7, Zenon
    <2>2. \A i \in 1 .. Len(a) : cut[i] = IF Stays(a[i]) THEN cut[i - 1] + 1 ELSE cut[i - 1]
      BY <1>1, <1>8, Zenon
    <2>3. /\ Len(Assigned(a)) = cut[Len(a)]
          /\ \A i \in 1 .. Len(a) : Stays(a[i]) => Assigned(a)[cut[i]] = a[i]
      BY <2>1, <2>2, AssignedAt
    <2>4. QED
      BY <1>1, <2>3, Zenon
  <1>10. Assigned(a)[1] = a[1] /\ Assigned(a)[2] = a[2] /\ Assigned(a)[3] = a[3]
        /\ Assigned(a)[4] = a[4] /\ Assigned(a)[5] = a[5] /\ Assigned(a)[6] = a[6]
        /\ Assigned(a)[7] = a[7]
    BY <1>2, <1>7, <1>9
  <1>11. Fits(Assigned(a), st)
    <2> DEFINE b == Assigned(a)
    <2> HIDE DEF b
    <2>1. Len(b) = Len(st)
      BY <1>4, <1>7, <1>9 DEF b
    <2>2. /\ b[1].bits <= 8 * b[1].size /\ b[1].size <= st[1]
          /\ b[2].bits <= 8 * b[2].size /\ b[2].size <= st[2]
          /\ b[3].bits <= 8 * b[3].size /\ b[3].size <= st[3]
          /\ b[4].bits <= 8 * b[4].size /\ b[4].size <= st[4]
          /\ b[5].bits <= 8 * b[5].size /\ b[5].size <= st[5]
          /\ b[6].bits <= 8 * b[6].size /\ b[6].size <= st[6]
          /\ b[7].bits <= 8 * b[7].size /\ b[7].size <= st[7]
      BY <1>5, <1>6, <1>10, Zenon DEF b
    <2>3. \A k \in 1 .. Len(st) : b[k].bits <= 8 * b[k].size /\ b[k].size <= st[k]
      BY <1>4, <2>2
    <2>4. QED
      BY <2>1, <2>3, Zenon DEF Fits, b
  <1>12. Bits(a) % 8 = 0
    <2>1. PICK sum : /\ sum[0] = 0 /\ Bits(a) = sum[Len(a)]
                     /\ \A i \in 1 .. Len(a) : sum[i] = sum[i - 1] + a[i].step
      BY <1>1, BitsLoop, Zenon
    <2>2. \A i \in 1 .. 8 : sum[i] = sum[i - 1] + a[i].step
      BY <1>1, <2>1, Zenon
    <2>3. sum[1] = sum[0] + a[1].step /\ sum[2] = sum[1] + a[2].step
          /\ sum[3] = sum[2] + a[3].step /\ sum[4] = sum[3] + a[4].step
          /\ sum[5] = sum[4] + a[5].step /\ sum[6] = sum[5] + a[6].step
          /\ sum[7] = sum[6] + a[7].step /\ sum[8] = sum[7] + a[8].step
      BY <2>2
    <2>4. sum[0] = 0
      BY <2>1, Zenon
    <2>5. sum[8] = 80
      BY ONLY <1>3, <2>3, <2>4, SMT
    <2>6. Bits(a) = 80
      BY <1>1, <2>1, <2>5, Zenon
    <2>7. QED
      BY <2>6
  <1>13. QED
    BY <1>1, <1>4, <1>11, <1>12, Zenon DEF Pair, a, st

\* The check sum.
RangeEnd == <<Crc24>>

\* Its members.
LEMMA RangeEndPair == Pair(RangeEnd, <<4>>)
  <1> DEFINE a == RangeEnd
             st == <<4>>
             cut == [i \in 0 .. 1 |-> i]
  <1>1. a \in Seq(Field) /\ Len(a) = 1
    BY FieldForms DEF RangeEnd
  <1>2. Stays(a[1])
    BY DEF RangeEnd, Crc24, Spare, F, Stays
  <1>3. a[1].step = 24
    BY DEF RangeEnd, Crc24, Spare, F
  <1>4. st \in Seq(Nat) /\ Len(st) = 1
    OBVIOUS
  <1>5. /\ a[1].bits <= 8 * a[1].size /\ a[1].size <= st[1]
    BY DEF RangeEnd, Crc24, Spare, F
  <1>6. cut[0] = 0 /\ cut[1] = 1
    OBVIOUS
  <1> HIDE DEF a, cut, st
  <1>7. \A i \in 1 .. 1 : cut[i] = IF Stays(a[i]) THEN cut[i - 1] + 1 ELSE cut[i - 1]
    BY <1>2, <1>6
  <1>8. /\ Len(Assigned(a)) = cut[1]
        /\ \A i \in 1 .. 1 : Stays(a[i]) => Assigned(a)[cut[i]] = a[i]
    <2>1. a \in Seq(Field) /\ cut[0] = 0
      BY <1>1, <1>6, Zenon
    <2>2. \A i \in 1 .. Len(a) : cut[i] = IF Stays(a[i]) THEN cut[i - 1] + 1 ELSE cut[i - 1]
      BY <1>1, <1>7, Zenon
    <2>3. /\ Len(Assigned(a)) = cut[Len(a)]
          /\ \A i \in 1 .. Len(a) : Stays(a[i]) => Assigned(a)[cut[i]] = a[i]
      BY <2>1, <2>2, AssignedAt
    <2>4. QED
      BY <1>1, <2>3, Zenon
  <1>9. Assigned(a)[1] = a[1]
    BY <1>2, <1>6, <1>8
  <1>10. Fits(Assigned(a), st)
    <2> DEFINE b == Assigned(a)
    <2> HIDE DEF b
    <2>1. Len(b) = Len(st)
      BY <1>4, <1>6, <1>8 DEF b
    <2>2. /\ b[1].bits <= 8 * b[1].size /\ b[1].size <= st[1]
      BY <1>5, <1>9, Zenon DEF b
    <2>3. \A k \in 1 .. Len(st) : b[k].bits <= 8 * b[k].size /\ b[k].size <= st[k]
      BY <1>4, <2>2
    <2>4. QED
      BY <2>1, <2>3, Zenon DEF Fits, b
  <1>11. Bits(a) % 8 = 0
    <2>1. PICK sum : /\ sum[0] = 0 /\ Bits(a) = sum[Len(a)]
                     /\ \A i \in 1 .. Len(a) : sum[i] = sum[i - 1] + a[i].step
      BY <1>1, BitsLoop, Zenon
    <2>2. \A i \in 1 .. 1 : sum[i] = sum[i - 1] + a[i].step
      BY <1>1, <2>1, Zenon
    <2>3. sum[1] = sum[0] + a[1].step
      BY <2>2
    <2>4. sum[0] = 0
      BY <2>1, Zenon
    <2>5. sum[1] = 24
      BY ONLY <1>3, <2>3, <2>4, SMT
    <2>6. Bits(a) = 24
      BY <1>1, <2>1, <2>5, Zenon
    <2>7. QED
      BY <2>6
  <1>12. QED
    BY <1>1, <1>4, <1>10, <1>11, Zenon DEF Pair, a, st

\* A satellite and its signals.
LEMMA SatPair ==
  ASSUME NEW n \in Nat
  PROVE  Pair(SatHead \o FlattenSeq(Times(n, Signal)),
              <<1, 1, 8, 2>> \o FlattenSeq(Times(n, <<1, 1, 8, 8, 8, 8, 1>>)))
  <1> DEFINE x == Times(n, Signal)
             d == <<1, 1, 8, 8, 8, 8, 1>>
             y == Times(n, d)
             D == Seq(Field)
             N == Seq(Nat)
  <1>1. Pair(Signal, d)
    BY SignalPair
  <1>2. Signal \in D /\ d \in N
    BY <1>1, Zenon DEF Pair
  <1> HIDE DEF D, N, d
  <1>3. x \in Seq(D) /\ Len(x) = n /\ \A i \in 1 .. n : x[i] = Signal
    BY <1>2 DEF Times
  <1>4. y \in Seq(N) /\ Len(y) = n /\ \A i \in 1 .. n : y[i] = d
    BY <1>2 DEF Times
  <1> HIDE DEF x, y
  <1>5. x \in Seq(Seq(Field)) /\ y \in Seq(Seq(Nat))
    BY <1>3, <1>4, Zenon DEF D, N
  <1>6. Len(x) = Len(y) /\ \A i \in 1 .. Len(x) : Pair(x[i], y[i])
    BY <1>1, <1>3, <1>4, Zenon
  <1>7. Pair(FlattenSeq(x), FlattenSeq(y))
    BY <1>5, <1>6, PairFlatten, Zenon
  <1>8. QED
    BY <1>7, SatHeadPair, PairJoin, Zenon DEF x, y, d

\* A PRANGEB record of any number of satellites and signals.
LEMMA PrangebPair ==
  ASSUME NEW signals \in Seq(Nat)
  PROVE  /\ Pair(Prangeb(signals), PRANGEB_Decoded_t(signals))
         /\ Prangeb(signals)[Len(Prangeb(signals))].step = 24
         /\ Len(Prangeb(signals)) > 0
  <1> DEFINE Sat(n) == SatHead \o FlattenSeq(Times(n, Signal))
             sat_info(n) == <<1, 1, 8, 2>> \o FlattenSeq(Times(n, <<1, 1, 8, 8, 8, 8, 1>>))
             k == Len(signals)
             x == [i \in 1 .. k |-> Sat(signals[i])]
             y == [i \in 1 .. k |-> sat_info(signals[i])]
             D == Seq(Field)
             N == Seq(Nat)
             b == <<U8(7, 7), U8(1, 1), U8(3, 3), U8(6, 6), Skip(7)>>
             h == <<2, 4, 1, 1, 1, 1>>
             q == <<4>>
  <1>1. /\ Prangeb(signals) = Moment \o b \o FlattenSeq(x) \o RangeEnd
        /\ PRANGEB_Decoded_t(signals) = h \o FlattenSeq(y) \o q
    BY Zenon DEF Prangeb, PRANGEB_Decoded_t, SatHead, RangeEnd
  <1>2. Moment \o b = RangeHead
    <2> DEFINE a == Moment
               w == a \o b
    <2>1. a \in Seq(Field) /\ Len(a) = 2 /\ a[1] = U16(12, 12) /\ a[2] = U32(20, 20)
      BY FieldForms DEF Moment
    <2>2. /\ b \in Seq(Field) /\ Len(b) = 5
          /\ b[1] = U8(7, 7) /\ b[2] = U8(1, 1) /\ b[3] = U8(3, 3) /\ b[4] = U8(6, 6) /\ b[5] = Skip(7)
      BY FieldForms
    <2>3. /\ RangeHead \in Seq(Field) /\ Len(RangeHead) = 7
          /\ RangeHead[1] = U16(12, 12) /\ RangeHead[2] = U32(20, 20) /\ RangeHead[3] = U8(7, 7)
          /\ RangeHead[4] = U8(1, 1) /\ RangeHead[5] = U8(3, 3) /\ RangeHead[6] = U8(6, 6)
          /\ RangeHead[7] = Skip(7)
      BY FieldForms DEF RangeHead
    <2> HIDE DEF a, b
    <2>11. a \in Seq(Field)
      BY <2>1, Zenon
    <2>12. b \in Seq(Field)
      BY <2>2, Zenon
    <2>10. w \in Seq(Field) /\ Joining(w, a, b)
      BY <2>11, <2>12, JoinedAt, Zenon
    <2> HIDE DEF w
    <2>4. /\ w \in Seq(Field) /\ Len(w) = 7 /\ w[1] = a[1] /\ w[2] = a[2] /\ w[3] = b[1]
          /\ w[4] = b[2] /\ w[5] = b[3] /\ w[6] = b[4] /\ w[7] = b[5]
      <3>1. Len(a) = 2 /\ Len(b) = 5
        BY <2>1, <2>2, Zenon
      <3>2. /\ \A i \in 1 .. 2 : w[i] = a[i]
            /\ \A j \in 1 .. 5 : w[2 + j] = b[j]
            /\ w \in Seq(Field) /\ Len(w) = 2 + 5
        BY <2>10, <3>1, Zenon DEF Joining
      <3>3. QED
        BY <3>2
    <2> DEFINE r == RangeHead
    <2>5. /\ w[1] = r[1] /\ w[2] = r[2] /\ w[3] = r[3] /\ w[4] = r[4] /\ w[5] = r[5]
          /\ w[6] = r[6] /\ w[7] = r[7]
      BY <2>1, <2>2, <2>3, <2>4, Zenon
    <2>6. r \in Seq(Field) /\ Len(r) = 7
      BY <2>3, Zenon
    <2> HIDE DEF r
    <2>7. \A i \in 1 .. Len(w) : w[i] = r[i]
      BY <2>4, <2>5
    <2>8. w = r
      BY <2>4, <2>6, <2>7, SeqEqual, Zenon
    <2>9. QED
      BY <2>8, Zenon DEF w, a, r
  <1>3. \A i \in 1 .. k : signals[i] \in Nat
    OBVIOUS
  <1>4. \A n \in Nat : Pair(Sat(n), sat_info(n))
    BY SatPair, Zenon
  <1> HIDE DEF Sat, sat_info, D, N, b, h, q
  <1>5. \A i \in 1 .. k : Pair(Sat(signals[i]), sat_info(signals[i]))
    BY <1>3, <1>4, Zenon
  <1>6. \A i \in 1 .. k : Sat(signals[i]) \in D /\ sat_info(signals[i]) \in N
    BY <1>5, Zenon DEF Pair, D, N
  <1>7. k \in Nat
    OBVIOUS
  <1> HIDE DEF k
  <1>8. x \in Seq(D) /\ Len(x) = k /\ \A i \in 1 .. k : x[i] = Sat(signals[i])
    BY <1>6, <1>7
  <1>9. y \in Seq(N) /\ Len(y) = k /\ \A i \in 1 .. k : y[i] = sat_info(signals[i])
    BY <1>6, <1>7
  <1> HIDE DEF x, y
  <1>10. x \in Seq(Seq(Field)) /\ y \in Seq(Seq(Nat))
    BY <1>8, <1>9, Zenon DEF D, N
  <1>11. Len(x) = Len(y) /\ \A i \in 1 .. Len(x) : Pair(x[i], y[i])
    BY <1>5, <1>8, <1>9, Zenon
  <1>12. Pair(FlattenSeq(x), FlattenSeq(y))
    BY <1>10, <1>11, PairFlatten, Zenon
  <1>13. Pair(RangeHead, h) /\ Pair(RangeEnd, q)
    BY RangeHeadPair, RangeEndPair, Zenon DEF h, q
  <1> DEFINE u == RangeHead \o FlattenSeq(x)
             v == h \o FlattenSeq(y)
  <1>14. Pair(u, v)
    BY <1>12, <1>13, PairJoin, Zenon
  <1>15. Prangeb(signals) = u \o RangeEnd /\ PRANGEB_Decoded_t(signals) = v \o q
    BY <1>1, <1>2, Zenon
  <1> HIDE DEF u, v
  <1>16. Pair(u \o RangeEnd, v \o q)
    BY <1>13, <1>14, PairJoin, Zenon
  <1>17. LET w == u \o RangeEnd IN w[Len(w)].step = 24 /\ Len(w) > 0
    <2> DEFINE e == RangeEnd
    <2>1. e[1].step = 24 /\ e \in Seq(Field) /\ Len(e) = 1
      BY FieldForms DEF RangeEnd, Crc24, Spare, F
    <2>2. u \in Seq(Field)
      BY <1>14, Zenon DEF Pair
    <2> HIDE DEF e
    <2>6. e \in Seq(Field)
      BY <2>1, Zenon
    <2> DEFINE w == u \o e
    <2>3. Len(w) = Len(u) + 1 /\ w[Len(u) + 1] = e[1] /\ Len(u) \in Nat
      <3>1. 1 \in 1 .. Len(e) /\ Len(e) = 1
        BY <2>1
      <3>4. Joining(w, u, e)
        BY <2>2, <2>6, JoinedAt, Zenon
      <3>2. Len(w) = Len(u) + Len(e) /\ w[Len(u) + 1] = e[1]
        BY <3>1, <3>4, Zenon DEF Joining
      <3>3. QED
        BY <2>2, <3>1, <3>2
    <2> HIDE DEF w
    <2>4. w[Len(w)].step = 24 /\ Len(w) > 0
      BY <2>1, <2>3
    <2>5. QED
      BY <2>4, Zenon DEF w, e
  <1>18. QED
    BY <1>15, <1>16, <1>17, Zenon

-----------------------------------------------------------------------------
(* Every kind of record *)

\* It is of whole bytes and fits its struct, and its check sum is the last field.
Decodes(a, st) == Pair(a, st) /\ Len(a) > 0 /\ a[Len(a)].step = 24

\* The members that end within the first bytes of a struct are those that are not spare.
SentTo(a, st, bytes) ==
  Assigned(a) = a /\ \A k \in 1 .. Len(st) : a[k].as # "spare" <=> Upto(st, k) <= bytes

\* The sum of more numbers is not less.
LEMMA UptoOrder ==
  ASSUME NEW s \in Seq(Nat), NEW j \in 0 .. Len(s), NEW k \in j .. Len(s)
  PROVE  Upto(s, j) <= Upto(s, k)
  <1> DEFINE n == Len(s)
             up == [i \in 0 .. n |-> Upto(s, i)]
             P == {i \in 0 .. n : i < j \/ up[j] <= up[i]}
  <1>1. n \in Nat /\ j \in 0 .. n /\ k \in j .. n
    OBVIOUS
  <1>2. /\ \A i \in 0 .. n : Upto(s, i) \in Nat
        /\ \A i \in 1 .. n : Upto(s, i) = Upto(s, i - 1) + s[i] /\ s[i] \in Nat
    <2>1. \A i \in 1 .. n : s[i] \in Nat
      OBVIOUS
    <2>2. QED
      BY <2>1, TotalSteps
  <1> HIDE DEF n
  <1>3. \A i \in 0 .. n : up[i] = Upto(s, i)
    BY Zenon
  <1> HIDE DEF up
  <1>4. \A i \in 0 .. n : up[i] \in Nat
    BY <1>2, <1>3
  <1>5. ASSUME NEW i \in 1 .. n PROVE up[i] = up[i - 1] + s[i] /\ s[i] \in Nat
    <2>1. i \in 0 .. n /\ i - 1 \in 0 .. n
      BY <1>1
    <2>2. Upto(s, i) = Upto(s, i - 1) + s[i] /\ s[i] \in Nat
      BY <1>2
    <2>3. QED
      BY <1>3, <2>1, <2>2, Zenon
  <1>6. 0 \in P
    BY <1>1, <1>4
  <1>7. ASSUME NEW i \in 1 .. n, i - 1 \in P PROVE i \in P
    <2>1. up[i] = up[i - 1] + s[i] /\ s[i] \in Nat
      BY <1>5
    <2>2. i \in 0 .. n /\ i - 1 \in 0 .. n
      BY <1>1
    <2>3. up[i] \in Nat /\ up[i - 1] \in Nat /\ up[j] \in Nat
      BY <1>1, <1>4, <2>2
    <2>4. i - 1 < j \/ up[j] <= up[i - 1]
      BY <1>7
    <2>5. i < j \/ up[j] <= up[i]
      <3> DEFINE x == up[j]
                 y == up[i - 1]
                 z == up[i]
                 w == s[i]
      <3>1. z = y + w /\ w \in Nat /\ x \in Nat /\ y \in Nat /\ (i - 1 < j \/ x <= y)
        BY <2>1, <2>3, <2>4, Zenon
      <3>2. CASE i = j
        <4>1. x = z
          BY <3>2, Zenon
        <4> HIDE DEF x, y, z, w
        <4>2. x <= z
          BY ONLY <4>1, <3>1, SMT
        <4>3. QED
          BY <4>2, Zenon DEF x, z
      <3>3. CASE i # j
        <4>1. i \in Int /\ j \in Int
          BY <1>1
        <4> HIDE DEF x, y, z, w
        <4>2. i < j \/ x <= z
          BY ONLY <3>1, <3>3, <4>1, SMT
        <4>3. QED
          BY <4>2, Zenon DEF x, z
      <3>4. QED
        BY <3>2, <3>3, Zenon
    <2>6. QED
      BY <2>2, <2>5
  <1>8. P \in SUBSET (0 .. n)
    OBVIOUS
  <1>9. \A i \in 0 .. n : i \in P
    <2> HIDE DEF P
    <2>1. QED
      BY <1>1, <1>6, <1>7, <1>8, Upwards
  <1>10. k \in 0 .. n /\ ~(k < j)
    BY <1>1
  <1>11. up[j] <= up[k]
    BY <1>9, <1>10
  <1>12. QED
    BY <1>1, <1>3, <1>10, <1>11

\* The last two numbers of a sum.
LEMMA LastTwo ==
  ASSUME NEW s \in Seq(Nat), NEW n \in Nat, Len(s) = n, n > 1
  PROVE  /\ Total(s) = Upto(s, n - 1) + s[n]
         /\ Total(s) = (Upto(s, n - 2) + s[n - 1]) + s[n]
         /\ Upto(s, n - 1) \in Nat /\ Upto(s, n - 2) \in Nat
  <1>1. /\ Upto(s, n) = Total(s)
        /\ \A k \in 0 .. n : Upto(s, k) \in Nat
        /\ \A k \in 1 .. n : Upto(s, k) = Upto(s, k - 1) + s[k]
    BY TotalSteps
  <1>2. n \in 1 .. n /\ n - 1 \in 1 .. n /\ n - 1 \in 0 .. n /\ n - 2 \in 0 .. n
    OBVIOUS
  <1>3. (n - 1) - 1 = n - 2
    OBVIOUS
  <1>4. Upto(s, n - 1) = Upto(s, (n - 1) - 1) + s[n - 1]
    BY <1>1, <1>2, Zenon
  <1>5. Upto(s, n - 1) = Upto(s, n - 2) + s[n - 1]
    BY <1>3, <1>4, Zenon
  <1>6. Upto(s, n) = Upto(s, n - 1) + s[n]
    BY <1>1, <1>2, Zenon
  <1>7. QED
    BY <1>1, <1>2, <1>5, <1>6, Zenon

\* A decoder whose fields after the m-th are spare, of a struct of which the first m members
\* are sent.
LEMMA PartSent ==
  ASSUME NEW a, NEW st \in Seq(Nat), NEW m \in Nat, NEW n \in Nat, Part(a, st, m, 0, n),
         Len(st) = n, m < n, st[m + 1] > 0, Assigned(a) = a
  PROVE  SentTo(a, st, Upto(st, m))
  <1>1. \A k \in 1 .. n : a[k].as = "spare" <=> 0 + k > m
    BY Zenon DEF Part
  <1>2. m \in 0 .. n /\ m + 1 \in 1 .. n
    OBVIOUS
  <1>3. /\ \A k \in 0 .. n : Upto(st, k) \in Nat
        /\ \A k \in 1 .. n : Upto(st, k) = Upto(st, k - 1) + st[k]
    BY TotalSteps
  <1>4. Upto(st, m + 1) > Upto(st, m)
    <2>1. Upto(st, m + 1) = Upto(st, (m + 1) - 1) + st[m + 1]
      BY <1>2, <1>3, Zenon
    <2>2. (m + 1) - 1 = m
      OBVIOUS
    <2>3. Upto(st, m + 1) = Upto(st, m) + st[m + 1]
      BY <2>1, <2>2, Zenon
    <2> DEFINE x == Upto(st, m)
               y == Upto(st, m + 1)
               z == st[m + 1]
    <2>4. x \in Nat /\ y \in Nat /\ z \in Nat /\ z > 0
      BY <1>2, <1>3
    <2>5. y = x + z
      BY <2>3, Zenon
    <2> HIDE DEF x, y, z
    <2>6. y > x
      BY <2>4, <2>5
    <2>7. QED
      BY <2>6, Zenon DEF x, y
  <1>5. ASSUME NEW k \in 1 .. n PROVE a[k].as # "spare" <=> Upto(st, k) <= Upto(st, m)
    <2> DEFINE x == Upto(st, m)
               y == Upto(st, m + 1)
               z == Upto(st, k)
    <2>1. x \in Nat /\ y \in Nat /\ z \in Nat /\ y > x
      BY <1>2, <1>3, <1>4
    <2>2. CASE k <= m
      <3>1. k \in 0 .. Len(st) /\ m \in k .. Len(st) /\ ~(0 + k > m)
        BY <2>2
      <3>2. z <= x
        BY <3>1, UptoOrder, Zenon
      <3>3. QED
        BY <1>1, <3>1, <3>2, Zenon
    <2>3. CASE k > m
      <3>1. m + 1 \in 0 .. Len(st) /\ k \in m + 1 .. Len(st) /\ 0 + k > m
        BY <2>3
      <3>2. y <= z
        BY <3>1, UptoOrder, Zenon
      <3> HIDE DEF x, y, z
      <3>3. ~(z <= x)
        BY <2>1, <3>2
      <3>4. QED
        BY <1>1, <3>1, <3>3, Zenon DEF x, z
    <2>4. k <= m \/ k > m
      OBVIOUS
    <2>5. QED
      BY <2>2, <2>3, <2>4, Zenon
  <1>6. QED
    BY <1>5, Zenon DEF SentTo

\* A decoder that leaves no field out.
LEMMA PartDecodes ==
  ASSUME NEW a, NEW st \in Seq(Nat), NEW m, NEW n \in Nat, Part(a, st, m, 0, n), Len(st) = n,
         Bits(a) % 8 = 0, n > 0, a[n].step = 24
  PROVE  Decodes(a, st) /\ Assigned(a) = a
  <1>1. Pair(a, st) /\ Assigned(a) = a
    BY PartPair, Zenon
  <1>2. Len(a) = n
    BY Zenon DEF Part
  <1>3. QED
    BY <1>1, <1>2, Zenon DEF Decodes

\* It fits its struct, and the network gets what is not spare.
LEMMA GpsDecodes ==
  /\ Decodes(Gps, GPSEPHB_Decoded_t)
  /\ SentTo(Gps, GPSEPHB_Decoded_t, 8 + Total(GPSEPHB_Decoded_t) - 13)
  <1> DEFINE st == GPSEPHB_Decoded_t
             a == Gps
  <1>1. st \in Seq(Nat) /\ Len(st) = 34 /\ st[33] = 1 /\ st[34] = 4
    BY GpsStruct, Zenon
  <1>3. Part(a, st, 32, 0, 34) /\ Bits(a) = 536 /\ a[34].step = 24
    BY GpsFits
  <1> HIDE DEF st, a
  <1>4. 34 \in Nat /\ 34 > 0 /\ Bits(a) % 8 = 0
    BY <1>3
  <1>5. st \in Seq(Nat) /\ Len(st) = 34
    BY <1>1, Zenon
  <1>6. Part(a, st, 32, 0, 34) /\ a[34].step = 24
    BY <1>3, Zenon
  <1>7. Decodes(a, st) /\ Assigned(a) = a
    BY <1>4, <1>5, <1>6, PartDecodes, Zenon
  <1>8. 32 \in Nat /\ 32 < 34 /\ 34 > 1 /\ 32 + 1 = 33 /\ st[33] > 0
    BY <1>1
  <1>11. st[32 + 1] > 0
    BY <1>8, Zenon
  <1>9. SentTo(a, st, Upto(st, 32))
    BY <1>4, <1>5, <1>6, <1>7, <1>8, <1>11, PartSent, Zenon
  <1>10. Upto(st, 32) = 8 + Total(st) - 13
    <2>1. /\ Total(st) = Upto(st, 34 - 1) + st[34]
          /\ Total(st) = (Upto(st, 34 - 2) + st[34 - 1]) + st[34]
          /\ Upto(st, 34 - 1) \in Nat /\ Upto(st, 34 - 2) \in Nat
      BY <1>4, <1>5, <1>8, LastTwo, Zenon
    <2>2. 34 - 1 = 33 /\ 34 - 2 = 32
      OBVIOUS
    <2>3. Total(st) = (Upto(st, 32) + st[33]) + st[34] /\ Upto(st, 32) \in Nat
      BY <2>1, <2>2, Zenon
    <2> DEFINE u == Upto(st, 32)
               t == Total(st)
    <2>4. t = (u + 1) + 4 /\ u \in Nat
      BY <1>1, <2>3, Zenon
    <2> HIDE DEF u, t
    <2>5. u = 8 + t - 13
      BY <2>4
    <2>6. QED
      BY <2>5, Zenon DEF u, t
  <1>12. SentTo(a, st, 8 + Total(st) - 13)
    BY <1>9, <1>10, Zenon
  <1>13. QED
    BY <1>7, <1>12, Zenon DEF a, st

\* It fits its struct, and the network gets what is not spare.
LEMMA Bd2Decodes ==
  /\ Decodes(Bd2, BD2EPHB_Decoded_t)
  /\ SentTo(Bd2, BD2EPHB_Decoded_t, 8 + Total(BD2EPHB_Decoded_t) - 13)
  <1> DEFINE st == BD2EPHB_Decoded_t
             a == Bd2
  <1>1. st \in Seq(Nat) /\ Len(st) = 32 /\ st[31] = 1 /\ st[32] = 4
    BY Bd2Struct, Zenon
  <1>3. Part(a, st, 30, 0, 32) /\ Bits(a) = 560 /\ a[32].step = 24
    BY Bd2Fits
  <1> HIDE DEF st, a
  <1>4. 32 \in Nat /\ 32 > 0 /\ Bits(a) % 8 = 0
    BY <1>3
  <1>5. st \in Seq(Nat) /\ Len(st) = 32
    BY <1>1, Zenon
  <1>6. Part(a, st, 30, 0, 32) /\ a[32].step = 24
    BY <1>3, Zenon
  <1>7. Decodes(a, st) /\ Assigned(a) = a
    BY <1>4, <1>5, <1>6, PartDecodes, Zenon
  <1>8. 30 \in Nat /\ 30 < 32 /\ 32 > 1 /\ 30 + 1 = 31 /\ st[31] > 0
    BY <1>1
  <1>11. st[30 + 1] > 0
    BY <1>8, Zenon
  <1>9. SentTo(a, st, Upto(st, 30))
    BY <1>4, <1>5, <1>6, <1>7, <1>8, <1>11, PartSent, Zenon
  <1>10. Upto(st, 30) = 8 + Total(st) - 13
    <2>1. /\ Total(st) = Upto(st, 32 - 1) + st[32]
          /\ Total(st) = (Upto(st, 32 - 2) + st[32 - 1]) + st[32]
          /\ Upto(st, 32 - 1) \in Nat /\ Upto(st, 32 - 2) \in Nat
      BY <1>4, <1>5, <1>8, LastTwo, Zenon
    <2>2. 32 - 1 = 31 /\ 32 - 2 = 30
      OBVIOUS
    <2>3. Total(st) = (Upto(st, 30) + st[31]) + st[32] /\ Upto(st, 30) \in Nat
      BY <2>1, <2>2, Zenon
    <2> DEFINE u == Upto(st, 30)
               t == Total(st)
    <2>4. t = (u + 1) + 4 /\ u \in Nat
      BY <1>1, <2>3, Zenon
    <2> HIDE DEF u, t
    <2>5. u = 8 + t - 13
      BY <2>4
    <2>6. QED
      BY <2>5, Zenon DEF u, t
  <1>12. SentTo(a, st, 8 + Total(st) - 13)
    BY <1>9, <1>10, Zenon
  <1>13. QED
    BY <1>7, <1>12, Zenon DEF a, st

\* It fits its struct, and the network gets what is not spare.
LEMMA Bd3Decodes ==
  /\ Decodes(Bd3, BD3EPHB_Decoded_t)
  /\ SentTo(Bd3, BD3EPHB_Decoded_t, 8 + Total(BD3EPHB_Decoded_t) - 13)
  <1> DEFINE st == BD3EPHB_Decoded_t
             a == Bd3
  <1>1. st \in Seq(Nat) /\ Len(st) = 34 /\ st[33] = 1 /\ st[34] = 4
    BY Bd3Struct, Zenon
  <1>3. Part(a, st, 32, 0, 34) /\ Bits(a) = 632 /\ a[34].step = 24
    BY Bd3Fits
  <1> HIDE DEF st, a
  <1>4. 34 \in Nat /\ 34 > 0 /\ Bits(a) % 8 = 0
    BY <1>3
  <1>5. st \in Seq(Nat) /\ Len(st) = 34
    BY <1>1, Zenon
  <1>6. Part(a, st, 32, 0, 34) /\ a[34].step = 24
    BY <1>3, Zenon
  <1>7. Decodes(a, st) /\ Assigned(a) = a
    BY <1>4, <1>5, <1>6, PartDecodes, Zenon
  <1>8. 32 \in Nat /\ 32 < 34 /\ 34 > 1 /\ 32 + 1 = 33 /\ st[33] > 0
    BY <1>1
  <1>11. st[32 + 1] > 0
    BY <1>8, Zenon
  <1>9. SentTo(a, st, Upto(st, 32))
    BY <1>4, <1>5, <1>6, <1>7, <1>8, <1>11, PartSent, Zenon
  <1>10. Upto(st, 32) = 8 + Total(st) - 13
    <2>1. /\ Total(st) = Upto(st, 34 - 1) + st[34]
          /\ Total(st) = (Upto(st, 34 - 2) + st[34 - 1]) + st[34]
          /\ Upto(st, 34 - 1) \in Nat /\ Upto(st, 34 - 2) \in Nat
      BY <1>4, <1>5, <1>8, LastTwo, Zenon
    <2>2. 34 - 1 = 33 /\ 34 - 2 = 32
      OBVIOUS
    <2>3. Total(st) = (Upto(st, 32) + st[33]) + st[34] /\ Upto(st, 32) \in Nat
      BY <2>1, <2>2, Zenon
    <2> DEFINE u == Upto(st, 32)
               t == Total(st)
    <2>4. t = (u + 1) + 4 /\ u \in Nat
      BY <1>1, <2>3, Zenon
    <2> HIDE DEF u, t
    <2>5. u = 8 + t - 13
      BY <2>4
    <2>6. QED
      BY <2>5, Zenon DEF u, t
  <1>12. SentTo(a, st, 8 + Total(st) - 13)
    BY <1>9, <1>10, Zenon
  <1>13. QED
    BY <1>7, <1>12, Zenon DEF a, st

\* It fits its struct, and the network gets what is not spare.
LEMMA Bd3Cnav2Decodes ==
  /\ Decodes(Bd3Cnav2, BD3CNAV2EPHB_Decoded_t)
  /\ SentTo(Bd3Cnav2, BD3CNAV2EPHB_Decoded_t, 8 + Total(BD3CNAV2EPHB_Decoded_t) - 13)
  <1> DEFINE st == BD3CNAV2EPHB_Decoded_t
             a == Bd3Cnav2
  <1>1. st \in Seq(Nat) /\ Len(st) = 34 /\ st[33] = 1 /\ st[34] = 4
    BY Bd3Cnav2Struct, Zenon
  <1>3. Part(a, st, 32, 0, 34) /\ Bits(a) = 632 /\ a[34].step = 24
    BY Bd3Cnav2Fits
  <1> HIDE DEF st, a
  <1>4. 34 \in Nat /\ 34 > 0 /\ Bits(a) % 8 = 0
    BY <1>3
  <1>5. st \in Seq(Nat) /\ Len(st) = 34
    BY <1>1, Zenon
  <1>6. Part(a, st, 32, 0, 34) /\ a[34].step = 24
    BY <1>3, Zenon
  <1>7. Decodes(a, st) /\ Assigned(a) = a
    BY <1>4, <1>5, <1>6, PartDecodes, Zenon
  <1>8. 32 \in Nat /\ 32 < 34 /\ 34 > 1 /\ 32 + 1 = 33 /\ st[33] > 0
    BY <1>1
  <1>11. st[32 + 1] > 0
    BY <1>8, Zenon
  <1>9. SentTo(a, st, Upto(st, 32))
    BY <1>4, <1>5, <1>6, <1>7, <1>8, <1>11, PartSent, Zenon
  <1>10. Upto(st, 32) = 8 + Total(st) - 13
    <2>1. /\ Total(st) = Upto(st, 34 - 1) + st[34]
          /\ Total(st) = (Upto(st, 34 - 2) + st[34 - 1]) + st[34]
          /\ Upto(st, 34 - 1) \in Nat /\ Upto(st, 34 - 2) \in Nat
      BY <1>4, <1>5, <1>8, LastTwo, Zenon
    <2>2. 34 - 1 = 33 /\ 34 - 2 = 32
      OBVIOUS
    <2>3. Total(st) = (Upto(st, 32) + st[33]) + st[34] /\ Upto(st, 32) \in Nat
      BY <2>1, <2>2, Zenon
    <2> DEFINE u == Upto(st, 32)
               t == Total(st)
    <2>4. t = (u + 1) + 4 /\ u \in Nat
      BY <1>1, <2>3, Zenon
    <2> HIDE DEF u, t
    <2>5. u = 8 + t - 13
      BY <2>4
    <2>6. QED
      BY <2>5, Zenon DEF u, t
  <1>12. SentTo(a, st, 8 + Total(st) - 13)
    BY <1>9, <1>10, Zenon
  <1>13. QED
    BY <1>7, <1>12, Zenon DEF a, st

\* It fits its struct, and the network gets what is not spare.
LEMMA Bd3Cnav3Decodes ==
  /\ Decodes(Bd3Cnav3, BD3CNAV3EPHB_Decoded_t)
  /\ SentTo(Bd3Cnav3, BD3CNAV3EPHB_Decoded_t, 8 + Total(BD3CNAV3EPHB_Decoded_t) - 16)
  <1> DEFINE st == BD3CNAV3EPHB_Decoded_t
             a == Bd3Cnav3
  <1>1. st \in Seq(Nat) /\ Len(st) = 32 /\ st[31] = 4 /\ st[32] = 4
    BY Bd3Cnav3Struct, Zenon
  <1>3. Part(a, st, 30, 0, 32) /\ Bits(a) = 632 /\ a[32].step = 24
    BY Bd3Cnav3Fits
  <1> HIDE DEF st, a
  <1>4. 32 \in Nat /\ 32 > 0 /\ Bits(a) % 8 = 0
    BY <1>3
  <1>5. st \in Seq(Nat) /\ Len(st) = 32
    BY <1>1, Zenon
  <1>6. Part(a, st, 30, 0, 32) /\ a[32].step = 24
    BY <1>3, Zenon
  <1>7. Decodes(a, st) /\ Assigned(a) = a
    BY <1>4, <1>5, <1>6, PartDecodes, Zenon
  <1>8. 30 \in Nat /\ 30 < 32 /\ 32 > 1 /\ 30 + 1 = 31 /\ st[31] > 0
    BY <1>1
  <1>11. st[30 + 1] > 0
    BY <1>8, Zenon
  <1>9. SentTo(a, st, Upto(st, 30))
    BY <1>4, <1>5, <1>6, <1>7, <1>8, <1>11, PartSent, Zenon
  <1>10. Upto(st, 30) = 8 + Total(st) - 16
    <2>1. /\ Total(st) = Upto(st, 32 - 1) + st[32]
          /\ Total(st) = (Upto(st, 32 - 2) + st[32 - 1]) + st[32]
          /\ Upto(st, 32 - 1) \in Nat /\ Upto(st, 32 - 2) \in Nat
      BY <1>4, <1>5, <1>8, LastTwo, Zenon
    <2>2. 32 - 1 = 31 /\ 32 - 2 = 30
      OBVIOUS
    <2>3. Total(st) = (Upto(st, 30) + st[31]) + st[32] /\ Upto(st, 30) \in Nat
      BY <2>1, <2>2, Zenon
    <2> DEFINE u == Upto(st, 30)
               t == Total(st)
    <2>4. t = (u + 4) + 4 /\ u \in Nat
      BY <1>1, <2>3, Zenon
    <2> HIDE DEF u, t
    <2>5. u = 8 + t - 16
      BY <2>4
    <2>6. QED
      BY <2>5, Zenon DEF u, t
  <1>12. SentTo(a, st, 8 + Total(st) - 16)
    BY <1>9, <1>10, Zenon
  <1>13. QED
    BY <1>7, <1>12, Zenon DEF a, st

\* It fits its struct, and the network gets what is not spare.
LEMMA BdxwDecodes ==
  /\ Decodes(Bdxw, BDXWEPHB_Decoded_t)
  /\ SentTo(Bdxw, BDXWEPHB_Decoded_t, 8 + Total(BDXWEPHB_Decoded_t) - 20)
  <1> DEFINE st == BDXWEPHB_Decoded_t
             a == Bdxw
  <1>1. st \in Seq(Nat) /\ Len(st) = 34 /\ st[34] = 4
    BY BdxwStruct, Zenon
  <1>2. st[33] = 8
    <2>1. \A i \in 12 .. 33 : st[i] = 8
      BY BdxwStruct, Zenon
    <2>2. QED
      BY <2>1
  <1>3. Part(a, st, 32, 0, 34) /\ Bits(a) = 768 /\ a[34].step = 24
    BY BdxwFits
  <1> HIDE DEF st, a
  <1>4. 34 \in Nat /\ 34 > 0 /\ Bits(a) % 8 = 0
    BY <1>3
  <1>5. st \in Seq(Nat) /\ Len(st) = 34
    BY <1>1, Zenon
  <1>6. Part(a, st, 32, 0, 34) /\ a[34].step = 24
    BY <1>3, Zenon
  <1>7. Decodes(a, st) /\ Assigned(a) = a
    BY <1>4, <1>5, <1>6, PartDecodes, Zenon
  <1>8. 32 \in Nat /\ 32 < 34 /\ 34 > 1 /\ 32 + 1 = 33 /\ st[33] > 0
    BY <1>1, <1>2
  <1>11. st[32 + 1] > 0
    BY <1>8, Zenon
  <1>9. SentTo(a, st, Upto(st, 32))
    BY <1>4, <1>5, <1>6, <1>7, <1>8, <1>11, PartSent, Zenon
  <1>10. Upto(st, 32) = 8 + Total(st) - 20
    <2>1. /\ Total(st) = Upto(st, 34 - 1) + st[34]
          /\ Total(st) = (Upto(st, 34 - 2) + st[34 - 1]) + st[34]
          /\ Upto(st, 34 - 1) \in Nat /\ Upto(st, 34 - 2) \in Nat
      BY <1>4, <1>5, <1>8, LastTwo, Zenon
    <2>2. 34 - 1 = 33 /\ 34 - 2 = 32
      OBVIOUS
    <2>3. Total(st) = (Upto(st, 32) + st[33]) + st[34] /\ Upto(st, 32) \in Nat
      BY <2>1, <2>2, Zenon
    <2> DEFINE u == Upto(st, 32)
               t == Total(st)
    <2>4. t = (u + 8) + 4 /\ u \in Nat
      BY <1>1, <1>2, <2>3, Zenon
    <2> HIDE DEF u, t
    <2>5. u = 8 + t - 20
      BY <2>4
    <2>6. QED
      BY <2>5, Zenon DEF u, t
  <1>12. SentTo(a, st, 8 + Total(st) - 20)
    BY <1>9, <1>10, Zenon
  <1>13. QED
    BY <1>7, <1>12, Zenon DEF a, st

\* It fits its struct, and the network gets what is not spare.
LEMMA GloDecodes ==
  /\ Decodes(Glo, GLOEPHB_Decoded_t)
  /\ SentTo(Glo, GLOEPHB_Decoded_t, 8 + Total(GLOEPHB_Decoded_t) - 12)
  <1> DEFINE st == GLOEPHB_Decoded_t
             a == Glo
  <1>1. st \in Seq(Nat) /\ Len(st) = 21 /\ st[21] = 4
    BY GloStruct, Zenon
  <1>3. Part(a, st, 20, 0, 21) /\ Bits(a) = 304 /\ a[21].step = 24
    BY GloFits
  <1> HIDE DEF st, a
  <1>4. 21 \in Nat /\ 21 > 0 /\ Bits(a) % 8 = 0
    BY <1>3
  <1>5. st \in Seq(Nat) /\ Len(st) = 21
    BY <1>1, Zenon
  <1>6. Part(a, st, 20, 0, 21) /\ a[21].step = 24
    BY <1>3, Zenon
  <1>7. Decodes(a, st) /\ Assigned(a) = a
    BY <1>4, <1>5, <1>6, PartDecodes, Zenon
  <1>8. 20 \in Nat /\ 20 < 21 /\ 21 > 1 /\ 20 + 1 = 21 /\ st[21] > 0
    BY <1>1
  <1>11. st[20 + 1] > 0
    BY <1>8, Zenon
  <1>9. SentTo(a, st, Upto(st, 20))
    BY <1>4, <1>5, <1>6, <1>7, <1>8, <1>11, PartSent, Zenon
  <1>10. Upto(st, 20) = 8 + Total(st) - 12
    <2>1. /\ Total(st) = Upto(st, 21 - 1) + st[21]
          /\ Total(st) = (Upto(st, 21 - 2) + st[21 - 1]) + st[21]
          /\ Upto(st, 21 - 1) \in Nat /\ Upto(st, 21 - 2) \in Nat
      BY <1>4, <1>5, <1>8, LastTwo, Zenon
    <2>2. 21 - 1 = 20 /\ 21 - 2 = 19
      OBVIOUS
    <2>3. Total(st) = Upto(st, 20) + st[21] /\ Upto(st, 20) \in Nat
      BY <2>1, <2>2, Zenon
    <2> DEFINE u == Upto(st, 20)
               t == Total(st)
    <2>4. t = u + 4 /\ u \in Nat
      BY <1>1, <2>3, Zenon
    <2> HIDE DEF u, t
    <2>5. u = 8 + t - 12
      BY <2>4
    <2>6. QED
      BY <2>5, Zenon DEF u, t
  <1>12. SentTo(a, st, 8 + Total(st) - 12)
    BY <1>9, <1>10, Zenon
  <1>13. QED
    BY <1>7, <1>12, Zenon DEF a, st

\* It fits its struct, and the network gets what is not spare.
LEMMA GalDecodes ==
  /\ Decodes(Gal, GALEPHB_Decoded_t)
  /\ SentTo(Gal, GALEPHB_Decoded_t, 8 + Total(GALEPHB_Decoded_t) - 13)
  <1> DEFINE st == GALEPHB_Decoded_t
             a == Gal
  <1>1. st \in Seq(Nat) /\ Len(st) = 35 /\ st[34] = 1 /\ st[35] = 4
    BY GalStruct, Zenon
  <1>3. Part(a, st, 33, 0, 35) /\ Bits(a) = 552 /\ a[35].step = 24
    BY GalFits
  <1> HIDE DEF st, a
  <1>4. 35 \in Nat /\ 35 > 0 /\ Bits(a) % 8 = 0
    BY <1>3
  <1>5. st \in Seq(Nat) /\ Len(st) = 35
    BY <1>1, Zenon
  <1>6. Part(a, st, 33, 0, 35) /\ a[35].step = 24
    BY <1>3, Zenon
  <1>7. Decodes(a, st) /\ Assigned(a) = a
    BY <1>4, <1>5, <1>6, PartDecodes, Zenon
  <1>8. 33 \in Nat /\ 33 < 35 /\ 35 > 1 /\ 33 + 1 = 34 /\ st[34] > 0
    BY <1>1
  <1>11. st[33 + 1] > 0
    BY <1>8, Zenon
  <1>9. SentTo(a, st, Upto(st, 33))
    BY <1>4, <1>5, <1>6, <1>7, <1>8, <1>11, PartSent, Zenon
  <1>10. Upto(st, 33) = 8 + Total(st) - 13
    <2>1. /\ Total(st) = Upto(st, 35 - 1) + st[35]
          /\ Total(st) = (Upto(st, 35 - 2) + st[35 - 1]) + st[35]
          /\ Upto(st, 35 - 1) \in Nat /\ Upto(st, 35 - 2) \in Nat
      BY <1>4, <1>5, <1>8, LastTwo, Zenon
    <2>2. 35 - 1 = 34 /\ 35 - 2 = 33
      OBVIOUS
    <2>3. Total(st) = (Upto(st, 33) + st[34]) + st[35] /\ Upto(st, 33) \in Nat
      BY <2>1, <2>2, Zenon
    <2> DEFINE u == Upto(st, 33)
               t == Total(st)
    <2>4. t = (u + 1) + 4 /\ u \in Nat
      BY <1>1, <2>3, Zenon
    <2> HIDE DEF u, t
    <2>5. u = 8 + t - 13
      BY <2>4
    <2>6. QED
      BY <2>5, Zenon DEF u, t
  <1>12. SentTo(a, st, 8 + Total(st) - 13)
    BY <1>9, <1>10, Zenon
  <1>13. QED
    BY <1>7, <1>12, Zenon DEF a, st

\* It fits its struct.
LEMMA PosdatabDecodes ==
  Decodes(Posdatab, POSDATAB_Decoded_t)
  <1> DEFINE st == POSDATAB_Decoded_t
             a == Posdatab
  <1>1. st \in Seq(Nat) /\ Len(st) = 37
    BY PosdatabStruct, Zenon
  <1>3. Part(a, st, 34, 0, 37) /\ Bits(a) = 584 /\ a[37].step = 24
    BY PosdatabFits
  <1> HIDE DEF st, a
  <1>4. 37 \in Nat /\ 37 > 0 /\ Bits(a) % 8 = 0
    BY <1>3
  <1>5. st \in Seq(Nat) /\ Len(st) = 37
    BY <1>1, Zenon
  <1>6. Part(a, st, 34, 0, 37) /\ a[37].step = 24
    BY <1>3, Zenon
  <1>7. Decodes(a, st) /\ Assigned(a) = a
    BY <1>4, <1>5, <1>6, PartDecodes, Zenon
  <1>8. QED
    BY <1>7, Zenon DEF a, st

\* Every record fits its struct.
LEMMA RecordDecodes ==
  ASSUME NEW r \in Record
  PROVE  Decodes(Fields(r), Struct(r))
  <1>1. r.msg \in {"bd2", "bd3", "bd3cnav2", "bd3cnav3", "bdxw", "gps", "glo", "gal",
                   "prangeb", "posdatab"}
    BY DecodeAssumption DEF Record
  <1>2. CASE r.msg = "prangeb"
    <2>1. Fields(r) = Prangeb(r.signals) /\ Struct(r) = PRANGEB_Decoded_t(r.signals)
      BY <1>2 DEF Fields, Struct
    <2>2. Decodes(Prangeb(r.signals), PRANGEB_Decoded_t(r.signals))
      BY SignalsKnown, PrangebPair, Zenon DEF Decodes
    <2>3. QED
      BY <2>1, <2>2, Zenon
  <1>3. CASE r.msg = "gps"
    <2>1. Fields(r) = Gps /\ Struct(r) = GPSEPHB_Decoded_t
      BY <1>3 DEF Fields, Struct
    <2>2. QED
      BY <2>1, GpsDecodes, Zenon
  <1>4. CASE r.msg = "bd2"
    <2>1. Fields(r) = Bd2 /\ Struct(r) = BD2EPHB_Decoded_t
      BY <1>4 DEF Fields, Struct
    <2>2. QED
      BY <2>1, Bd2Decodes, Zenon
  <1>5. CASE r.msg = "bd3"
    <2>1. Fields(r) = Bd3 /\ Struct(r) = BD3EPHB_Decoded_t
      BY <1>5 DEF Fields, Struct
    <2>2. QED
      BY <2>1, Bd3Decodes, Zenon
  <1>6. CASE r.msg = "bd3cnav2"
    <2>1. Fields(r) = Bd3Cnav2 /\ Struct(r) = BD3CNAV2EPHB_Decoded_t
      BY <1>6 DEF Fields, Struct
    <2>2. QED
      BY <2>1, Bd3Cnav2Decodes, Zenon
  <1>7. CASE r.msg = "bd3cnav3"
    <2>1. Fields(r) = Bd3Cnav3 /\ Struct(r) = BD3CNAV3EPHB_Decoded_t
      BY <1>7 DEF Fields, Struct
    <2>2. QED
      BY <2>1, Bd3Cnav3Decodes, Zenon
  <1>8. CASE r.msg = "bdxw"
    <2>1. Fields(r) = Bdxw /\ Struct(r) = BDXWEPHB_Decoded_t
      BY <1>8 DEF Fields, Struct
    <2>2. QED
      BY <2>1, BdxwDecodes, Zenon
  <1>9. CASE r.msg = "glo"
    <2>1. Fields(r) = Glo /\ Struct(r) = GLOEPHB_Decoded_t
      BY <1>9 DEF Fields, Struct
    <2>2. QED
      BY <2>1, GloDecodes, Zenon
  <1>10. CASE r.msg = "gal"
    <2>1. Fields(r) = Gal /\ Struct(r) = GALEPHB_Decoded_t
      BY <1>10 DEF Fields, Struct
    <2>2. QED
      BY <2>1, GalDecodes, Zenon
  <1>11. CASE r.msg = "posdatab"
    <2>1. Fields(r) = Posdatab /\ Struct(r) = POSDATAB_Decoded_t
      BY <1>11 DEF Fields, Struct
    <2>2. QED
      BY <2>1, PosdatabDecodes, Zenon
  <1>12. QED
    BY <1>1, <1>2, <1>3, <1>4, <1>5, <1>6, <1>7, <1>8, <1>9, <1>10, <1>11, Zenon

\* A record with a stated length has it.
LEMMA RecordLength ==
  ASSUME NEW r \in Record, r.msg \in DOMAIN PAYLOAD_LEN
  PROVE  Bits(Fields(r)) = 8 * PAYLOAD_LEN[r.msg] + 24 /\ PAYLOAD_LEN[r.msg] \in Nat
  <1>1. r.msg \in {"bd2", "bd3", "bd3cnav3", "gps", "gal", "posdatab"}
    BY DEF PAYLOAD_LEN
  <1>2. CASE r.msg = "bd2"
    <2>1. Fields(r) = Bd2 /\ PAYLOAD_LEN[r.msg] = 67
      BY <1>2 DEF Fields, PAYLOAD_LEN
    <2>2. QED
      BY <2>1, Bd2Fits
  <1>3. CASE r.msg = "bd3"
    <2>1. Fields(r) = Bd3 /\ PAYLOAD_LEN[r.msg] = 76
      BY <1>3 DEF Fields, PAYLOAD_LEN
    <2>2. QED
      BY <2>1, Bd3Fits
  <1>4. CASE r.msg = "bd3cnav3"
    <2>1. Fields(r) = Bd3Cnav3 /\ PAYLOAD_LEN[r.msg] = 76
      BY <1>4 DEF Fields, PAYLOAD_LEN
    <2>2. QED
      BY <2>1, Bd3Cnav3Fits
  <1>5. CASE r.msg = "gps"
    <2>1. Fields(r) = Gps /\ PAYLOAD_LEN[r.msg] = 64
      BY <1>5 DEF Fields, PAYLOAD_LEN
    <2>2. QED
      BY <2>1, GpsFits
  <1>6. CASE r.msg = "gal"
    <2>1. Fields(r) = Gal /\ PAYLOAD_LEN[r.msg] = 66
      BY <1>6 DEF Fields, PAYLOAD_LEN
    <2>2. QED
      BY <2>1, GalFits
  <1>7. CASE r.msg = "posdatab"
    <2>1. Fields(r) = Posdatab /\ PAYLOAD_LEN[r.msg] = 70
      BY <1>7 DEF Fields, PAYLOAD_LEN
    <2>2. QED
      BY <2>1, PosdatabFits
  <1>8. QED
    BY <1>1, <1>2, <1>3, <1>4, <1>5, <1>6, <1>7, Zenon

\* What is sent of an ephemeris is what is not spare.
LEMMA RecordSent ==
  ASSUME NEW r \in Record, IsSent(r.msg)
  PROVE  SentTo(Fields(r), Struct(r), SentBytes(r.msg))
  <1>1. r.msg \in {"bd2", "bd3", "bd3cnav2", "bd3cnav3", "bdxw", "gps", "glo", "gal"}
    BY DecodeAssumption DEF Record, IsSent
  <1> DEFINE q == [msg |-> r.msg]
  <1>2. q.msg = r.msg /\ HeadBytes(r.msg) = 8
    BY <1>1 DEF HeadBytes
  <1>3. SentBytes(r.msg) = HeadBytes(r.msg) + Total(Struct(q)) - Trim(r.msg)
    BY Zenon DEF SentBytes
  <1> HIDE DEF q
  <1>4. CASE r.msg = "gps"
    <2>1. /\ Fields(r) = Gps /\ Struct(r) = GPSEPHB_Decoded_t /\ Struct(q) = GPSEPHB_Decoded_t
          /\ Trim(r.msg) = 13
      BY <1>2, <1>4 DEF Fields, Struct, Trim
    <2>2. QED
      BY <1>2, <1>3, <2>1, GpsDecodes, Zenon
  <1>5. CASE r.msg = "bd2"
    <2>1. /\ Fields(r) = Bd2 /\ Struct(r) = BD2EPHB_Decoded_t /\ Struct(q) = BD2EPHB_Decoded_t
          /\ Trim(r.msg) = 13
      BY <1>2, <1>5 DEF Fields, Struct, Trim
    <2>2. QED
      BY <1>2, <1>3, <2>1, Bd2Decodes, Zenon
  <1>6. CASE r.msg = "bd3"
    <2>1. /\ Fields(r) = Bd3 /\ Struct(r) = BD3EPHB_Decoded_t /\ Struct(q) = BD3EPHB_Decoded_t
          /\ Trim(r.msg) = 13
      BY <1>2, <1>6 DEF Fields, Struct, Trim
    <2>2. QED
      BY <1>2, <1>3, <2>1, Bd3Decodes, Zenon
  <1>7. CASE r.msg = "bd3cnav2"
    <2>1. /\ Fields(r) = Bd3Cnav2 /\ Struct(r) = BD3CNAV2EPHB_Decoded_t
          /\ Struct(q) = BD3CNAV2EPHB_Decoded_t /\ Trim(r.msg) = 13
      BY <1>2, <1>7 DEF Fields, Struct, Trim
    <2>2. QED
      BY <1>2, <1>3, <2>1, Bd3Cnav2Decodes, Zenon
  <1>8. CASE r.msg = "bd3cnav3"
    <2>1. /\ Fields(r) = Bd3Cnav3 /\ Struct(r) = BD3CNAV3EPHB_Decoded_t
          /\ Struct(q) = BD3CNAV3EPHB_Decoded_t /\ Trim(r.msg) = 16
      BY <1>2, <1>8 DEF Fields, Struct, Trim
    <2>2. QED
      BY <1>2, <1>3, <2>1, Bd3Cnav3Decodes, Zenon
  <1>9. CASE r.msg = "bdxw"
    <2>1. /\ Fields(r) = Bdxw /\ Struct(r) = BDXWEPHB_Decoded_t /\ Struct(q) = BDXWEPHB_Decoded_t
          /\ Trim(r.msg) = 20
      BY <1>2, <1>9 DEF Fields, Struct, Trim
    <2>2. QED
      BY <1>2, <1>3, <2>1, BdxwDecodes, Zenon
  <1>10. CASE r.msg = "glo"
    <2>1. /\ Fields(r) = Glo /\ Struct(r) = GLOEPHB_Decoded_t /\ Struct(q) = GLOEPHB_Decoded_t
          /\ Trim(r.msg) = 12
      BY <1>2, <1>10 DEF Fields, Struct, Trim
    <2>2. QED
      BY <1>2, <1>3, <2>1, GloDecodes, Zenon
  <1>11. CASE r.msg = "gal"
    <2>1. /\ Fields(r) = Gal /\ Struct(r) = GALEPHB_Decoded_t /\ Struct(q) = GALEPHB_Decoded_t
          /\ Trim(r.msg) = 13
      BY <1>2, <1>11 DEF Fields, Struct, Trim
    <2>2. QED
      BY <1>2, <1>3, <2>1, GalDecodes, Zenon
  <1>12. QED
    BY <1>1, <1>4, <1>5, <1>6, <1>7, <1>8, <1>9, <1>10, <1>11, Zenon

\* What a beginning assigns is the beginning of what all assigns.
LEMMA AssignedPrefix ==
  ASSUME NEW a \in Seq(Field), NEW k \in 0 .. Len(a), NEW b \in Seq(Field), Len(b) = k,
         \A i \in 1 .. k : b[i] = a[i]
  PROVE  /\ Len(Assigned(b)) \in Nat /\ Len(Assigned(b)) <= Len(Assigned(a))
         /\ \A j \in 1 .. Len(Assigned(b)) : Assigned(b)[j] = Assigned(a)[j]
  <1> DEFINE n == Len(a)
             c == SubSeq(a, k + 1, n)
             w == b \o c
             x == Assigned(b)
             y == Assigned(c)
             v == x \o y
  <1>1. n \in Nat /\ k \in 0 .. n
    OBVIOUS
  <1>2. c \in Seq(Field) /\ Len(c) = n - k /\ \A i \in 1 .. n - k : c[i] = a[k + i]
    <2>1. \A i \in k + 1 .. n : a[i] \in Field
      BY <1>1
    <2>2. c \in Seq(Field)
      BY <1>1, <2>1, SubSeqProperties
    <2>3. Len(c) = n - k
      BY <1>1, SubSeqProperties
    <2>4. \A i \in 1 .. n - k : c[i] = a[(k + 1) + i - 1]
      BY <1>1, SubSeqProperties
    <2>5. QED
      BY <1>1, <2>2, <2>3, <2>4
  <1> HIDE DEF c
  <1>3. /\ w \in Seq(Field) /\ Len(w) = Len(b) + Len(c)
        /\ \A i \in 1 .. Len(b) + Len(c) : w[i] = IF i <= Len(b) THEN b[i] ELSE c[i - Len(b)]
    BY <1>2, ConcatProperties
  <1> HIDE DEF w
  <1>4. Len(w) = n
    BY <1>1, <1>2, <1>3
  <1>5. ASSUME NEW i \in 1 .. n PROVE w[i] = a[i]
    <2>1. CASE i <= k
      BY <1>1, <1>2, <1>3, <1>5, <2>1
    <2>2. CASE i > k
      <3>1. i - k \in 1 .. n - k /\ k + (i - k) = i /\ ~(i <= Len(b)) /\ i \in 1 .. Len(b) + Len(c)
        BY <1>1, <1>2, <2>2
      <3>2. w[i] = c[i - k]
        BY <1>3, <3>1
      <3>3. c[i - k] = a[i]
        BY <1>2, <3>1
      <3>4. QED
        BY <3>2, <3>3
    <2>3. QED
      BY <1>1, <2>1, <2>2
  <1>6. w = a
    <2>1. w \in Seq(Field) /\ Len(w) = Len(a) /\ \A i \in 1 .. Len(w) : w[i] = a[i]
      BY <1>3, <1>4, <1>5
    <2>2. QED
      BY <2>1, SeqEqual, Zenon
  <1>7. Assigned(a) = v
    <2>1. Assigned(b \o c) = Assigned(b) \o Assigned(c)
      BY <1>2, AssignedJoin, Zenon
    <2>2. QED
      BY <1>6, <2>1, Zenon DEF w
  <1>8. x \in Seq(Field) /\ y \in Seq(Field)
    BY <1>2, PiecesForm, Zenon
  <1> HIDE DEF x, y
  <1>9. Len(x) \in Nat /\ Len(x) <= Len(v) /\ \A j \in 1 .. Len(x) : x[j] = v[j]
    BY <1>8
  <1> HIDE DEF v
  <1>10. QED
    BY <1>7, <1>9, Zenon DEF x

-----------------------------------------------------------------------------
(* What is read, in order *)

\* The first bit of the i-th field of a record.
FieldAt(r, i) == 8 * HeadBytes(r.msg) + Upto(StepsOf(Fields(r)), i - 1)

\* A record that is being decoded is long enough, and what was read are its first fields.
InOrder ==
  rec # <<>> =>
    /\ LongEnough(rec)
    /\ \A i \in 1 .. Len(out) : out[i].field = Fields(rec)[i] /\ out[i].at = FieldAt(rec, i)
    /\ bit = FieldAt(rec, Len(out) + 1)

\* The first field begins after the head and the others where the one before ends.
LEMMA FieldStarts ==
  ASSUME NEW r \in Record
  PROVE  /\ FieldAt(r, 1) = 8 * HeadBytes(r.msg)
         /\ \A i \in 1 .. Len(Fields(r)) : /\ FieldAt(r, i) \in Nat
                                           /\ FieldAt(r, i + 1) = FieldAt(r, i) + Fields(r)[i].step
  <1> DEFINE a == Fields(r)
             s == StepsOf(a)
             n == Len(a)
             h == 8 * HeadBytes(r.msg)
  <1>1. a \in Seq(Field)
    BY FieldsKnown, Zenon
  <1>2. h \in Nat
    BY DEF HeadBytes
  <1> HIDE DEF a, h
  <1>3. s \in Seq(Nat) /\ Len(s) = n /\ \A i \in 1 .. n : s[i] = a[i].step
    BY <1>1, StepsForm, Zenon
  <1>4. n \in Nat
    BY <1>1
  <1> HIDE DEF s, n
  <1>5. /\ Upto(s, 0) = 0
        /\ \A k \in 0 .. n : Upto(s, k) \in Nat
        /\ \A k \in 1 .. n : Upto(s, k) = Upto(s, k - 1) + s[k]
    BY <1>3, TotalSteps, Zenon
  <1>6. \A i : FieldAt(r, i) = h + Upto(s, i - 1)
    BY Zenon DEF FieldAt, h, s, a
  <1>7. FieldAt(r, 1) = h
    <2>1. 1 - 1 = 0
      OBVIOUS
    <2>2. FieldAt(r, 1) = h + 0
      BY <1>5, <1>6, <2>1, Zenon
    <2>3. QED
      BY <1>2, <2>2
  <1>8. ASSUME NEW i \in 1 .. n
        PROVE  FieldAt(r, i) \in Nat /\ FieldAt(r, i + 1) = FieldAt(r, i) + a[i].step
    <2>1. (i + 1) - 1 = i /\ i - 1 \in 0 .. n /\ i \in 0 .. n
      BY <1>4
    <2> DEFINE x == Upto(s, i - 1)
               y == Upto(s, i)
               z == a[i].step
    <2>2. x \in Nat /\ y = x + z /\ y \in Nat
      BY <1>3, <1>5, <2>1, Zenon
    <2>3. FieldAt(r, i) = h + x
      BY <1>6, Zenon
    <2>4. FieldAt(r, i + 1) = h + y
      BY <1>6, <2>1, Zenon
    <2>5. z \in Nat
      <3>1. a[i] \in Field
        BY <1>1 DEF n
      <3>2. QED
        BY <3>1 DEF Field
    <2> HIDE DEF x, y, z
    <2>6. h + x \in Nat /\ h + y = (h + x) + z
      BY <1>2, <2>2, <2>5
    <2>7. QED
      BY <2>3, <2>4, <2>6, Zenon DEF z
  <1>9. QED
    BY <1>7, <1>8, Zenon DEF a, n, h

\* The order is kept.
LEMMA OrderKeeps ==
  ASSUME ReadInv, InOrder, [DecodeNext]_decodeVars
  PROVE  InOrder'
  <1>1. ASSUME NEW r \in Record, DecodeRecord(r) PROVE InOrder'
    <2>1. rec' = r /\ bit' = 8 * HeadBytes(r.msg) /\ out' = <<>> /\ LongEnough(r)
      BY <1>1 DEF DecodeRecord
    <2>2. Len(out') = 0
      BY <2>1
    <2>3. bit' = FieldAt(r, 1)
      BY <1>1, <2>1, FieldStarts, Zenon
    <2>4. 0 + 1 = 1 /\ \A i \in 1 .. 0 : FALSE
      OBVIOUS
    <2>5. bit' = FieldAt(r, Len(out') + 1)
      BY <2>2, <2>3, <2>4, Zenon
    <2>6. LongEnough(rec')
      BY <2>1, Zenon
    <2>7. \A i \in 1 .. Len(out') : out'[i].field = Fields(rec')[i] /\ out'[i].at = FieldAt(rec', i)
      BY <2>2, <2>4, Zenon
    <2>8. bit' = FieldAt(rec', Len(out') + 1)
      BY <2>1, <2>5, Zenon
    <2>9. LongEnough(rec)'
      BY <2>6, Zenon DEF LongEnough, Length
    <2>10. QED
      BY <2>7, <2>8, <2>9, Zenon DEF InOrder, FieldAt
  <1>2. ASSUME ReadField PROVE InOrder'
    <2> DEFINE n == Len(out)
               f == Fields(rec)[n + 1]
               v == Converted(f, ReadAs(f, Ones(f, rec)))
               e == [at |-> bit, field |-> f, value |-> v]
               Entry == [at : Nat, field : Field, value : SUBSET Int]
    <2>1. rec # <<>> /\ rec \in Record /\ n # Len(Fields(rec)) /\ n <= Len(Fields(rec))
      BY <1>2 DEF ReadField, Done, ReadInv
    <2>2. rec' = rec /\ out' = Append(out, e) /\ bit' = bit + f.step
      BY <1>2 DEF ReadField
    <2>3. out \in Seq(Entry) /\ n \in Nat
      BY DEF ReadInv
    <2>4. e.at = bit /\ e.field = f
      BY Zenon
    <2>5. n + 1 \in 1 .. Len(Fields(rec))
      BY <2>1, <2>3, FieldsKnown
    <2>6. bit = FieldAt(rec, n + 1)
      BY <2>1, Zenon DEF InOrder
    <2>7. bit' = FieldAt(rec, (n + 1) + 1)
      BY <2>1, <2>2, <2>5, <2>6, FieldStarts, Zenon
    <2> HIDE DEF e, Entry
    <2>8. Len(out') = n + 1 /\ out'[n + 1] = e /\ \A i \in 1 .. n : out'[i] = out[i]
      BY <2>2, <2>3
    <2> HIDE DEF f
    <2>9. ASSUME NEW i \in 1 .. n + 1
          PROVE  out'[i].field = Fields(rec)[i] /\ out'[i].at = FieldAt(rec, i)
      <3>1. CASE i = n + 1
        BY <2>4, <2>6, <2>8, <3>1, Zenon DEF f
      <3>2. CASE i # n + 1
        <4>1. i \in 1 .. n
          BY <2>3, <3>2
        <4>2. out[i].field = Fields(rec)[i] /\ out[i].at = FieldAt(rec, i)
          BY <2>1, <4>1, Zenon DEF InOrder
        <4>3. out'[i] = out[i]
          BY <2>8, <4>1, Zenon
        <4>4. QED
          BY <4>2, <4>3, Zenon
      <3>3. QED
        BY <3>1, <3>2, Zenon
    <2>10. LongEnough(rec)
      BY <2>1, Zenon DEF InOrder
    <2>11. /\ \A i \in 1 .. Len(out') : /\ out'[i].field = Fields(rec')[i]
                                        /\ out'[i].at = FieldAt(rec', i)
           /\ bit' = FieldAt(rec', Len(out') + 1)
      BY <2>2, <2>7, <2>8, <2>9, Zenon
    <2>12. LongEnough(rec')
      BY <2>2, <2>10, Zenon
    <2>13. LongEnough(rec)'
      BY <2>12, Zenon DEF LongEnough, Length
    <2>14. QED
      BY <2>11, <2>13, Zenon DEF InOrder, FieldAt
  <1>3. ASSUME UNCHANGED decodeVars PROVE InOrder'
    <2>1. rec' = rec /\ bit' = bit /\ out' = out
      BY <1>3 DEF decodeVars
    <2>2. QED
      BY <2>1 DEF InOrder, LongEnough, Length, FieldAt
  <1>4. QED
    BY <1>1, <1>2, <1>3 DEF DecodeNext

\* It holds in every state.
LEMMA OrderSpecInv == DecodeSpec => [](ReadInv /\ InOrder)
  <1>1. DecodeInit => ReadInv /\ InOrder
    BY DEF DecodeInit, ReadInv, Contiguous, InOrder
  <1>2. ReadInv /\ InOrder /\ [DecodeNext]_decodeVars => ReadInv' /\ InOrder'
    BY DecodeKeeps, OrderKeeps
  <1>3. QED
    BY <1>1, <1>2, PTL DEF DecodeSpec

\* The fields that were read.
FieldsRead == [i \in 1 .. Len(out) |-> out[i].field]

\* They are a beginning of those of the record, and what they assign of what those assign.
LEMMA ReadPrefix ==
  ASSUME ReadInv, InOrder, rec # <<>>
  PROVE  /\ rec \in Record /\ Len(out) \in 0 .. Len(Fields(rec))
         /\ Len(Assigned(FieldsRead)) \in Nat
         /\ Len(Assigned(FieldsRead)) <= Len(Assigned(Fields(rec)))
         /\ \A j \in 1 .. Len(Assigned(FieldsRead)) :
              Assigned(FieldsRead)[j] = Assigned(Fields(rec))[j]
         /\ Done => FieldsRead = Fields(rec)
  <1> DEFINE Entry == [at : Nat, field : Field, value : SUBSET Int]
             k == Len(out)
             a == Fields(rec)
             b == FieldsRead
  <1>1. rec \in Record /\ k <= Len(a) /\ out \in Seq(Entry)
    BY DEF ReadInv
  <1>2. a \in Seq(Field)
    BY <1>1, FieldsKnown, Zenon
  <1>3. \A i \in 1 .. k : out[i].field = a[i]
    BY Zenon DEF InOrder
  <1>4. k \in Nat /\ Len(a) \in Nat
    BY <1>1, <1>2
  <1> HIDE DEF a
  <1>5. k \in 0 .. Len(a) /\ \A i \in 1 .. k : a[i] \in Field
    BY <1>1, <1>2, <1>4
  <1>6. b = [i \in 1 .. k |-> a[i]]
    BY <1>3 DEF FieldsRead
  <1> HIDE DEF b, k
  <1>7. b \in Seq(Field) /\ Len(b) = k /\ \A i \in 1 .. k : b[i] = a[i]
    BY <1>4, <1>5, <1>6
  <1>8. /\ Len(Assigned(b)) \in Nat /\ Len(Assigned(b)) <= Len(Assigned(a))
        /\ \A j \in 1 .. Len(Assigned(b)) : Assigned(b)[j] = Assigned(a)[j]
    BY <1>2, <1>5, <1>7, AssignedPrefix, Zenon
  <1>9. ASSUME Done PROVE b = a
    <2>1. k = Len(a)
      BY <1>9, Zenon DEF Done, k, a
    <2>2. Len(b) = Len(a) /\ \A i \in 1 .. Len(b) : b[i] = a[i]
      BY <1>7, <2>1, Zenon
    <2>3. QED
      BY <1>2, <1>7, <2>2, SeqEqual, Zenon
  <1>10. QED
    BY <1>1, <1>5, <1>8, <1>9, Zenon DEF a, b, k

\* Where the last field of a record begins, and that none ends later than it.
LEMMA FieldEnds ==
  ASSUME NEW r \in Record
  PROVE  /\ FieldAt(r, Len(Fields(r))) = 8 * HeadBytes(r.msg) + Bits(Fields(r)) - 24
         /\ \A i \in 1 .. Len(Fields(r)) :
              FieldAt(r, i) + Fields(r)[i].bits <= 8 * HeadBytes(r.msg) + Bits(Fields(r))
  <1> DEFINE a == Fields(r)
             s == StepsOf(a)
             n == Len(a)
             h == 8 * HeadBytes(r.msg)
             t == Bits(a)
  <1>1. a \in Seq(Field) /\ n > 0 /\ a[n].step = 24
    BY RecordDecodes, FieldsKnown, Zenon DEF Decodes
  <1>2. h \in Nat
    BY DEF HeadBytes
  <1> HIDE DEF a, h
  <1>3. /\ s \in Seq(Nat) /\ Len(s) = n /\ t = Total(s) /\ t \in Nat
        /\ \A i \in 1 .. n : s[i] = a[i].step
    BY <1>1, StepsForm, Zenon
  <1>4. n \in Nat
    BY <1>1
  <1> HIDE DEF s, t
  <1>5. /\ Upto(s, n) = t
        /\ \A k \in 0 .. n : Upto(s, k) \in Nat
        /\ \A k \in 1 .. n : Upto(s, k) = Upto(s, k - 1) + s[k]
    BY <1>3, TotalSteps, Zenon
  <1>6. \A i : FieldAt(r, i) = h + Upto(s, i - 1)
    BY Zenon DEF FieldAt, h, s, a
  <1>7. FieldAt(r, n) = h + t - 24
    <2>1. n \in 1 .. n /\ n - 1 \in 0 .. n
      BY <1>1, <1>4
    <2> DEFINE x == Upto(s, n - 1)
    <2>2. t = x + s[n] /\ s[n] = a[n].step /\ x \in Nat
      BY <1>3, <1>5, <2>1, Zenon
    <2>3. FieldAt(r, n) = h + x
      BY <1>6, Zenon
    <2> HIDE DEF x
    <2>4. h + x = h + t - 24
      BY <1>1, <1>2, <2>2
    <2>5. QED
      BY <2>3, <2>4, Zenon
  <1>8. ASSUME NEW i \in 1 .. n PROVE FieldAt(r, i) + a[i].bits <= h + t
    <2> DEFINE x == Upto(s, i - 1)
               y == Upto(s, i)
               p == a[i].bits
               q == a[i].step
    <2>1. p \in Nat /\ q \in Nat /\ p <= q
      <3>1. a[i] \in Field
        BY <1>1 DEF n
      <3>2. /\ a[i].bits \in Nat /\ a[i].step \in Nat
            /\ a[i].bits = a[i].step \/ a[i].bits = 0 \/ a[i] = MeanAnomaly
        BY <3>1 DEF Field
      <3>3. MeanAnomaly.bits = 22 /\ MeanAnomaly.step = 32
        BY DEF MeanAnomaly, SD, F
      <3>4. CASE a[i] = MeanAnomaly
        BY <3>3, <3>4
      <3>5. CASE a[i].bits = a[i].step \/ a[i].bits = 0
        BY <3>2, <3>5
      <3>6. QED
        BY <3>2, <3>4, <3>5, Zenon
    <2>2. i - 1 \in 0 .. n /\ i \in 0 .. Len(s) /\ n \in i .. Len(s) /\ i \in 0 .. n
      BY <1>3, <1>4
    <2>3. y <= t
      BY <1>3, <1>5, <2>2, UptoOrder, Zenon
    <2>4. x \in Nat /\ y = x + q /\ y \in Nat
      BY <1>3, <1>5, <2>2, Zenon
    <2>5. FieldAt(r, i) = h + x
      BY <1>6, Zenon
    <2> HIDE DEF x, y, p, q
    <2>6. (h + x) + p <= h + t
      BY <1>2, <1>3, <2>1, <2>3, <2>4
    <2>7. QED
      BY <2>5, <2>6, Zenon DEF p
  <1>9. QED
    BY <1>7, <1>8, Zenon DEF a, n, h, t

-----------------------------------------------------------------------------
\* No record whose length is compared is read beyond its end, and the last field is the check
\* sum, where the scanner found it: the bit counter, which no decoder compares with the
\* length it is given, stays within the record (gnss_ephb.c:181-400,
\* gnss_ephb_decode.c:160-909).
THEOREM NothingReadBeyond == DecodeSpec => []ReadWithin
  <1>1. ReadInv /\ InOrder => ReadWithin
    <2> SUFFICES ASSUME ReadInv, InOrder, rec # <<>>
                 PROVE  /\ rec.msg \in Compared =>
                             \A i \in 1 .. Len(out) :
                               out[i].at + out[i].field.bits
                                 <= 8 * (HeadBytes(rec.msg) + Length(rec)) + Crc24.bits
                        /\ Done => LET at == out[Len(out)].at
                                   IN  IF rec.msg \in DOMAIN PAYLOAD_LEN
                                         THEN at = 8 * (HeadBytes(rec.msg) + PAYLOAD_LEN[rec.msg])
                                         ELSE at % 8 = 0
      BY Zenon DEF ReadWithin
    <2> DEFINE a == Fields(rec)
               h == HeadBytes(rec.msg)
               t == Bits(a)
               p == PAYLOAD_LEN[rec.msg]
    <2>1. rec \in Record /\ Len(out) \in 0 .. Len(a)
      BY ReadPrefix, Zenon
    <2>2. /\ FieldAt(rec, Len(a)) = 8 * h + t - 24
          /\ \A i \in 1 .. Len(a) : FieldAt(rec, i) + a[i].bits <= 8 * h + t
      BY <2>1, FieldEnds, Zenon
    <2>3. h \in Nat
      BY DEF HeadBytes
    <2>4. a \in Seq(Field) /\ Len(a) > 0 /\ t % 8 = 0
      BY <2>1, RecordDecodes, Zenon DEF Decodes, Pair
    <2>5. t \in Nat /\ Crc24.bits = 24
      <3>1. t \in Nat
        BY <2>4, StepsForm, Zenon
      <3>2. QED
        BY <3>1 DEF Crc24, Spare, F
    <2>6. /\ \A i \in 1 .. Len(out) : out[i].field = a[i] /\ out[i].at = FieldAt(rec, i)
          /\ LongEnough(rec)
      BY Zenon DEF InOrder
    <2>7. rec.msg \in DOMAIN PAYLOAD_LEN => t = 8 * p + 24 /\ p \in Nat
      BY <2>1, RecordLength, Zenon
    <2>8. ASSUME rec.msg \in Compared, NEW i \in 1 .. Len(out)
          PROVE  out[i].at + out[i].field.bits <= 8 * (h + Length(rec)) + Crc24.bits
      <3>1. rec.msg \in DOMAIN PAYLOAD_LEN
        BY <2>8, Zenon DEF Compared
      <3>2. Length(rec) >= p
        BY <2>6, <2>8 DEF LongEnough
      <3>3. Length(rec) \in Int
        <4>1. rec.longer \in Int
          BY <2>1 DEF Record
        <4> HIDE DEF t
        <4>2. ((t - Crc24.bits) \div 8) + rec.longer \in Int
          BY <2>5, <4>1
        <4>3. QED
          BY <4>2, Zenon DEF Length, t, a
      <3>4. i \in 1 .. Len(a)
        <4>1. Len(a) \in Nat
          BY <2>4
        <4> HIDE DEF a
        <4>2. QED
          BY <2>1, <4>1
      <3> DEFINE x == out[i].at + out[i].field.bits
                 l == Length(rec)
      <3>5. x <= 8 * h + t
        BY <2>2, <2>6, <3>4, Zenon
      <3>6. t = 8 * p + 24 /\ p \in Nat
        BY <2>7, <3>1, Zenon
      <3>7. x \in Int
        <4> DEFINE Entry == [at : Nat, field : Field, value : SUBSET Int]
        <4>1. out \in Seq(Entry)
          BY Zenon DEF ReadInv
        <4> HIDE DEF Entry
        <4>2. out[i] \in Entry
          BY <4>1
        <4>3. out[i].at \in Nat /\ out[i].field \in Field
          BY <4>2 DEF Entry
        <4>4. out[i].field.bits \in Nat
          BY <4>3 DEF Field
        <4>5. QED
          BY <4>3, <4>4
      <3> HIDE DEF x, l, h, t, p
      <3>8. l \in Int /\ l >= p
        BY <3>2, <3>3, Zenon DEF l
      <3>9. x <= 8 * (h + l) + 24
        BY <2>3, <3>5, <3>6, <3>7, <3>8
      <3>10. QED
        BY <2>5, <3>9, Zenon DEF x, l, h
    <2>9. ASSUME Done
          PROVE  LET at == out[Len(out)].at
                 IN  IF rec.msg \in DOMAIN PAYLOAD_LEN THEN at = 8 * (h + p) ELSE at % 8 = 0
      <3> DEFINE at == out[Len(out)].at
      <3>1. Len(out) = Len(a)
        BY <2>9, Zenon DEF Done
      <3>2. Len(a) \in 1 .. Len(a)
        <4> HIDE DEF a
        <4>1. QED
          BY <2>4
      <3>3. at = 8 * h + t - 24
        BY <2>2, <2>6, <3>1, <3>2, Zenon
      <3> HIDE DEF at, h, t, p
      <3>4. at % 8 = 0
        BY <2>3, <2>4, <2>5, <3>3
      <3>5. ASSUME rec.msg \in DOMAIN PAYLOAD_LEN PROVE at = 8 * (h + p)
        <4>1. t = 8 * p + 24 /\ p \in Nat
          BY <2>7, <3>5, Zenon
        <4>2. QED
          BY <2>3, <3>3, <4>1
      <3>6. QED
        BY <3>4, <3>5, Zenon DEF at
    <2>10. QED
      BY <2>8, <2>9, Zenon
  <1>2. QED
    BY <1>1, OrderSpecInv, PTL

\* No value is cut: each field fits what it is cast to and the member it is assigned to, in
\* the order of the struct, and no member is left over, in a record of any kind with any
\* number of satellites and signals (core/inc/gnss_func.h:115-527,
\* gnss_ephb_decode.c:160-909).
THEOREM MembersHoldFields == DecodeSpec => []FieldsFit
  <1>1. ReadInv /\ InOrder => FieldsFit
    <2> SUFFICES ASSUME ReadInv, InOrder, rec # <<>>
                 PROVE  LET read == Assigned([i \in 1 .. Len(out) |-> out[i].field])
                        IN  /\ \A k \in 1 .. Len(read) : /\ read[k].bits <= 8 * read[k].size
                                                         /\ read[k].size <= Struct(rec)[k]
                            /\ Done => Len(read) = Len(Struct(rec))
      BY Zenon DEF FieldsFit
    <2> DEFINE b == FieldsRead
               a == Fields(rec)
               st == Struct(rec)
    <2>1. /\ rec \in Record
          /\ Len(Assigned(b)) \in Nat /\ Len(Assigned(b)) <= Len(Assigned(a))
          /\ \A j \in 1 .. Len(Assigned(b)) : Assigned(b)[j] = Assigned(a)[j]
          /\ Done => b = a
      BY ReadPrefix, Zenon
    <2>2. Fits(Assigned(a), st) /\ st \in Seq(Nat)
      BY <2>1, RecordDecodes, Zenon DEF Decodes, Pair
    <2>3. b = [i \in 1 .. Len(out) |-> out[i].field]
      BY Zenon DEF FieldsRead
    <2> DEFINE x == Assigned(b)
               y == Assigned(a)
    <2> HIDE DEF a, b, st
    <2>4. /\ Len(y) = Len(st)
          /\ \A k \in 1 .. Len(st) : y[k].bits <= 8 * y[k].size /\ y[k].size <= st[k]
      BY <2>2, Zenon DEF Fits
    <2>5. ASSUME NEW k \in 1 .. Len(x)
          PROVE  x[k].bits <= 8 * x[k].size /\ x[k].size <= st[k]
      <3>1. x[k] = y[k]
        BY <2>1, Zenon
      <3>2. k \in 1 .. Len(st)
        <4>1. Len(st) \in Nat
          BY <2>2
        <4> HIDE DEF x, y
        <4>2. Len(x) \in Nat /\ Len(x) <= Len(y)
          BY <2>1, Zenon DEF x, y
        <4>3. QED
          BY <2>4, <4>1, <4>2
      <3>3. QED
        BY <2>4, <3>1, <3>2, Zenon
    <2>6. Done => Len(x) = Len(st)
      BY <2>1, <2>4, Zenon
    <2>7. QED
      BY <2>3, <2>5, <2>6, Zenon DEF st
  <1>2. QED
    BY <1>1, OrderSpecInv, PTL

\* The network gets every member of an ephemeris but the spare ones at its ends
\* (gnss_ephb.c:200, 260, 279, 320).
THEOREM EphemerisSentWhole == DecodeSpec => []SentWhole
  <1>1. ReadInv /\ InOrder => SentWhole
    <2> SUFFICES ASSUME ReadInv, InOrder, rec # <<>>, Done, IsSent(rec.msg)
                 PROVE  LET read == Assigned([i \in 1 .. Len(out) |-> out[i].field])
                        IN  \A k \in 1 .. Len(read) :
                              read[k].as # "spare"
                                <=> Total(SubSeq(Struct(rec), 1, k)) <= SentBytes(rec.msg)
      BY Zenon DEF SentWhole
    <2> DEFINE a == Fields(rec)
               st == Struct(rec)
    <2>1. rec \in Record /\ FieldsRead = a
      BY ReadPrefix, Zenon
    <2>2. SentTo(a, st, SentBytes(rec.msg))
      BY <2>1, RecordSent, Zenon
    <2>3. Len(Assigned(a)) = Len(st)
      BY <2>1, RecordDecodes, Zenon DEF Decodes, Pair, Fits
    <2> HIDE DEF a, st
    <2>4. [i \in 1 .. Len(out) |-> out[i].field] = a
      BY <2>1, Zenon DEF FieldsRead
    <2>5. /\ Assigned(a) = a
          /\ \A k \in 1 .. Len(st) :
               a[k].as # "spare" <=> Total(SubSeq(st, 1, k)) <= SentBytes(rec.msg)
      BY <2>2, Zenon DEF SentTo, Upto
    <2>6. QED
      BY <2>3, <2>4, <2>5, Zenon DEF st
  <1>2. QED
    BY <1>1, OrderSpecInv, PTL
===============================================================================
