--------------------------- MODULE RingQueueProofs ---------------------------
(***************************************************************************)
(* Lemmas about the ring, for every capacity: adding a frame appends it to *)
(* Contents, removing one removes the oldest, and both keep RingOK.        *)
(***************************************************************************)
EXTENDS RingQueue, SequenceTheorems, TLAPS

\* The index arithmetic of the code wraps at most once.
LEMMA WrapOnce ==
  ASSUME NEW x \in Nat, x < 2 * Capacity
  PROVE  x % Capacity = IF x < Capacity THEN x ELSE x - Capacity
  <1>1. CASE x < Capacity
    BY <1>1, CapacityAssumption
  <1>2. CASE x >= Capacity
    BY <1>2, CapacityAssumption
  <1>3. QED
    BY <1>1, <1>2, CapacityAssumption

\* The slot n places after h.
LEMMA SlotAfter ==
  ASSUME NEW h \in Slot, NEW n \in 0 .. Capacity
  PROVE  /\ (h + n) % Capacity = IF h + n < Capacity THEN h + n ELSE h + n - Capacity
         /\ (h + n) % Capacity \in Slot
  <1>1. h + n \in Nat /\ h + n < 2 * Capacity
    BY CapacityAssumption DEF Slot
  <1>2. (h + n) % Capacity = IF h + n < Capacity THEN h + n ELSE h + n - Capacity
    BY <1>1, WrapOnce, CapacityAssumption DEF Slot
  <1>3. QED
    BY <1>2, CapacityAssumption DEF Slot

\* The slot SlotOf(i) designates when the head is h.
LEMMA SlotAt ==
  ASSUME NEW h \in Slot, NEW i \in 1 .. Capacity
  PROVE  /\ (h + i - 1) % Capacity = IF h + i - 1 < Capacity THEN h + i - 1
                                     ELSE h + i - 1 - Capacity
         /\ (h + i - 1) % Capacity \in Slot
  <1>1. h + i - 1 \in Nat /\ h + i - 1 < 2 * Capacity
    BY CapacityAssumption DEF Slot
  <1>2. (h + i - 1) % Capacity = IF h + i - 1 < Capacity THEN h + i - 1
                                 ELSE h + i - 1 - Capacity
    BY <1>1, WrapOnce, CapacityAssumption DEF Slot
  <1>3. QED
    BY <1>2, CapacityAssumption DEF Slot

\* The next slot.
LEMMA AdvanceSlot ==
  ASSUME NEW h \in Slot
  PROVE  /\ Advance(h) = IF h + 1 < Capacity THEN h + 1 ELSE 0
         /\ Advance(h) \in Slot
  <1>1. 1 \in 0 .. Capacity
    BY CapacityAssumption
  <1>2. (h + 1) % Capacity = IF h + 1 < Capacity THEN h + 1 ELSE h + 1 - Capacity
    BY <1>1, SlotAfter
  <1>3. h + 1 < Capacity \/ h + 1 = Capacity
    BY CapacityAssumption DEF Slot
  <1>4. QED
    BY <1>2, <1>3, CapacityAssumption DEF Slot, Advance

\* Storing a frame in a ring that is not full.
LEMMA EnqueueAppends ==
  ASSUME NEW F, NULL \notin F, queue \in [Slot -> F \cup {NULL}],
         RingOK, ~QueueFull, NEW f \in F, Enqueue(f)
  PROVE  /\ Contents' = Append(Contents, f)
         /\ RingOK'
         /\ queue' \in [Slot -> F \cup {NULL}]
         /\ queue_tail' \in Slot
  <1> DEFINE h == queue_head
             n == queue_count
  <1>1. /\ n \in 0 .. Capacity - 1
        /\ h \in Slot
        /\ Capacity \in Nat /\ Capacity >= 1
    BY CapacityAssumption DEF RingOK, QueueFull
  <1>2. /\ queue_tail = SlotOf(n + 1)
        /\ queue_tail = IF h + n < Capacity THEN h + n ELSE h + n - Capacity
        /\ queue_tail \in Slot
    <2>1. queue_tail = (h + n) % Capacity
      BY DEF RingOK
    <2>2. /\ (h + n) % Capacity = IF h + n < Capacity THEN h + n ELSE h + n - Capacity
          /\ (h + n) % Capacity \in Slot
      BY <1>1, SlotAfter
    <2>3. n + 1 \in 1 .. Capacity /\ h + (n + 1) - 1 = h + n
      BY <1>1 DEF Slot
    <2>4. SlotOf(n + 1) = (h + n) % Capacity
      BY <2>3 DEF SlotOf
    <2>5. QED
      BY <2>1, <2>2, <2>4
  <1>3. /\ queue_head' = h
        /\ queue_count' = n + 1
        /\ queue_tail' = Advance(queue_tail)
        /\ queue' = [queue EXCEPT ![queue_tail] = f]
    BY DEF Enqueue
  <1>4. /\ queue' \in [Slot -> F \cup {NULL}]
        /\ queue'[queue_tail] = f
        /\ \A s \in Slot : s # queue_tail => queue'[s] = queue[s]
    BY <1>2, <1>3
  <1>5. ASSUME NEW i \in 1 .. Capacity
        PROVE  /\ SlotOf(i)' = SlotOf(i)
               /\ SlotOf(i) \in Slot
               /\ SlotOf(i) = IF h + i - 1 < Capacity THEN h + i - 1 ELSE h + i - 1 - Capacity
    BY <1>1, <1>3, SlotAt DEF SlotOf
  <1>6. \A i \in 1 .. n : SlotOf(i) # queue_tail
    BY <1>1, <1>2, <1>5 DEF Slot
  <1>7. Contents' = Append(Contents, f)
    <2>1. Contents' = [i \in 1 .. n + 1 |-> queue'[SlotOf(i)']]
      BY <1>3 DEF Contents
    <2>2. \A i \in 1 .. n : queue'[SlotOf(i)'] = queue[SlotOf(i)]
      BY <1>1, <1>4, <1>5, <1>6
    <2>3. \A i \in 1 .. Capacity : i = n + 1 => queue'[SlotOf(i)'] = f
      BY <1>1, <1>2, <1>4, <1>5
    <2>4. /\ Contents \in [1 .. n -> F \cup {NULL}]
          /\ \A i \in 1 .. n : Contents[i] = queue[SlotOf(i)]
      BY <1>1, <1>5 DEF Contents
    <2>5. Contents \in Seq(F \cup {NULL}) /\ Len(Contents) = n
      BY <1>1, <2>4
    <2>6. /\ Contents' \in [1 .. n + 1 -> F \cup {NULL}]
          /\ \A i \in 1 .. n : Contents'[i] = Contents[i]
          /\ Contents'[n + 1] = f
      <3>1. \A i \in 1 .. n + 1 : queue'[SlotOf(i)'] \in F \cup {NULL}
        <4>1. \A i \in 1 .. n + 1 : i \in 1 .. Capacity
          BY <1>1
        <4>2. QED
          BY <4>1, <1>4, <1>5
      <3>2. \A i \in 1 .. n : i \in 1 .. n + 1
        BY <1>1
      <3>3. n + 1 \in 1 .. n + 1
        BY <1>1
      <3>4. Contents' \in [1 .. n + 1 -> F \cup {NULL}]
        BY <2>1, <3>1
      <3>5. \A i \in 1 .. n : Contents'[i] = Contents[i]
        BY <2>1, <2>2, <2>4, <3>2
      <3>6. Contents'[n + 1] = f
        <4>1. n + 1 \in 1 .. Capacity
          BY <1>1
        <4>2. \A i \in 1 .. n + 1 : i = n + 1 => Contents'[i] = f
          BY <4>1, <2>1, <2>3
        <4>3. QED
          BY <3>3, <4>2
      <3>7. QED
        BY <3>4, <3>5, <3>6
    <2>7. Contents' \in Seq(F \cup {NULL}) /\ Len(Contents') = n + 1
      BY <1>1, <2>6
    <2>8. /\ Append(Contents, f) \in Seq(F \cup {NULL})
          /\ Len(Append(Contents, f)) = n + 1
          /\ \A i \in 1 .. n : Append(Contents, f)[i] = Contents[i]
          /\ Append(Contents, f)[n + 1] = f
      BY <2>5, AppendProperties
    <2>9. \A i \in 1 .. n + 1 : Contents'[i] = Append(Contents, f)[i]
      BY <1>1, <2>6, <2>8
    <2>10. QED
      BY <2>7, <2>8, <2>9, SeqEqual
  <1>8. queue_tail' \in Slot /\ queue_tail' = (queue_head' + queue_count') % Capacity
    <2>1. /\ queue_tail' \in Slot
          /\ queue_tail' = IF queue_tail + 1 < Capacity THEN queue_tail + 1 ELSE 0
      BY <1>2, <1>3, AdvanceSlot
    <2>2. (h + (n + 1)) % Capacity = IF h + (n + 1) < Capacity THEN h + (n + 1)
                                     ELSE h + (n + 1) - Capacity
      <3>1. n + 1 \in 0 .. Capacity
        BY <1>1
      <3>2. QED
        BY <1>1, <3>1, SlotAfter
    <2>3. QED
      BY <1>1, <1>2, <1>3, <2>1, <2>2 DEF Slot
  <1>9. ASSUME NEW s \in Slot
        PROVE  queue'[s] # NULL <=> \E i \in 1 .. queue_count' : s = SlotOf(i)'
    <2>1. CASE s = queue_tail
      BY <2>1, <1>1, <1>2, <1>3, <1>4, <1>5
    <2>2. CASE s # queue_tail
      <3>1. queue'[s] # NULL <=> \E i \in 1 .. n : s = SlotOf(i)
        BY <2>2, <1>4 DEF RingOK
      <3>2. (\E i \in 1 .. n : s = SlotOf(i)) <=> (\E i \in 1 .. n + 1 : s = SlotOf(i)')
        BY <2>2, <1>1, <1>2, <1>5
      <3>3. QED
        BY <3>1, <3>2, <1>3
    <2>3. QED
      BY <2>1, <2>2
  <1>10. QED
    BY <1>1, <1>3, <1>4, <1>7, <1>8, <1>9 DEF RingOK

\* Taking the oldest frame out of a ring that is not empty.
LEMMA DequeueTakesHead ==
  ASSUME NEW F, NULL \notin F, queue \in [Slot -> F \cup {NULL}],
         RingOK, ~QueueEmpty, Dequeue
  PROVE  /\ Front \in F
         /\ Contents # <<>>
         /\ Front = Head(Contents)
         /\ Contents' = Tail(Contents)
         /\ RingOK'
         /\ queue' \in [Slot -> F \cup {NULL}]
  <1> DEFINE h == queue_head
             n == queue_count
  <1>1. /\ n \in 1 .. Capacity
        /\ h \in Slot
        /\ Capacity \in Nat /\ Capacity >= 1
    BY CapacityAssumption DEF RingOK, QueueEmpty
  <1>2. /\ queue_head' = Advance(h)
        /\ queue_count' = n - 1
        /\ queue_tail' = queue_tail
        /\ queue' = [queue EXCEPT ![h] = NULL]
    BY DEF Dequeue
  <1>3. /\ queue_head' \in Slot
        /\ queue_head' = IF h + 1 < Capacity THEN h + 1 ELSE 0
    BY <1>1, <1>2, AdvanceSlot
  <1>4. /\ queue' \in [Slot -> F \cup {NULL}]
        /\ queue'[h] = NULL
        /\ \A s \in Slot : s # h => queue'[s] = queue[s]
    BY <1>1, <1>2
  <1>5. ASSUME NEW i \in 1 .. Capacity
        PROVE  /\ SlotOf(i) \in Slot
               /\ SlotOf(i) = IF h + i - 1 < Capacity THEN h + i - 1 ELSE h + i - 1 - Capacity
               /\ SlotOf(i)' = IF queue_head' + i - 1 < Capacity THEN queue_head' + i - 1
                               ELSE queue_head' + i - 1 - Capacity
    <2>1. /\ SlotOf(i) = (h + i - 1) % Capacity
          /\ SlotOf(i)' = (queue_head' + i - 1) % Capacity
      BY DEF SlotOf
    <2>2. \A g \in Slot :
            /\ (g + i - 1) % Capacity = IF g + i - 1 < Capacity THEN g + i - 1
                                        ELSE g + i - 1 - Capacity
            /\ (g + i - 1) % Capacity \in Slot
      BY SlotAt
    <2>3. QED
      BY <1>1, <1>3, <2>1, <2>2
  <1>6. SlotOf(1) = h /\ (\A i \in 1 .. Capacity : i # 1 => SlotOf(i) # h)
    BY <1>1, <1>5 DEF Slot
  <1>7. \A i \in 1 .. Capacity - 1 : SlotOf(i)' = SlotOf(i + 1)
    BY <1>1, <1>3, <1>5 DEF Slot
  <1>8. /\ Contents \in Seq(F \cup {NULL})
        /\ Len(Contents) = n
        /\ Contents[1] = Front
    BY <1>1, <1>5, <1>6 DEF Contents, Front
  <1>9. Front \in F
    BY <1>1, <1>6 DEF RingOK, Front
  <1>10. Contents' = Tail(Contents)
    <2>1. Contents' = [i \in 1 .. n - 1 |-> queue'[SlotOf(i)']]
      BY <1>2 DEF Contents
    <2>2. \A i \in 1 .. n - 1 : queue'[SlotOf(i)'] = queue[SlotOf(i + 1)]
      BY <1>1, <1>4, <1>5, <1>6, <1>7
    <2>3. Contents # <<>>
      BY <1>1, <1>8
    <2>4. /\ Tail(Contents) \in Seq(F \cup {NULL})
          /\ Len(Tail(Contents)) = n - 1
          /\ \A i \in 1 .. n - 1 : Tail(Contents)[i] = Contents[i + 1]
      BY <1>8, <2>3, HeadTailProperties
    <2>5. \A i \in 1 .. n - 1 : Contents[i + 1] = queue[SlotOf(i + 1)]
      BY <1>1 DEF Contents
    <2>6. Contents' \in [1 .. n - 1 -> F \cup {NULL}]
      <3>1. \A i \in 1 .. n - 1 : i + 1 \in 1 .. Capacity
        BY <1>1
      <3>2. QED
        BY <2>1, <2>2, <3>1, <1>5
    <2>7. Contents' \in Seq(F \cup {NULL}) /\ Len(Contents') = n - 1
      BY <1>1, <2>6
    <2>8. \A i \in 1 .. n - 1 : Contents'[i] = Tail(Contents)[i]
      BY <2>1, <2>2, <2>4, <2>5
    <2>9. QED
      BY <2>4, <2>7, <2>8, SeqEqual
  <1>11. queue_tail' = (queue_head' + queue_count') % Capacity
    <2>1. queue_tail = IF h + n < Capacity THEN h + n ELSE h + n - Capacity
      BY <1>1, SlotAfter DEF RingOK
    <2>2. (queue_head' + (n - 1)) % Capacity =
            IF queue_head' + (n - 1) < Capacity THEN queue_head' + (n - 1)
            ELSE queue_head' + (n - 1) - Capacity
      <3>1. n - 1 \in 0 .. Capacity
        BY <1>1
      <3>2. QED
        BY <1>3, <3>1, SlotAfter
    <2>3. QED
      BY <1>1, <1>2, <1>3, <2>1, <2>2 DEF Slot
  <1>12. ASSUME NEW s \in Slot
         PROVE  queue'[s] # NULL <=> \E i \in 1 .. queue_count' : s = SlotOf(i)'
    <2>1. CASE s = h
      BY <2>1, <1>1, <1>2, <1>4, <1>6, <1>7
    <2>2. CASE s # h
      <3>1. queue'[s] # NULL <=> \E i \in 1 .. n : s = SlotOf(i)
        BY <2>2, <1>4 DEF RingOK
      <3>2. (\E i \in 1 .. n : s = SlotOf(i)) <=> (\E i \in 2 .. n : s = SlotOf(i))
        BY <2>2, <1>1, <1>6
      <3>3. (\E i \in 2 .. n : s = SlotOf(i)) <=> (\E i \in 1 .. n - 1 : s = SlotOf(i + 1))
        <4>1. ASSUME NEW i \in 2 .. n, s = SlotOf(i)
              PROVE  \E j \in 1 .. n - 1 : s = SlotOf(j + 1)
          <5>1. i - 1 \in 1 .. n - 1 /\ (i - 1) + 1 = i
            BY <1>1
          <5>2. QED
            BY <5>1, <4>1
        <4>2. \A i \in 1 .. n - 1 : i + 1 \in 2 .. n
          BY <1>1
        <4>3. QED
          BY <4>1, <4>2
      <3>4. \A i \in 1 .. n - 1 : i \in 1 .. Capacity - 1
        BY <1>1
      <3>5. QED
        BY <3>1, <3>2, <3>3, <3>4, <1>2, <1>7
    <2>3. QED
      BY <2>1, <2>2
  <1>13. queue_count' \in 0 .. Capacity
    BY <1>1, <1>2
  <1>14. QED
    BY <1>3, <1>4, <1>8, <1>9, <1>10, <1>11, <1>12, <1>13, <1>1 DEF RingOK

\* The frames held form a sequence as long as the count says.
LEMMA ContentsType ==
  ASSUME NEW F, NULL \notin F, queue \in [Slot -> F \cup {NULL}], RingOK
  PROVE  /\ Contents \in Seq(F)
         /\ Len(Contents) = queue_count
  <1>1. queue_count \in 0 .. Capacity /\ queue_head \in Slot /\ Capacity \in Nat
    BY CapacityAssumption DEF RingOK
  <1>2. ASSUME NEW i \in 1 .. queue_count
        PROVE  queue[SlotOf(i)] \in F
    <2>1. i \in 1 .. Capacity
      BY <1>1
    <2>2. SlotOf(i) \in Slot
      BY <1>1, <2>1, SlotAt DEF SlotOf
    <2>3. queue[SlotOf(i)] # NULL
      BY <2>2 DEF RingOK
    <2>4. QED
      BY <2>2, <2>3
  <1>3. Contents \in [1 .. queue_count -> F]
    BY <1>2 DEF Contents
  <1>4. QED
    BY <1>1, <1>3

-----------------------------------------------------------------------------
(* A frame taken from the ring, in front of those that are left. *)

\* The first frame followed by the rest is the whole.
LEMMA HeadThenTail ==
  ASSUME NEW F, NEW s \in Seq(F), s # <<>>
  PROVE  <<Head(s)>> \o Tail(s) = s
  <1>1. Tail(s) \in Seq(F) /\ <<Head(s)>> \in Seq(F)
    BY HeadTailProperties
  <1>2. /\ Len(<<Head(s)>> \o Tail(s)) = Len(s)
        /\ <<Head(s)>> \o Tail(s) \in Seq(F)
        /\ \A i \in 1 .. Len(s) : (<<Head(s)>> \o Tail(s))[i] = s[i]
    BY <1>1, HeadTailProperties, ConcatProperties
  <1>3. QED
    BY <1>2, SeqEqual

\* A frame in front of others is the first, and they are the rest.
LEMMA PartsOfCons ==
  ASSUME NEW F, NEW f \in F, NEW s \in Seq(F)
  PROVE  /\ <<f>> \o s # <<>>
         /\ Head(<<f>> \o s) = f
         /\ Tail(<<f>> \o s) = s
  <1> DEFINE c == <<f>> \o s
  <1>1. /\ c \in Seq(F) /\ Len(c) = 1 + Len(s) /\ c[1] = f
        /\ \A i \in 1 .. Len(s) : c[i + 1] = s[i]
    BY ConcatProperties
  <1>2. c # <<>> /\ Head(c) = f
    BY <1>1
  <1>3. /\ Tail(c) \in Seq(F) /\ Len(Tail(c)) = Len(s)
        /\ \A i \in 1 .. Len(s) : Tail(c)[i] = s[i]
    BY <1>1, <1>2, HeadTailProperties
  <1>4. QED
    BY <1>2, <1>3, SeqEqual
==============================================================================
