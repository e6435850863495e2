----------------------------- MODULE MsgQProofs -----------------------------
(***************************************************************************)
(* Proofs about the message queue: for any number of CPUs and threads, any *)
(* ring size and any messages.                                             *)
(***************************************************************************)
EXTENDS MsgQ, SchedProofs, SequenceTheorems

\* The slot k places after the start of the buffer, for k < 2 * max_msgs.
Wrap(k) == IF k < max_msgs THEN k ELSE k - max_msgs

\* n messages of the buffer s from slot r on, oldest first.
Ring(s, r, n) == [i \in 1..n |-> s[(r + i - 1) % max_msgs]]

Buffers == [0..(max_msgs - 1) -> Messages \cup {None}]

\* A slot number that is past the end by less than a round wraps once.
LEMMA WrapIsModulo ==
    ASSUME NEW k \in Nat, k < max_msgs + max_msgs
    PROVE  k % max_msgs = Wrap(k) /\ Wrap(k) \in 0..(max_msgs - 1)
<1> max_msgs \in Nat \ {0}
  BY MsgQAssumption
<1>1. k < max_msgs => k % max_msgs = k
  OBVIOUS
<1>2. k >= max_msgs => k % max_msgs = k - max_msgs
  OBVIOUS
<1> QED
  BY <1>1, <1>2 DEF Wrap

(***************************************************************************)
(* What is in the ring, without the modulo.                                *)
(***************************************************************************)
LEMMA RingAt ==
    ASSUME NEW s \in Buffers, NEW r \in 0..(max_msgs - 1), NEW n \in 0..max_msgs
    PROVE  /\ Ring(s, r, n) \in Seq(Messages \cup {None})
           /\ Len(Ring(s, r, n)) = n
           /\ \A i \in 1..n : Ring(s, r, n)[i] = s[Wrap(r + i - 1)]
<1> max_msgs \in Nat \ {0}
  BY MsgQAssumption
<1>1. ASSUME NEW i \in 1..n PROVE Ring(s, r, n)[i] = s[Wrap(r + i - 1)] /\ Wrap(r + i - 1) \in 0..(max_msgs - 1)
  <2>1. r + i - 1 \in Nat /\ r + i - 1 < max_msgs + max_msgs
    OBVIOUS
  <2> QED
    BY <2>1, WrapIsModulo DEF Ring
<1>2. Ring(s, r, n) \in [1..n -> Messages \cup {None}]
  BY <1>1 DEF Ring, Buffers
<1> QED
  BY <1>1, <1>2

(***************************************************************************)
(* A message written behind the last one is appended.                      *)
(***************************************************************************)
LEMMA RingAppend ==
    ASSUME NEW s \in Buffers, NEW r \in 0..(max_msgs - 1), NEW n \in 0..(max_msgs - 1),
           NEW s2 \in Buffers, NEW m \in Messages \cup {None}, s2[Wrap(r + n)] = m,
           \A j \in 0..(max_msgs - 1) : j # Wrap(r + n) => s2[j] = s[j]
    PROVE  Ring(s2, r, n + 1) = Append(Ring(s, r, n), m)
<1> max_msgs \in Nat \ {0}
  BY MsgQAssumption
<1>1. PICK k \in 1..max_msgs : k = n + 1
  OBVIOUS
<1>2. /\ Ring(s2, r, k) \in Seq(Messages \cup {None}) /\ Len(Ring(s2, r, k)) = k
      /\ \A i \in 1..k : Ring(s2, r, k)[i] = s2[Wrap(r + i - 1)]
  BY RingAt
<1>3. /\ Ring(s, r, n) \in Seq(Messages \cup {None}) /\ Len(Ring(s, r, n)) = n
      /\ \A i \in 1..n : Ring(s, r, n)[i] = s[Wrap(r + i - 1)]
  BY RingAt
<1>4. PICK f \in Seq(Messages \cup {None}) : f = Ring(s2, r, k)
  BY <1>2
<1>5. PICK g \in Seq(Messages \cup {None}) : g = Ring(s, r, n)
  BY <1>3
<1>6. /\ Append(g, m) \in Seq(Messages \cup {None}) /\ Len(Append(g, m)) = k
      /\ Append(g, m)[k] = m /\ \A i \in 1..n : Append(g, m)[i] = g[i]
  BY <1>1, <1>3, <1>5, AppendProperties
<1>7. f[k] = m
  BY <1>1, <1>2, <1>4
<1>8. ASSUME NEW i \in 1..n PROVE f[i] = g[i]
  <2>1. i \in 1..k /\ Wrap(r + i - 1) \in 0..(max_msgs - 1) /\ Wrap(r + i - 1) # Wrap(r + n)
    BY <1>1 DEF Wrap
  <2>2. s2[Wrap(r + i - 1)] = s[Wrap(r + i - 1)]
    BY <2>1
  <2> QED
    BY <1>2, <1>3, <1>4, <1>5, <2>1, <2>2
<1>9. PICK h \in Seq(Messages \cup {None}) : h = Append(g, m)
  BY <1>6
<1>10. Len(f) = Len(h) /\ \A i \in 1..Len(f) : f[i] = h[i]
  BY <1>1, <1>2, <1>4, <1>6, <1>7, <1>8, <1>9
<1>11. f = h
  BY <1>10, SeqEqual
<1> QED
  BY <1>1, <1>4, <1>5, <1>9, <1>11

(***************************************************************************)
(* Reading the oldest message and moving the read pointer drops it.        *)
(***************************************************************************)
LEMMA RingTail ==
    ASSUME NEW s \in Buffers, NEW r \in 0..(max_msgs - 1), NEW n \in 1..max_msgs
    PROVE  /\ [s EXCEPT ![r] = None] \in Buffers /\ Advance(r) \in 0..(max_msgs - 1)
           /\ Ring([s EXCEPT ![r] = None], Advance(r), n - 1) = Tail(Ring(s, r, n))
<1> max_msgs \in Nat \ {0}
  BY MsgQAssumption
<1>0. PICK s2 : s2 = [s EXCEPT ![r] = None]
  OBVIOUS
<1>1. s2 \in Buffers
  BY <1>0 DEF Buffers
<1>2. PICK a : a = Advance(r)
  OBVIOUS
<1>3. a \in 0..(max_msgs - 1) /\ n - 1 \in 0..max_msgs /\ n \in 0..max_msgs
  BY <1>2 DEF Advance
<1>4. /\ Ring(s2, a, n - 1) \in Seq(Messages \cup {None}) /\ Len(Ring(s2, a, n - 1)) = n - 1
      /\ \A i \in 1..(n - 1) : Ring(s2, a, n - 1)[i] = s2[Wrap(a + i - 1)]
  BY <1>1, <1>3, RingAt
<1>5. /\ Ring(s, r, n) \in Seq(Messages \cup {None}) /\ Len(Ring(s, r, n)) = n
      /\ \A i \in 1..n : Ring(s, r, n)[i] = s[Wrap(r + i - 1)]
  BY <1>3, RingAt
<1>6. ASSUME NEW i \in 1..(n - 1)
      PROVE  s2[Wrap(a + i - 1)] = s[Wrap(r + i)]
  BY <1>0, <1>2 DEF Wrap, Buffers, Advance
<1>7. Ring(s, r, n) # <<>>
  BY <1>5, EmptySeq
<1>8. /\ Tail(Ring(s, r, n)) \in Seq(Messages \cup {None})
      /\ Len(Tail(Ring(s, r, n))) = n - 1
      /\ \A i \in 1..(n - 1) : Tail(Ring(s, r, n))[i] = Ring(s, r, n)[i + 1]
  BY <1>5, <1>7, HeadTailProperties
<1>9. ASSUME NEW i \in 1..(n - 1) PROVE Tail(Ring(s, r, n))[i] = Ring(s2, a, n - 1)[i]
  <2>1. i + 1 \in 1..n /\ r + (i + 1) - 1 = r + i
    OBVIOUS
  <2> QED
    BY <1>4, <1>5, <1>6, <1>8, <2>1
<1>10. Ring(s2, a, n - 1) = Tail(Ring(s, r, n))
  BY <1>4, <1>8, <1>9, SeqEqual
<1> QED
  BY <1>0, <1>1, <1>2, <1>3, <1>10

(***************************************************************************)
(* A message written in the slot before the oldest one goes to the front.  *)
(***************************************************************************)
LEMMA RingPush ==
    ASSUME NEW s \in Buffers, NEW r \in 0..(max_msgs - 1), NEW n \in 0..(max_msgs - 1),
           NEW m \in Messages \cup {None}
    PROVE  /\ [s EXCEPT ![Retreat(r)] = m] \in Buffers /\ Retreat(r) \in 0..(max_msgs - 1)
           /\ Ring([s EXCEPT ![Retreat(r)] = m], Retreat(r), n + 1) = <<m>> \o Ring(s, r, n)
<1> max_msgs \in Nat \ {0}
  BY MsgQAssumption
<1>0. PICK a : a = Retreat(r)
  OBVIOUS
<1>1. PICK s2 : s2 = [s EXCEPT ![a] = m]
  OBVIOUS
<1>2. s2 \in Buffers
  BY <1>1 DEF Buffers
<1>3. a \in 0..(max_msgs - 1) /\ n + 1 \in 0..max_msgs /\ n \in 0..max_msgs
  BY <1>0 DEF Retreat
<1>4. /\ Ring(s2, a, n + 1) \in Seq(Messages \cup {None}) /\ Len(Ring(s2, a, n + 1)) = n + 1
      /\ \A i \in 1..(n + 1) : Ring(s2, a, n + 1)[i] = s2[Wrap(a + i - 1)]
  BY <1>2, <1>3, RingAt
<1>5. /\ Ring(s, r, n) \in Seq(Messages \cup {None}) /\ Len(Ring(s, r, n)) = n
      /\ \A i \in 1..n : Ring(s, r, n)[i] = s[Wrap(r + i - 1)]
  BY <1>3, RingAt
<1>6. ASSUME NEW i \in 1..(n + 1)
      PROVE  s2[Wrap(a + i - 1)] = IF i = 1 THEN m ELSE s[Wrap(r + (i - 1) - 1)]
  BY <1>0, <1>1 DEF Wrap, Buffers, Retreat
<1>7. <<m>> \in Seq(Messages \cup {None}) /\ Len(<<m>>) = 1 /\ <<m>>[1] = m
  OBVIOUS
<1>8. /\ <<m>> \o Ring(s, r, n) \in Seq(Messages \cup {None})
      /\ Len(<<m>> \o Ring(s, r, n)) = n + 1
      /\ \A i \in 1..(n + 1) : (<<m>> \o Ring(s, r, n))[i] =
             IF i <= 1 THEN <<m>>[i] ELSE Ring(s, r, n)[i - 1]
  <2>1. PICK f \in Seq(Messages \cup {None}) : f = <<m>>
    BY <1>7
  <2>2. PICK g \in Seq(Messages \cup {None}) : g = Ring(s, r, n)
    BY <1>5
  <2>3. /\ f \o g \in Seq(Messages \cup {None})
        /\ Len(f \o g) = Len(f) + Len(g)
        /\ \A i \in 1..(Len(f) + Len(g)) :
              (f \o g)[i] = IF i <= Len(f) THEN f[i] ELSE g[i - Len(f)]
    BY ConcatProperties
  <2>4. Len(f) = 1 /\ Len(g) = n
    BY <1>5, <1>7, <2>1, <2>2
  <2> QED
    BY <2>1, <2>2, <2>3, <2>4
<1>9. ASSUME NEW i \in 1..(n + 1) PROVE (<<m>> \o Ring(s, r, n))[i] = Ring(s2, a, n + 1)[i]
  <2>1. CASE i = 1
    BY <1>4, <1>6, <1>7, <1>8, <2>1
  <2>2. CASE i # 1
    <3>1. PICK j \in 1..n : j = i - 1
      BY <2>2
    <3>2. (<<m>> \o Ring(s, r, n))[i] = Ring(s, r, n)[j]
      BY <1>8, <2>2, <3>1
    <3>3. Ring(s2, a, n + 1)[i] = s[Wrap(r + j - 1)]
      BY <1>4, <1>6, <2>2, <3>1
    <3> QED
      BY <1>5, <3>2, <3>3
  <2> QED
    BY <2>1, <2>2
<1>10. Ring(s2, a, n + 1) = <<m>> \o Ring(s, r, n)
  <2>1. PICK f \in Seq(Messages \cup {None}) : f = Ring(s2, a, n + 1)
    BY <1>4
  <2>2. PICK g \in Seq(Messages \cup {None}) : g = <<m>> \o Ring(s, r, n)
    BY <1>8
  <2>3. Len(f) = Len(g) /\ \A i \in 1..Len(f) : f[i] = g[i]
    BY <1>4, <1>8, <1>9, <2>1, <2>2
  <2> QED
    BY <2>1, <2>2, <2>3, SeqEqual
<1> QED
  BY <1>0, <1>1, <1>2, <1>3, <1>10

(***************************************************************************)
(* A full ring: the slot that is read is the one that is written next, so  *)
(* the message of a waiting sender comes behind the others.                *)
(***************************************************************************)
LEMMA RingShift ==
    ASSUME NEW s \in Buffers, NEW r \in 0..(max_msgs - 1), NEW n \in 1..max_msgs,
           NEW s3 \in Buffers, NEW m \in Messages \cup {None}, s3[Wrap(r + n)] = m,
           \A j \in 0..(max_msgs - 1) :
               j # Wrap(r + n) => s3[j] = IF j = r THEN None ELSE s[j]
    PROVE  Ring(s3, Advance(r), n) = Append(Tail(Ring(s, r, n)), m)
<1> max_msgs \in Nat \ {0}
  BY MsgQAssumption
<1>1. PICK s2 : s2 = [s EXCEPT ![r] = None]
  OBVIOUS
<1>2. PICK a \in 0..(max_msgs - 1) : a = Advance(r)
  BY DEF Advance
<1>3. s2 \in Buffers /\ Ring(s2, a, n - 1) = Tail(Ring(s, r, n))
  BY <1>1, <1>2, RingTail
<1>4. PICK k \in 0..(max_msgs - 1) : k = n - 1
  OBVIOUS
<1>5. Wrap(r + n) = Wrap(a + k)
  BY <1>2, <1>4 DEF Wrap, Advance
<1>6. \A j \in 0..(max_msgs - 1) : s2[j] = IF j = r THEN None ELSE s[j]
  BY <1>1 DEF Buffers
<1>7. s3[Wrap(a + k)] = m /\ \A j \in 0..(max_msgs - 1) : j # Wrap(a + k) => s3[j] = s2[j]
  BY <1>5, <1>6
<1>8. Ring(s3, a, k + 1) = Append(Ring(s2, a, k), m)
  BY <1>3, <1>7, RingAppend
<1>9. k + 1 = n
  BY <1>4
<1> QED
  BY <1>2, <1>3, <1>4, <1>8, <1>9

-----------------------------------------------------------------------------
(* The inductive invariant.                                                *)

PutGet == {"put", "get"}

(***************************************************************************)
(* A thread on the wait queue is a sender with a message while the ring is *)
(* full, or a receiver while it is empty, and its answer is -EAGAIN until  *)
(* it is served; in either call it waits for nothing else.                 *)
(***************************************************************************)
Waiter(t) ==
    /\ pended_on[t] = msgq =>
         /\ swap_retval[t] = "EAGAIN"
         /\ \/ call[t] = "put" /\ used_msgs = max_msgs /\ swap_data[t] \in Messages
            \/ call[t] = "get" /\ used_msgs = 0
    /\ call[t] \in PutGet => pended_on[t] \in {msgq, None}

RingInv ==
    /\ slots \in Buffers
    /\ read_ptr \in 0..(max_msgs - 1)
    /\ used_msgs \in 0..max_msgs
    /\ write_ptr = Wrap(read_ptr + used_msgs)
    /\ Contents \in Seq(Messages)

MsgQInv ==
    /\ SchedInv
    /\ RingInv
    /\ swap_data \in [Threads -> Messages \cup {None}]
    /\ \A t \in Threads : Waiter(t)

\* The message queue's wait queue is none of the threads' queues.
LEMMA MsgQIsObject == msgq \in Objects /\ msgq # None
  BY MsgQAssumption, SchedAssumption

\* Contents is a ring of slots, and as long as the count says.
LEMMA ContentsIsRing ==
    ASSUME RingInv
    PROVE  /\ Contents = Ring(slots, read_ptr, used_msgs)
           /\ Len(Contents) = used_msgs
           /\ \A i \in 1..used_msgs : Contents[i] = slots[Wrap(read_ptr + i - 1)]
           /\ Contents = <<>> <=> used_msgs = 0
<1>1. Contents = Ring(slots, read_ptr, used_msgs)
  BY DEF Contents, Ring
<1>2. /\ Len(Contents) = used_msgs
      /\ \A i \in 1..used_msgs : Contents[i] = slots[Wrap(read_ptr + i - 1)]
  BY <1>1, RingAt DEF RingInv
<1>3. Contents = <<>> <=> used_msgs = 0
  BY <1>2, EmptySeq DEF RingInv
<1> QED
  BY <1>1, <1>2, <1>3

(***************************************************************************)
(* The inductive invariant implies the properties of the ring and of its   *)
(* waiters.                                                                *)
(***************************************************************************)
LEMMA MsgQInvImplies ==
    MsgQInv => TypeOK /\ WaitersMatch /\ RingConsistent /\ PeekFindsMessage
<1> SUFFICES ASSUME MsgQInv PROVE TypeOK /\ WaitersMatch /\ RingConsistent /\ PeekFindsMessage
  OBVIOUS
<1> max_msgs \in Nat \ {0}
  BY MsgQAssumption
<1> RingInv
  BY DEF MsgQInv
<1>1. TypeOK
  <2>1. write_ptr \in 0..(max_msgs - 1)
    BY DEF RingInv, Wrap
  <2> QED
    BY <2>1 DEF MsgQInv, SchedInv, RingInv, Buffers, TypeOK
<1>2. WaitersMatch
  BY DEF MsgQInv, Waiter, WaitersMatch, wait_q
<1>3. RingConsistent
  BY DEF RingInv, RingConsistent, Wrap
<1>4. ASSUME NEW idx \in 0..(used_msgs - 1)
      PROVE  /\ PeekIndex(idx) \in 0..(max_msgs - 1)
             /\ slots[PeekIndex(idx)] = Contents[idx + 1]
             /\ Contents[idx + 1] # None
  <2>1. PICK i \in 1..used_msgs : i = idx + 1
    BY DEF RingInv
  <2>2. PeekIndex(idx) = Wrap(read_ptr + i - 1) /\ PeekIndex(idx) \in 0..(max_msgs - 1)
    BY <2>1 DEF PeekIndex, Wrap, RingInv
  <2>3. Contents[i] \in Messages
    BY ContentsIsRing, ElementOfSeq DEF RingInv
  <2> QED
    BY <2>1, <2>2, <2>3, ContentsIsRing, MsgQAssumption
<1> QED
  BY <1>1, <1>2, <1>3, <1>4 DEF PeekFindsMessage

-----------------------------------------------------------------------------
(* What the operations do to the ring.                                     *)

(***************************************************************************)
(* k_msgq_put() appends.                                                   *)
(***************************************************************************)
LEMMA PutAtBackRing ==
    ASSUME RingInv, NEW m \in Messages, PutAtBack(m)
    PROVE  RingInv' /\ Contents' = Append(Contents, m)
<1> max_msgs \in Nat \ {0}
  BY MsgQAssumption
<1>1. PICK s \in Buffers : s = slots
  BY DEF RingInv
<1>2. PICK r \in 0..(max_msgs - 1) : r = read_ptr
  BY DEF RingInv
<1>3. PICK n \in 0..(max_msgs - 1) : n = used_msgs
  BY DEF RingInv, PutAtBack
<1>4. PICK w \in 0..(max_msgs - 1) : w = write_ptr /\ w = Wrap(r + n)
  <2>1. Wrap(r + n) \in 0..(max_msgs - 1)
    BY DEF Wrap
  <2>2. write_ptr = Wrap(r + n)
    BY <1>2, <1>3 DEF RingInv
  <2> QED
    BY <2>1, <2>2
<1>5. PICK s2 : s2 = [s EXCEPT ![w] = m]
  OBVIOUS
<1>6. slots' = s2 /\ read_ptr' = r /\ used_msgs' = n + 1 /\ write_ptr' = Advance(w)
  BY <1>1, <1>2, <1>3, <1>4, <1>5 DEF PutAtBack
<1>7. s2 \in Buffers
  BY <1>5 DEF Buffers
<1>8. s2[w] = m /\ \A j \in 0..(max_msgs - 1) : j # w => s2[j] = s[j]
  BY <1>5 DEF Buffers
<1>9. Ring(s2, r, n + 1) = Append(Ring(s, r, n), m)
  BY <1>4, <1>7, <1>8, RingAppend
<1>10. Contents' = Append(Contents, m)
  BY <1>1, <1>2, <1>3, <1>6, <1>9 DEF Contents, Ring
<1>11. Contents' \in Seq(Messages)
  BY <1>10, AppendProperties DEF RingInv
<1>12. write_ptr' = Wrap(r + (n + 1)) /\ n + 1 \in 0..max_msgs
  BY <1>4, <1>6 DEF Advance, Wrap
<1> QED
  BY <1>6, <1>7, <1>10, <1>11, <1>12 DEF RingInv

(***************************************************************************)
(* k_msgq_put_front() prepends.                                            *)
(***************************************************************************)
LEMMA PutAtFrontRing ==
    ASSUME RingInv, NEW m \in Messages, PutAtFront(m)
    PROVE  RingInv' /\ Contents' = <<m>> \o Contents
<1> max_msgs \in Nat \ {0}
  BY MsgQAssumption
<1>1. PICK s \in Buffers : s = slots
  BY DEF RingInv
<1>2. PICK r \in 0..(max_msgs - 1) : r = read_ptr
  BY DEF RingInv
<1>3. PICK n \in 0..(max_msgs - 1) : n = used_msgs
  BY DEF RingInv, PutAtFront
<1>4. /\ slots' = [s EXCEPT ![Retreat(r)] = m] /\ read_ptr' = Retreat(r)
      /\ used_msgs' = n + 1 /\ write_ptr' = Wrap(r + n)
  BY <1>1, <1>2, <1>3 DEF PutAtFront, RingInv
<1>5. PICK s2, p : s2 = [s EXCEPT ![Retreat(r)] = m] /\ p = Retreat(r)
  OBVIOUS
<1>6. m \in Messages \cup {None}
  OBVIOUS
<1>7. /\ s2 \in Buffers /\ p \in 0..(max_msgs - 1)
      /\ Ring(s2, p, n + 1) = <<m>> \o Ring(s, r, n)
  BY <1>5, <1>6, RingPush, Zenon
<1>8. slots' = s2 /\ read_ptr' = p /\ used_msgs' = n + 1 /\ write_ptr' = Wrap(r + n)
  BY <1>4, <1>5
<1>9. Contents = Ring(s, r, n)
  BY <1>1, <1>2, <1>3 DEF Contents, Ring
<1>10. Contents' = Ring(s2, p, n + 1)
  BY <1>8 DEF Contents, Ring
<1>11. Contents' = <<m>> \o Contents
  BY <1>7, <1>9, <1>10
<1>12. Contents' \in Seq(Messages)
  BY <1>11, ConcatProperties DEF RingInv
<1>13. write_ptr' = Wrap(p + (n + 1)) /\ n + 1 \in 0..max_msgs
  BY <1>5, <1>8 DEF Retreat, Wrap
<1> QED
  BY <1>7, <1>8, <1>11, <1>12, <1>13 DEF RingInv

(***************************************************************************)
(* k_msgq_get() takes the oldest message and, if a sender waits, lets its  *)
(* message in.                                                             *)
(***************************************************************************)
LEMMA GetRing ==
    ASSUME RingInv, used_msgs > 0, read_ptr' = Advance(read_ptr),
           NEW m \in Messages,
           \/ /\ slots' = [slots EXCEPT ![read_ptr] = None]
              /\ used_msgs' = used_msgs - 1 /\ UNCHANGED write_ptr
           \/ /\ slots' = [slots EXCEPT ![read_ptr] = None, ![write_ptr] = m]
              /\ write_ptr' = Advance(write_ptr) /\ UNCHANGED used_msgs
    PROVE  /\ RingInv'
           /\ used_msgs' = used_msgs - 1 => Contents' = Tail(Contents)
           /\ used_msgs' = used_msgs => Contents' = Append(Tail(Contents), m)
<1> max_msgs \in Nat \ {0}
  BY MsgQAssumption
<1>1. PICK s \in Buffers : s = slots
  BY DEF RingInv
<1>2. PICK r \in 0..(max_msgs - 1) : r = read_ptr
  BY DEF RingInv
<1>3. PICK n \in 1..max_msgs : n = used_msgs
  BY DEF RingInv
<1>4. PICK w \in 0..(max_msgs - 1) : w = write_ptr /\ w = Wrap(r + n)
  <2>1. Wrap(r + n) \in 0..(max_msgs - 1)
    BY DEF Wrap
  <2>2. write_ptr = Wrap(r + n)
    BY <1>2, <1>3 DEF RingInv
  <2> QED
    BY <2>1, <2>2
<1>5. Contents = Ring(s, r, n) /\ Contents # <<>>
  BY <1>1, <1>2, <1>3, ContentsIsRing
<1>6. Tail(Contents) \in Seq(Messages)
  BY <1>5, HeadTailProperties DEF RingInv
<1>7. /\ [s EXCEPT ![r] = None] \in Buffers /\ Advance(r) \in 0..(max_msgs - 1)
      /\ Ring([s EXCEPT ![r] = None], Advance(r), n - 1) = Tail(Ring(s, r, n))
  BY RingTail
<1>8. CASE /\ slots' = [slots EXCEPT ![read_ptr] = None]
           /\ used_msgs' = used_msgs - 1 /\ UNCHANGED write_ptr
  <2>1. Contents' = Tail(Contents)
    BY <1>1, <1>2, <1>3, <1>5, <1>7, <1>8 DEF Contents, Ring
  <2>2. write_ptr' = Wrap(Advance(r) + (n - 1)) /\ n - 1 \in 0..max_msgs /\ n - 1 # n
    BY <1>4, <1>8 DEF Wrap, Advance
  <2> QED
    BY <1>1, <1>2, <1>3, <1>6, <1>7, <1>8, <2>1, <2>2 DEF RingInv
<1>9. CASE /\ slots' = [slots EXCEPT ![read_ptr] = None, ![write_ptr] = m]
           /\ write_ptr' = Advance(write_ptr) /\ UNCHANGED used_msgs
  <2>1. PICK s3 : s3 = [[s EXCEPT ![r] = None] EXCEPT ![w] = m]
    OBVIOUS
  <2>2. slots' = s3 /\ w = Wrap(r + n)
    BY <1>1, <1>2, <1>4, <1>9, <2>1
  <2>3. s3 \in Buffers /\ Ring(s3, Advance(r), n) = Append(Tail(Ring(s, r, n)), m)
    <3>1. s3 \in Buffers
      BY <2>1 DEF Buffers
    <3>2. /\ s3[w] = m
          /\ \A j \in 0..(max_msgs - 1) : j # w => s3[j] = IF j = r THEN None ELSE s[j]
      BY <2>1 DEF Buffers
    <3>3. /\ s3[Wrap(r + n)] = m
          /\ \A j \in 0..(max_msgs - 1) :
                j # Wrap(r + n) => s3[j] = IF j = r THEN None ELSE s[j]
      BY <2>2, <3>2
    <3> QED
      BY <3>1, <3>3, RingShift
  <2>4. Contents' = Append(Tail(Contents), m)
    BY <1>2, <1>3, <1>5, <1>9, <2>2, <2>3 DEF Contents, Ring
  <2>5. write_ptr' = Wrap(Advance(r) + n) /\ n - 1 # n
    <3>1. write_ptr' = Advance(w)
      BY <1>4, <1>9
    <3>2. w = Wrap(r + n)
      BY <1>4
    <3>3. Advance(w) = Wrap(Advance(r) + n)
      BY <3>2 DEF Wrap, Advance
    <3> QED
      BY <3>1, <3>3
  <2>6. Contents' \in Seq(Messages)
    BY <1>6, <2>4, AppendProperties
  <2> QED
    BY <1>2, <1>3, <1>7, <1>9, <2>2, <2>5, <2>6, <2>3, <2>4 DEF RingInv
<1> QED
  BY <1>8, <1>9

-----------------------------------------------------------------------------
(* What the operations do to the clients of the abstract queue.            *)

WaitingIn(t) == IF pended_on[t] = msgq THEN call[t] ELSE "none"

AnswerOf(t) ==
    IF call[t] \in {"put", "get"} /\ pended_on[t] # msgq
    THEN (IF swap_retval[t] = "0" THEN "ok" ELSE "failed") ELSE "none"

Same(t) == WaitingIn(t)' = WaitingIn(t) /\ AnswerOf(t)' = AnswerOf(t)

(***************************************************************************)
(* The abstract steps, from what happens to each client.                   *)
(***************************************************************************)
LEMMA ClientsSame ==
    ASSUME \A u \in Threads : Same(u)
    PROVE  /\ [t \in Threads |-> IF pended_on[t] = msgq THEN call[t] ELSE "none"]' =
                  [t \in Threads |-> IF pended_on[t] = msgq THEN call[t] ELSE "none"]
           /\ [t \in Threads |->
                  IF call[t] \in {"put", "get"} /\ pended_on[t] # msgq
                  THEN (IF swap_retval[t] = "0" THEN "ok" ELSE "failed") ELSE "none"]' =
              [t \in Threads |->
                  IF call[t] \in {"put", "get"} /\ pended_on[t] # msgq
                  THEN (IF swap_retval[t] = "0" THEN "ok" ELSE "failed") ELSE "none"]
  BY DEF Same, WaitingIn, AnswerOf

(***************************************************************************)
(* A put with nobody waiting is a Put of the abstract queue.               *)
(***************************************************************************)
LEMMA PutRefines ==
    ASSUME MsgQInv, NEW m \in Messages, PutAtBack(m) \/ PutAtFront(m)
    PROVE  MsgQInv' /\ Queue!Next
<1>1. RingInv /\ SchedInv
  BY DEF MsgQInv
<1>2. UNCHANGED schedVars /\ UNCHANGED swap_data /\ used_msgs < max_msgs /\ wait_q(msgq) = {}
  BY DEF PutAtBack, PutAtFront
<1>3. SchedInv'
  BY <1>1, <1>2, SchedInvStutters
<1>4. UNCHANGED <<pended_on, call, swap_retval>>
  BY <1>2 DEF schedVars, threadVars
<1>5. \A t \in Threads : pended_on[t] # msgq
  BY <1>2 DEF wait_q
<1>6. \A t \in Threads : Waiter(t)' /\ Same(t)
  BY <1>4, <1>5 DEF MsgQInv, Waiter, Same, WaitingIn, AnswerOf
<1>7. RingInv' /\ (Contents' = Append(Contents, m) \/ Contents' = <<m>> \o Contents)
  BY <1>1, PutAtBackRing, PutAtFrontRing
<1>8. MsgQInv'
  BY <1>2, <1>3, <1>6, <1>7 DEF MsgQInv
<1>9. Len(Contents) < max_msgs /\ Queue!Nobody("get")
  BY <1>1, <1>2, <1>5, ContentsIsRing DEF Queue!Nobody
<1>10. Queue!Put(m) \/ Queue!PutFront(m)
  BY <1>2, <1>6, <1>7, <1>9, ClientsSame DEF Queue!Put, Queue!PutFront
<1> QED
  BY <1>8, <1>10 DEF Queue!Next

(***************************************************************************)
(* One client stops waiting, and is told what became of its call.          *)
(***************************************************************************)
LEMMA ClientAnswered ==
    ASSUME NEW x \in Threads, NEW a, WaitingIn(x)' = "none", AnswerOf(x)' = a,
           \A u \in Threads \ {x} : Same(u)
    PROVE  Queue!Answered(x, a)
  BY DEF Queue!Answered, Same, WaitingIn, AnswerOf

(***************************************************************************)
(* Waking one waiter concerns no other client.                             *)
(***************************************************************************)
LEMMA WakeOne ==
    ASSUME MsgQInv, NEW w \in wait_q(msgq), z_sched_wake({w}, "0")
    PROVE  /\ w \in Threads /\ SchedInv'
           /\ Queue!Answered(w, "ok")
           /\ WaitingIn(w) = call[w] /\ call[w] \in PutGet
           /\ \A u \in Threads : /\ call'[u] = call[u]
                                 /\ pended_on'[u] = msgq => pended_on[u] = msgq /\ u # w
                                 /\ pended_on'[u] = IF u = w THEN None ELSE pended_on[u]
                                 /\ swap_retval'[u] = IF u = w THEN "0" ELSE swap_retval[u]
<1>1. w \in Threads /\ pended_on[w] = msgq /\ SchedInv
  BY DEF wait_q, MsgQInv
<1>2. SchedInv'
  BY <1>1, MsgQIsObject, WakeKeepsInv
<1>3. \A u \in Threads :
        /\ call'[u] = call[u]
        /\ pended_on'[u] = IF u = w THEN None ELSE pended_on[u]
        /\ swap_retval'[u] = IF u = w THEN "0" ELSE swap_retval[u]
  BY <1>1 DEF z_sched_wake, unpend_all
<1>4. WaitingIn(w) = call[w] /\ call[w] \in PutGet
  BY <1>1 DEF WaitingIn, PutGet, MsgQInv, Waiter
<1>5. WaitingIn(w)' = "none" /\ AnswerOf(w)' = "ok"
  BY <1>1, <1>3, <1>4, MsgQIsObject DEF WaitingIn, AnswerOf, PutGet
<1>6. \A u \in Threads \ {w} : Same(u)
  BY <1>3 DEF Same, WaitingIn, AnswerOf
<1>7. Queue!Answered(w, "ok")
  BY <1>1, <1>5, <1>6, ClientAnswered
<1> QED
  BY <1>1, <1>2, <1>3, <1>4, <1>7, MsgQIsObject

(***************************************************************************)
(* A put that finds a waiter hands the message over: the waiter can only   *)
(* be a receiver.                                                          *)
(***************************************************************************)
LEMMA HandOverRefines ==
    ASSUME MsgQInv, NEW m \in Messages, PutHandsOver(m)
    PROVE  MsgQInv' /\ Queue!Next
<1>1. RingInv /\ used_msgs < max_msgs /\ UNCHANGED ringVars
  BY DEF MsgQInv, PutHandsOver
<1>2. PICK w \in wait_q(msgq) :
        swap_data' = [swap_data EXCEPT ![w] = m] /\ z_sched_wake({w}, "0")
  BY DEF PutHandsOver
<1>3. /\ w \in Threads /\ SchedInv' /\ Queue!Answered(w, "ok")
      /\ WaitingIn(w) = call[w] /\ pended_on[w] = msgq
      /\ \A u \in Threads : /\ call'[u] = call[u]
                            /\ pended_on'[u] = msgq => pended_on[u] = msgq /\ u # w
                            /\ pended_on'[u] = IF u = w THEN None ELSE pended_on[u]
                            /\ swap_retval'[u] = IF u = w THEN "0" ELSE swap_retval[u]
  BY <1>2, WakeOne DEF wait_q
<1>4. call[w] = "get" /\ used_msgs = 0
  BY <1>1, <1>3, MsgQAssumption DEF MsgQInv, Waiter
<1>5. UNCHANGED <<slots, read_ptr, write_ptr, used_msgs>> /\ Contents' = Contents
  BY <1>1 DEF ringVars, Contents
<1>6. RingInv'
  BY <1>1, <1>5 DEF RingInv
<1>7. \A u \in Threads : Waiter(u)'
  BY <1>2, <1>3, <1>5 DEF MsgQInv, Waiter
<1>8. MsgQInv'
  BY <1>2, <1>3, <1>6, <1>7 DEF MsgQInv
<1>9. Contents = <<>>
  BY <1>1, <1>4, ContentsIsRing
<1>10. Queue!HandOver(w, m)
  BY <1>2, <1>3, <1>4, <1>5, <1>9 DEF Queue!HandOver, WaitingIn
<1> QED
  BY <1>3, <1>8, <1>10 DEF Queue!Next

(***************************************************************************)
(* A get that finds a message takes the oldest; a waiter can only be a     *)
(* sender, whose message is let in.                                        *)
(***************************************************************************)
LEMMA GetRefines ==
    ASSUME MsgQInv, GetTakes(wait_q(msgq))
    PROVE  MsgQInv' /\ Queue!Next
<1>1. RingInv /\ SchedInv /\ used_msgs > 0 /\ read_ptr' = Advance(read_ptr)
  BY DEF MsgQInv, GetTakes
<1> used_msgs \in Nat /\ max_msgs \in Nat \ {0}
  BY <1>1, MsgQAssumption DEF RingInv
<1>2. Contents # <<>> /\ Contents \in Seq(Messages) /\ Contents[1] \in Messages
  <2>1. Contents # <<>> /\ Len(Contents) = used_msgs
    BY <1>1, ContentsIsRing
  <2>2. Contents \in Seq(Messages)
    BY <1>1 DEF RingInv
  <2> QED
    BY <1>1, <2>1, <2>2, ElementOfSeq
<1>3. CASE wait_q(msgq) = {}
  <2>1. /\ slots' = [slots EXCEPT ![read_ptr] = None]
        /\ used_msgs' = used_msgs - 1 /\ UNCHANGED write_ptr
        /\ UNCHANGED schedVars /\ UNCHANGED swap_data
    BY <1>3 DEF GetTakes
  <2>2. RingInv' /\ Contents' = Tail(Contents)
    <3>1. PICK m \in Messages : m = Contents[1]
      BY <1>2
    <3> QED
      BY <1>1, <2>1, <3>1, GetRing
  <2>3. SchedInv' /\ UNCHANGED <<pended_on, call, swap_retval>>
    BY <1>1, <2>1, SchedInvStutters DEF schedVars, threadVars
  <2>4. \A t \in Threads : pended_on[t] # msgq
    BY <1>3 DEF wait_q
  <2>5. \A t \in Threads : Waiter(t)' /\ Same(t)
    BY <2>3, <2>4 DEF MsgQInv, Waiter, Same, WaitingIn, AnswerOf
  <2>6. MsgQInv'
    BY <2>1, <2>2, <2>3, <2>5 DEF MsgQInv
  <2>7. Queue!Nobody("put")
    BY <2>4 DEF Queue!Nobody
  <2>8. Queue!Get
    BY <1>2, <2>1, <2>2, <2>5, <2>7, ClientsSame DEF Queue!Get
  <2> QED
    BY <2>6, <2>8 DEF Queue!Next
<1>4. CASE wait_q(msgq) # {}
  <2>1. PICK w \in wait_q(msgq) :
          /\ slots' = [slots EXCEPT ![read_ptr] = None, ![write_ptr] = swap_data[w]]
          /\ write_ptr' = Advance(write_ptr)
          /\ UNCHANGED <<used_msgs, swap_data>>
          /\ z_sched_wake({w}, "0")
    BY <1>4 DEF GetTakes
  <2>2. /\ w \in Threads /\ SchedInv' /\ Queue!Answered(w, "ok")
        /\ WaitingIn(w) = call[w] /\ pended_on[w] = msgq
        /\ \A u \in Threads : /\ call'[u] = call[u]
                              /\ pended_on'[u] = msgq => pended_on[u] = msgq /\ u # w
                              /\ pended_on'[u] = IF u = w THEN None ELSE pended_on[u]
                              /\ swap_retval'[u] = IF u = w THEN "0" ELSE swap_retval[u]
    BY <2>1, WakeOne DEF wait_q
  <2>3. call[w] = "put" /\ swap_data[w] \in Messages
    BY <1>1, <2>2 DEF MsgQInv, Waiter
  <2>4. RingInv' /\ Contents' = Append(Tail(Contents), swap_data[w])
    <3>1. PICK m \in Messages : m = swap_data[w]
      BY <2>3
    <3> QED
      BY <1>1, <2>1, <3>1, GetRing
  <2>5. \A u \in Threads : Waiter(u)'
    BY <2>1, <2>2 DEF MsgQInv, Waiter
  <2>6. MsgQInv'
    BY <2>1, <2>2, <2>4, <2>5 DEF MsgQInv
  <2>7. Queue!GetAndAdmit(w)
    BY <1>2, <2>1, <2>2, <2>3, <2>4 DEF Queue!GetAndAdmit, WaitingIn
  <2> QED
    BY <2>2, <2>6, <2>7 DEF Queue!Next
<1> QED
  BY <1>3, <1>4

(***************************************************************************)
(* A call that has to wait: it begins to wait, or its thread is halted as  *)
(* it does.                                                                *)
(***************************************************************************)
LEMMA WaitRefines ==
    ASSUME MsgQInv, NEW c \in Cpus, NEW t \in Threads, Runs(c, t), NEW wait \in Waits,
           NEW op \in PutGet, NEW d \in Messages \cup {None},
           \/ op = "put" /\ used_msgs = max_msgs /\ d \in Messages
           \/ op = "get" /\ used_msgs = 0 /\ d = None,
           swap_data' = [swap_data EXCEPT ![t] = d],
           call' = [call EXCEPT ![t] = op],
           z_pend_curr(c, t, msgq, wait),
           UNCHANGED <<target, robbed, aborted, ringVars>>
    PROVE  MsgQInv' /\ Queue!Next
<1>1. RingInv /\ SchedInv /\ SchedTypeOK
  BY DEF MsgQInv, SchedInv
<1>2. SchedInv'
  <2>1. /\ msgq \in Objects \cup ({"join", "halt"} \X Threads)
        /\ \A u \in Threads : msgq \notin {join_queue(u), halt_queue(u)}
        /\ op \in Calls \ {"halt", "retry"}
    BY MsgQIsObject, QueueNames DEF Calls, PutGet
  <2> QED
    BY <1>1, <2>1, PendKeepsInv
<1>3. /\ pended_on'[t] \in {msgq, None} /\ swap_retval'[t] = "EAGAIN"
      /\ \A u \in Threads \ {t} : pended_on[u] \in Objects \cup {None} =>
             pended_on'[u] = pended_on[u] /\ swap_retval'[u] = swap_retval[u]
      /\ \A u \in Threads : pended_on'[u] \in Objects => pended_on'[u] = pended_on[u] \/ u = t
  BY <1>1, MsgQIsObject, PendEffect
<1>4. /\ call[t] = "none" /\ call'[t] = op
      /\ \A u \in Threads \ {t} : call'[u] = call[u] /\ swap_data'[u] = swap_data[u]
      /\ swap_data'[t] = d /\ swap_data' \in [Threads -> Messages \cup {None}]
  BY <1>1 DEF Runs, SchedTypeOK, MsgQInv
<1>5. UNCHANGED <<slots, read_ptr, write_ptr, used_msgs>> /\ Contents' = Contents /\ RingInv'
  BY <1>1 DEF ringVars, Contents, RingInv
<1>6. ASSUME NEW u \in Threads \ {t} PROVE Waiter(u)' /\ Same(u)
  <2>1. CASE call[u] \in PutGet
    <3>1. pended_on'[u] = pended_on[u] /\ swap_retval'[u] = swap_retval[u]
      BY <1>3, <2>1, MsgQIsObject DEF MsgQInv, Waiter
    <3> QED
      BY <1>4, <1>5, <3>1 DEF MsgQInv, Waiter, Same, WaitingIn, AnswerOf
  <2>2. CASE call[u] \notin PutGet
    <3>1. pended_on[u] # msgq /\ pended_on'[u] # msgq
      BY <1>3, <2>2, MsgQIsObject DEF MsgQInv, Waiter, PutGet
    <3> QED
      BY <1>4, <2>2, <3>1 DEF Waiter, Same, WaitingIn, AnswerOf, PutGet
  <2> QED
    BY <2>1, <2>2
<1>7. Waiter(t)'
  BY <1>3, <1>4, <1>5, MsgQIsObject DEF Waiter, PutGet
<1>8. MsgQInv'
  BY <1>2, <1>4, <1>5, <1>6, <1>7 DEF MsgQInv
<1>9. WaitingIn(t) = "none" /\ AnswerOf(t) = "none"
  <2>1. pended_on[t] = None
    BY <1>1, CurrentAwake DEF Runs, Executes
  <2> QED
    BY <1>4, <2>1, MsgQIsObject DEF WaitingIn, AnswerOf
<1>10. CASE pended_on'[t] = msgq
  <2>1. WaitingIn(t)' = op /\ AnswerOf(t)' = "none"
    BY <1>4, <1>10 DEF WaitingIn, AnswerOf
  <2>2. /\ [u \in Threads |-> IF pended_on[u] = msgq THEN call[u] ELSE "none"]' =
             [[u \in Threads |-> IF pended_on[u] = msgq THEN call[u] ELSE "none"]
                EXCEPT ![t] = op]
        /\ UNCHANGED [u \in Threads |->
                IF call[u] \in {"put", "get"} /\ pended_on[u] # msgq
                THEN (IF swap_retval[u] = "0" THEN "ok" ELSE "failed") ELSE "none"]
    BY <1>6, <1>9, <2>1 DEF Same, WaitingIn, AnswerOf
  <2>3. Len(Contents) = used_msgs /\ (Contents = <<>> <=> used_msgs = 0)
    BY <1>1, ContentsIsRing
  <2>4. CASE op = "put" /\ used_msgs = max_msgs /\ d \in Messages
    <3>1. Queue!WaitToPut(t, d)
      BY <1>5, <2>2, <2>3, <2>4 DEF Queue!WaitToPut
    <3> QED
      BY <1>8, <2>4, <3>1 DEF Queue!Next
  <2>5. CASE op = "get" /\ used_msgs = 0 /\ d = None
    <3>1. Queue!WaitToGet(t)
      BY <1>5, <2>2, <2>3, <2>5 DEF Queue!WaitToGet
    <3> QED
      BY <1>8, <3>1 DEF Queue!Next
  <2> QED
    BY <2>4, <2>5
<1>11. CASE pended_on'[t] = None
  <2>1. WaitingIn(t)' = "none" /\ AnswerOf(t)' = "failed"
    BY <1>3, <1>4, <1>11, MsgQIsObject DEF WaitingIn, AnswerOf, PutGet
  <2>2. Queue!Answered(t, "failed")
    BY <1>6, <2>1, ClientAnswered
  <2>3. Queue!Refuse(t, d)
    BY <1>5, <1>9, <2>2 DEF Queue!Refuse, WaitingIn, AnswerOf
  <2> QED
    BY <1>8, <2>3 DEF Queue!Next
<1> QED
  BY <1>3, <1>10, <1>11

(***************************************************************************)
(* A call that has waited returns what it was told.                        *)
(***************************************************************************)
LEMMA ReturnRefines ==
    ASSUME MsgQInv, NEW c \in Cpus, NEW t \in Threads, WaitReturns(c, t)
    PROVE  MsgQInv' /\ Queue!Next
<1>1. RingInv /\ SchedInv /\ SchedTypeOK
  BY DEF MsgQInv, SchedInv
<1>2. /\ current[c] = t /\ "dead" \notin thread_state[t]
      /\ call[t] \in PutGet /\ pended_on[t] = None
      /\ call' = [call EXCEPT ![t] = "none"] /\ UNCHANGED target
      /\ swap_retval' = [swap_retval EXCEPT ![t] = "0"]
      /\ swap_data' = [swap_data EXCEPT ![t] = None]
      /\ UNCHANGED <<dispatchVars, thread_state, pended_on, current, handler, historyVars, ringVars>>
  BY DEF WaitReturns, Resumes, Executes, PutGet
<1>3. SchedInv'
  <2>1. call[t] \notin {"halt", "retry"}
    BY <1>2 DEF PutGet
  <2> QED
    BY <1>1, <1>2, <2>1, ReturnKeepsInv
<1>4. /\ call'[t] = "none" /\ swap_data' \in [Threads -> Messages \cup {None}]
      /\ \A u \in Threads \ {t} : /\ call'[u] = call[u] /\ swap_retval'[u] = swap_retval[u]
                                  /\ swap_data'[u] = swap_data[u]
  BY <1>1, <1>2 DEF SchedTypeOK, MsgQInv
<1>5. UNCHANGED <<slots, read_ptr, write_ptr, used_msgs>> /\ Contents' = Contents /\ RingInv'
  BY <1>1, <1>2 DEF ringVars, Contents, RingInv
<1>6. \A u \in Threads \ {t} : Waiter(u)' /\ Same(u)
  BY <1>2, <1>4, <1>5 DEF MsgQInv, Waiter, Same, WaitingIn, AnswerOf
<1>7. Waiter(t)'
  BY <1>2, <1>4, MsgQIsObject DEF Waiter, PutGet
<1>8. MsgQInv'
  BY <1>3, <1>4, <1>5, <1>6, <1>7 DEF MsgQInv
<1>9. /\ WaitingIn(t) = "none" /\ AnswerOf(t) # "none"
      /\ WaitingIn(t)' = "none" /\ AnswerOf(t)' = "none"
  BY <1>2, <1>4, MsgQIsObject DEF WaitingIn, AnswerOf, PutGet
<1>10. Queue!Return(t)
  <2>1. UNCHANGED [u \in Threads |-> IF pended_on[u] = msgq THEN call[u] ELSE "none"]
    BY <1>6, <1>9 DEF Same, WaitingIn
  <2>2. [u \in Threads |->
            IF call[u] \in {"put", "get"} /\ pended_on[u] # msgq
            THEN (IF swap_retval[u] = "0" THEN "ok" ELSE "failed") ELSE "none"]' =
        [[u \in Threads |->
            IF call[u] \in {"put", "get"} /\ pended_on[u] # msgq
            THEN (IF swap_retval[u] = "0" THEN "ok" ELSE "failed") ELSE "none"] EXCEPT ![t] = "none"]
    BY <1>6, <1>9 DEF Same, AnswerOf
  <2> QED
    BY <1>2, <1>5, <1>9, <2>1, <2>2 DEF Queue!Return, AnswerOf
<1> QED
  BY <1>8, <1>10 DEF Queue!Next

(***************************************************************************)
(* k_msgq_purge() empties the queue and fails everybody who waits.         *)
(***************************************************************************)
LEMMA PurgeRefines ==
    ASSUME MsgQInv, z_impl_k_msgq_purge
    PROVE  MsgQInv' /\ Queue!Next
<1>1. RingInv /\ SchedInv
  BY DEF MsgQInv
<1> max_msgs \in Nat \ {0}
  BY MsgQAssumption
<1>2. PICK W \in SUBSET Threads : W = wait_q(msgq)
  BY DEF wait_q
<1>3. z_sched_wake(W, "ENOMSG") /\ \A w \in W : pended_on[w] # None
  BY <1>2, MsgQIsObject DEF z_impl_k_msgq_purge, wait_q
<1>4. SchedInv'
  BY <1>1, <1>3, WakeKeepsInv
<1>5. \A u \in Threads :
        /\ u \in W <=> pended_on[u] = msgq
        /\ pended_on'[u] = IF u \in W THEN None ELSE pended_on[u]
        /\ swap_retval'[u] = IF u \in W THEN "ENOMSG" ELSE swap_retval[u]
        /\ call'[u] = call[u]
  BY <1>2, <1>3 DEF z_sched_wake, unpend_all, wait_q
<1>6. swap_data' = [t \in Threads |-> IF pended_on[t] = msgq THEN None ELSE swap_data[t]]
  BY <1>5, <1>2 DEF z_impl_k_msgq_purge
<1>7. RingInv' /\ Contents' = <<>>
  <2>1. /\ slots' = [i \in 0..(max_msgs - 1) |-> None] /\ used_msgs' = 0
        /\ read_ptr' = write_ptr /\ write_ptr' = write_ptr
    BY DEF z_impl_k_msgq_purge
  <2>2. Contents' = <<>>
    BY <2>1 DEF Contents
  <2>3. write_ptr \in 0..(max_msgs - 1)
    BY <1>1 DEF RingInv, Wrap
  <2>4. write_ptr' = Wrap(read_ptr' + used_msgs')
    BY <2>1, <2>3 DEF Wrap
  <2>5. slots' \in Buffers
    BY <2>1 DEF Buffers
  <2>6. Contents' \in Seq(Messages)
    BY <2>2, EmptySeq
  <2> QED
    BY <2>1, <2>2, <2>3, <2>4, <2>5, <2>6 DEF RingInv
<1>8. \A u \in Threads : Waiter(u)'
  BY <1>5, MsgQIsObject DEF MsgQInv, Waiter
<1>9. swap_data' \in [Threads -> Messages \cup {None}]
  BY <1>6 DEF MsgQInv
<1>10. MsgQInv'
  BY <1>4, <1>7, <1>8, <1>9 DEF MsgQInv
<1>11. ASSUME NEW u \in Threads
       PROVE  /\ WaitingIn(u)' = "none"
              /\ WaitingIn(u) # "none" <=> pended_on[u] = msgq
              /\ AnswerOf(u)' = IF WaitingIn(u) # "none" THEN "failed" ELSE AnswerOf(u)
  <2>1. CASE pended_on[u] = msgq
    BY <1>5, <2>1, MsgQIsObject DEF MsgQInv, Waiter, WaitingIn, AnswerOf
  <2>2. CASE pended_on[u] # msgq
    BY <1>5, <2>2 DEF WaitingIn, AnswerOf
  <2> QED
    BY <2>1, <2>2
<1>12. Queue!Purge
  <2>1. [u \in Threads |-> IF pended_on[u] = msgq THEN call[u] ELSE "none"]' =
            [u \in Threads |-> "none"]
    BY <1>11 DEF WaitingIn
  <2>2. /\ \A u \in Threads : WaitingIn(u) =
              [v \in Threads |-> IF pended_on[v] = msgq THEN call[v] ELSE "none"][u]
        /\ \A u \in Threads : AnswerOf(u) =
              [v \in Threads |-> IF call[v] \in {"put", "get"} /\ pended_on[v] # msgq
                  THEN (IF swap_retval[v] = "0" THEN "ok" ELSE "failed") ELSE "none"][u]
    BY DEF WaitingIn, AnswerOf
  <2>3. [u \in Threads |->
            IF call[u] \in {"put", "get"} /\ pended_on[u] # msgq
            THEN (IF swap_retval[u] = "0" THEN "ok" ELSE "failed") ELSE "none"]' =
        [u \in Threads |-> IF WaitingIn(u) # "none" THEN "failed" ELSE AnswerOf(u)]
    BY <1>11 DEF AnswerOf
  <2>4. swap_data' = [u \in Threads |-> IF WaitingIn(u) # "none" THEN None ELSE swap_data[u]]
    BY <1>6, <1>11
  <2> QED
    BY <1>7, <2>1, <2>2, <2>3, <2>4 DEF Queue!Purge
<1> QED
  BY <1>10, <1>12 DEF Queue!Next

(***************************************************************************)
(* A step of the scheduler makes one waiter give up, or is none of the     *)
(* queue's business.                                                       *)
(***************************************************************************)
LEMMA SchedRefines ==
    ASSUME MsgQInv, SchedNext, UNCHANGED <<ringVars, swap_data>>
    PROVE  MsgQInv' /\ (Queue!Next \/ UNCHANGED Queue!vars)
<1>1. RingInv /\ SchedInv /\ SchedInv'
  BY SchedInvStep DEF MsgQInv
<1>2. \A u \in Threads : CallKept(u)
  BY <1>1, SchedKeepsObjectCall
<1>3. ASSUME NEW u \in Threads PROVE pended_on'[u] = msgq => pended_on[u] = msgq
  BY <1>1, SchedAddsNoWaiter, MsgQIsObject
<1>4. /\ UNCHANGED <<slots, read_ptr, write_ptr, used_msgs>> /\ UNCHANGED swap_data
      /\ Contents' = Contents /\ RingInv'
  BY <1>1 DEF ringVars, Contents, RingInv
<1>5. ASSUME NEW u \in Threads
      PROVE  /\ Waiter(u)'
             /\ Same(u) \/ /\ Leaves(u) /\ WaitingIn(u) # "none"
                           /\ WaitingIn(u)' = "none" /\ AnswerOf(u)' = "failed"
  <2>1. CASE call[u] \in PutGet
    <3>1. /\ call'[u] = call[u] /\ swap_retval'[u] = swap_retval[u]
          /\ pended_on'[u] \in {pended_on[u], None} /\ pended_on[u] \in {msgq, None}
      BY <1>2, <2>1, MsgQIsObject DEF CallKept, ObjectCalls, PutGet, MsgQInv, Waiter
    <3>2. Waiter(u)'
      BY <1>4, <3>1, MsgQIsObject DEF MsgQInv, Waiter
    <3>3. CASE pended_on'[u] = pended_on[u]
      BY <3>1, <3>2, <3>3 DEF Same, WaitingIn, AnswerOf
    <3>4. CASE pended_on'[u] # pended_on[u]
      <4>1. pended_on[u] = msgq /\ pended_on'[u] = None /\ swap_retval[u] = "EAGAIN"
        BY <3>1, <3>4 DEF MsgQInv, Waiter
      <4> QED
        BY <2>1, <3>1, <3>2, <4>1, MsgQIsObject DEF Leaves, WaitingIn, AnswerOf, PutGet
    <3> QED
      BY <3>3, <3>4
  <2>2. CASE call[u] \notin PutGet
    <3>1. pended_on[u] # msgq /\ pended_on'[u] # msgq /\ call'[u] \notin PutGet
      BY <1>2, <1>3, <2>2 DEF CallKept, ObjectCalls, PutGet, MsgQInv, Waiter
    <3> QED
      BY <2>2, <3>1 DEF Waiter, Same, WaitingIn, AnswerOf, PutGet
  <2> QED
    BY <2>1, <2>2
<1>6. MsgQInv'
  BY <1>1, <1>4, <1>5 DEF MsgQInv
<1>7. CASE \A u \in Threads : Same(u)
  BY <1>4, <1>6, <1>7, ClientsSame DEF Queue!vars
<1>8. ASSUME NEW x \in Threads, ~Same(x) PROVE Queue!Next
  <2>1. /\ Leaves(x) /\ WaitingIn(x) # "none"
        /\ WaitingIn(x)' = "none" /\ AnswerOf(x)' = "failed"
    BY <1>5, <1>8
  <2>2. ASSUME NEW u \in Threads \ {x} PROVE Same(u)
    <3>1. SUFFICES ASSUME Leaves(u) PROVE FALSE
      BY <1>5
    <3> QED
      BY <1>1, <2>1, <3>1, OneLeaves
  <2>3. Queue!Answered(x, "failed")
    BY <2>1, <2>2, ClientAnswered
  <2>4. Queue!GiveUp(x)
    BY <1>4, <2>1, <2>3 DEF Queue!GiveUp, WaitingIn
  <2> QED
    BY <2>4 DEF Queue!Next
<1> QED
  BY <1>6, <1>7, <1>8

(***************************************************************************)
(* Every step preserves the invariant, and is a step of the abstract queue *)
(* or none.                                                                *)
(***************************************************************************)
LEMMA MsgQStepRefines ==
    MsgQInv /\ [Next]_vars => MsgQInv' /\ [Queue!Next]_(Queue!vars)
<1> SUFFICES ASSUME MsgQInv, [Next]_vars
             PROVE  MsgQInv' /\ (Queue!Next \/ UNCHANGED Queue!vars)
  OBVIOUS
<1>1. CASE SchedNext /\ UNCHANGED <<ringVars, swap_data>>
  BY <1>1, SchedRefines
<1>2. ASSUME NEW c \in Cpus, NEW t \in Threads, MsgQStep(c, t)
      PROVE  MsgQInv' /\ Queue!Next
  <2>1. ASSUME NEW m \in Messages, NEW wait \in Waits, PutWaits(c, t, m, wait)
        PROVE  MsgQInv' /\ Queue!Next
    <3>1. /\ Runs(c, t) /\ used_msgs = max_msgs /\ swap_data' = [swap_data EXCEPT ![t] = m]
          /\ call' = [call EXCEPT ![t] = "put"] /\ z_pend_curr(c, t, msgq, wait)
          /\ UNCHANGED <<target, robbed, aborted, ringVars>>
      BY <2>1 DEF PutWaits
    <3>2. "put" \in PutGet /\ m \in Messages \cup {None}
      BY DEF PutGet
    <3> QED
      BY <3>1, <3>2, WaitRefines
  <2>2. ASSUME NEW wait \in Waits, z_impl_k_msgq_get(c, t, wait)
        PROVE  MsgQInv' /\ Queue!Next
    <3>1. CASE GetTakes(wait_q(msgq))
      BY <3>1, GetRefines
    <3>2. CASE GetWaits(c, t, wait)
      <4>1. /\ Runs(c, t) /\ used_msgs = 0 /\ swap_data' = [swap_data EXCEPT ![t] = None]
            /\ call' = [call EXCEPT ![t] = "get"] /\ z_pend_curr(c, t, msgq, wait)
            /\ UNCHANGED <<target, robbed, aborted, ringVars>>
        BY <2>2, <3>2 DEF GetWaits, z_impl_k_msgq_get
      <4>2. "get" \in PutGet /\ None \in Messages \cup {None}
        BY DEF PutGet
      <4> QED
        BY <4>1, <4>2, WaitRefines
    <3> QED
      BY <2>2, <3>1, <3>2 DEF z_impl_k_msgq_get
  <2> QED
    BY <1>2, <2>1, <2>2, ReturnRefines DEF MsgQStep
<1>3. ASSUME NEW m \in Messages, PutHandsOver(m) \/ PutAtBack(m) \/ PutAtFront(m)
      PROVE  MsgQInv' /\ Queue!Next
  BY <1>3, PutRefines, HandOverRefines
<1>4. CASE z_impl_k_msgq_purge
  BY <1>4, PurgeRefines
<1>5. CASE UNCHANGED vars
  <2>1. /\ UNCHANGED schedVars
        /\ UNCHANGED <<slots, read_ptr, write_ptr, used_msgs, swap_data>>
        /\ UNCHANGED <<pended_on, call, swap_retval>>
    BY <1>5 DEF vars, ringVars, schedVars, threadVars
  <2>2. SchedInv' /\ RingInv' /\ Contents' = Contents
    BY <2>1, SchedInvStutters DEF MsgQInv, RingInv, Contents
  <2>3. \A t \in Threads : Waiter(t)' /\ Same(t)
    BY <2>1 DEF MsgQInv, Waiter, Same, WaitingIn, AnswerOf
  <2>4. MsgQInv'
    BY <2>1, <2>2, <2>3 DEF MsgQInv
  <2> QED
    BY <2>1, <2>2, <2>3, <2>4, ClientsSame DEF Queue!vars
<1> QED
  BY <1>1, <1>2, <1>3, <1>4, <1>5 DEF Next

(***************************************************************************)
(* k_msgq_init() establishes the invariant.                                *)
(***************************************************************************)
LEMMA MsgQInvInit == k_msgq_init => MsgQInv
<1> SUFFICES ASSUME k_msgq_init PROVE MsgQInv
  OBVIOUS
<1> max_msgs \in Nat \ {0}
  BY MsgQAssumption
<1>1. SchedInv
  BY SchedInvInit DEF k_msgq_init
<1>2. \A t \in Threads : pended_on[t] = None /\ call[t] = "none"
  BY DEF k_msgq_init, SchedInit
<1>3. \A t \in Threads : Waiter(t)
  BY <1>2, MsgQIsObject DEF Waiter, PutGet
<1>4. Contents = <<>>
  BY DEF k_msgq_init, Contents
<1>5. Contents \in Seq(Messages)
  BY <1>4, EmptySeq
<1>6. RingInv
  BY <1>5 DEF k_msgq_init, RingInv, Buffers, Wrap
<1> QED
  BY <1>1, <1>3, <1>6 DEF MsgQInv, k_msgq_init

\* The invariant holds throughout.
LEMMA MsgQInvariant == Spec => []MsgQInv
  BY MsgQInvInit, MsgQStepRefines, PTL DEF Spec

(***************************************************************************)
(* Every state is well typed, and the pointers and the count agree on what *)
(* is in the ring, whatever its size.                                      *)
(***************************************************************************)
THEOREM RingSound == Spec => [](TypeOK /\ RingConsistent)
  BY MsgQInvImplies, MsgQInvariant, PTL

(***************************************************************************)
(* The one wait queue never mixes senders and receivers, and nobody waits  *)
(* in it for what the ring could give at once.                             *)
(***************************************************************************)
THEOREM RingWaitersMatch == Spec => []WaitersMatch
  BY MsgQInvImplies, MsgQInvariant, PTL

(***************************************************************************)
(* The address k_msgq_peek_at() computes is that of the message it is      *)
(* asked for, also when the ring has wrapped.                              *)
(***************************************************************************)
THEOREM RingPeekSound == Spec => []PeekFindsMessage
  BY MsgQInvImplies, MsgQInvariant, PTL

(***************************************************************************)
(* The message queue implements the bounded queue of BoundedQueue: no      *)
(* message is lost, doubled or reordered and every waiting call is told    *)
(* the truth, for any number of threads, CPUs and slots.                   *)
(***************************************************************************)
THEOREM MsgQRefinesQueue == Spec => ImplementsQueue
<1>1. k_msgq_init => Queue!Init
  <2> SUFFICES ASSUME k_msgq_init PROVE Queue!Init
    OBVIOUS
  <2>1. Contents = <<>>
    BY DEF k_msgq_init, Contents
  <2>2. \A t \in Threads : pended_on[t] = None /\ call[t] = "none"
    BY DEF k_msgq_init, SchedInit
  <2> QED
    BY <2>1, <2>2, MsgQIsObject DEF k_msgq_init, Queue!Init
<1> QED
  BY <1>1, MsgQInvInit, MsgQStepRefines, PTL DEF Spec, ImplementsQueue, Queue!Spec

=============================================================================
