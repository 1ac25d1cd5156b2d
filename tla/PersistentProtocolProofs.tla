----------------------- MODULE PersistentProtocolProofs -----------------------
(***************************************************************************)
(* Proofs about the two ends of a PersistentProtocol, for any number of    *)
(* messages, sockets and reconnections, and any water marks.               *)
(***************************************************************************)
EXTENDS PersistentProtocol, SequenceTheorems, TLAPS

IsRegular(frame) == frame.type = "Regular"

(* A queue of frames that a reader who has everything up to g can read without *)
(* missing a message.                                                         *)
GapFree(q, g) ==
    \A i \in 1..Len(q) : IsRegular(q[i]) =>
       \/ q[i].id <= g + 1
       \/ \E j \in 1..(i - 1) : IsRegular(q[j]) /\ q[i].id = q[j].id + 1

(* It ends with message m, or the reader has that already.                    *)
Reaches(q, g, m) == m <= g \/ \E i \in 1..Len(q) : IsRegular(q[i]) /\ q[i].id = m

(* Its frames acknowledge at most a, and carry no message after m.            *)
Truthful(q, a, m) ==
    \A i \in 1..Len(q) : q[i].ack <= a /\ (IsRegular(q[i]) => q[i].id <= m)

(* The last messages up to m, in order.                                       *)
LastOf(q, a, m) ==
    /\ Len(q) <= m
    /\ \A i \in 1..Len(q) : IsRegular(q[i]) /\ q[i].id = m - Len(q) + i /\ q[i].ack <= a

-----------------------------------------------------------------------------
(* Lemmas about one queue.                                                   *)

LEMMA PeerFacts == \A e \in Ends : Peer(e) \in Ends /\ Peer(e) # e /\ Peer(Peer(e)) = e
  BY DEF Ends, Peer

LEMMA EndsAre == \A e, d \in Ends : d # e => d = Peer(e)
  BY DEF Ends, Peer

LEMMA FrameFields ==
  ASSUME NEW q \in Seq(Frames), NEW i \in 1..Len(q)
  PROVE  q[i] \in Frames /\ q[i].id \in Nat /\ q[i].ack \in Nat
<1>1. q[i] \in Frames
  BY ElementOfSeq
<1>. QED BY <1>1 DEF Frames

(* Frames written behind a queue.                                             *)
LEMMA GapFreeAppend ==
  ASSUME NEW q \in Seq(Frames), NEW f \in Seq(Frames), NEW g \in Nat,
         GapFree(q, g),
         \A i \in 1..Len(f) : IsRegular(f[i]) =>
            \/ f[i].id <= g + 1
            \/ \E j \in 1..(i - 1) : IsRegular(f[j]) /\ f[i].id = f[j].id + 1
            \/ \E j \in 1..Len(q) : IsRegular(q[j]) /\ f[i].id = q[j].id + 1
  PROVE  GapFree(q \o f, g)
<1>1. q \o f \in Seq(Frames) /\ Len(q \o f) = Len(q) + Len(f) /\ Len(q) \in Nat /\ Len(f) \in Nat
  BY ConcatProperties, LenProperties
<1>2. \A i \in 1..Len(q) + Len(f) : (q \o f)[i] = IF i <= Len(q) THEN q[i] ELSE f[i - Len(q)]
  BY ConcatProperties
<1>3. SUFFICES ASSUME NEW i \in 1..Len(q) + Len(f), IsRegular((q \o f)[i])
               PROVE  \/ (q \o f)[i].id <= g + 1
                      \/ \E j \in 1..(i - 1) : IsRegular((q \o f)[j]) /\ (q \o f)[i].id = (q \o f)[j].id + 1
  BY <1>1 DEF GapFree
<1>4. CASE i <= Len(q)
  <2>1. (q \o f)[i] = q[i] /\ i \in 1..Len(q)
    BY <1>1, <1>2, <1>4
  <2>2. CASE q[i].id <= g + 1
    BY <2>1, <2>2
  <2>3. ASSUME NEW j \in 1..(i - 1), IsRegular(q[j]), q[i].id = q[j].id + 1
        PROVE  \E k \in 1..(i - 1) : IsRegular((q \o f)[k]) /\ (q \o f)[i].id = (q \o f)[k].id + 1
    <3>1. (q \o f)[j] = q[j]
      BY <1>1, <1>2, <1>4
    <3>. QED BY <3>1, <2>1, <2>3
  <2>. QED BY <1>3, <2>1, <2>2, <2>3 DEF GapFree
<1>5. CASE i > Len(q)
  <2>1. (q \o f)[i] = f[i - Len(q)] /\ i - Len(q) \in 1..Len(f)
    BY <1>1, <1>2, <1>5
  <2>2. CASE f[i - Len(q)].id <= g + 1
    BY <2>1, <2>2
  <2>3. ASSUME NEW j \in 1..(i - Len(q) - 1), IsRegular(f[j]), f[i - Len(q)].id = f[j].id + 1
        PROVE  \E k \in 1..(i - 1) : IsRegular((q \o f)[k]) /\ (q \o f)[i].id = (q \o f)[k].id + 1
    <3>1. (q \o f)[Len(q) + j] = f[j] /\ Len(q) + j \in 1..(i - 1)
      <4>1. Len(q) + j \in 1..Len(q) + Len(f) /\ ~(Len(q) + j <= Len(q)) /\ (Len(q) + j) - Len(q) = j
            /\ Len(q) + j \in 1..(i - 1)
        BY <1>1, <1>5, <2>1
      <4>. QED BY <4>1, <1>2
    <3>. QED BY <3>1, <2>1, <2>3
  <2>4. ASSUME NEW j \in 1..Len(q), IsRegular(q[j]), f[i - Len(q)].id = q[j].id + 1
        PROVE  \E k \in 1..(i - 1) : IsRegular((q \o f)[k]) /\ (q \o f)[i].id = (q \o f)[k].id + 1
    <3>1. (q \o f)[j] = q[j] /\ j \in 1..(i - 1)
      BY <1>1, <1>2, <1>5
    <3>. QED BY <3>1, <2>1, <2>4
  <2>5. IsRegular(f[i - Len(q)])
    BY <2>1, <1>3
  <2>. QED BY <2>1, <2>2, <2>3, <2>4, <2>5
<1>6. i <= Len(q) \/ i > Len(q)
  BY <1>1
<1>. QED BY <1>4, <1>5, <1>6

LEMMA ReachesAppend ==
  ASSUME NEW q \in Seq(Frames), NEW f \in Seq(Frames), NEW g, NEW m, Reaches(q, g, m)
  PROVE  Reaches(q \o f, g, m)
<1>1. /\ Len(q \o f) = Len(q) + Len(f) /\ Len(q) \in Nat /\ Len(f) \in Nat
      /\ \A i \in 1..Len(q) : (q \o f)[i] = q[i]
  BY ConcatProperties, LenProperties
<1>. QED BY <1>1 DEF Reaches

LEMMA ReachesLast ==
  ASSUME NEW q \in Seq(Frames), NEW f \in Seq(Frames), NEW g, NEW m,
         Reaches(f, g, m)
  PROVE  Reaches(q \o f, g, m)
<1>1. /\ Len(q \o f) = Len(q) + Len(f) /\ Len(q) \in Nat /\ Len(f) \in Nat
      /\ \A i \in 1..Len(q) + Len(f) : (q \o f)[i] = IF i <= Len(q) THEN q[i] ELSE f[i - Len(q)]
  BY ConcatProperties, LenProperties
<1>2. ASSUME NEW i \in 1..Len(f)
      PROVE  Len(q) + i \in 1..Len(q \o f) /\ (q \o f)[Len(q) + i] = f[i]
  <2>1. Len(q) + i \in 1..Len(q) + Len(f) /\ ~(Len(q) + i <= Len(q)) /\ (Len(q) + i) - Len(q) = i
    BY <1>1
  <2>. QED BY <1>1, <2>1
<1>. QED BY <1>2 DEF Reaches

LEMMA TruthfulAppend ==
  ASSUME NEW q \in Seq(Frames), NEW f \in Seq(Frames), NEW a, NEW m,
         Truthful(q, a, m), Truthful(f, a, m)
  PROVE  Truthful(q \o f, a, m)
<1>1. /\ Len(q \o f) = Len(q) + Len(f) /\ Len(q) \in Nat /\ Len(f) \in Nat
      /\ \A i \in 1..Len(q) + Len(f) : (q \o f)[i] = IF i <= Len(q) THEN q[i] ELSE f[i - Len(q)]
  BY ConcatProperties, LenProperties
<1>. QED BY <1>1 DEF Truthful

(* What is read from the front.                                               *)
LEMMA ReadFront ==
  ASSUME NEW q \in Seq(Frames), q # <<>>, NEW g \in Nat, NEW h \in Nat, NEW m \in Nat, NEW a,
         GapFree(q, g), Truthful(q, a, m),
         h = IF IsRegular(Head(q)) /\ Head(q).id > g THEN Head(q).id ELSE g
  PROVE  /\ GapFree(Tail(q), h) /\ Truthful(Tail(q), a, m)
         /\ Reaches(q, g, m) => Reaches(Tail(q), h, m)
         /\ Tail(q) \in Seq(Frames) /\ Head(q) \in Frames
         /\ h = g \/ (h = g + 1 /\ g < m)
         /\ Head(q).ack <= a
         /\ IsRegular(Head(q)) => Head(q).id <= h
<1>1. /\ Head(q) = q[1] /\ Head(q) \in Frames /\ Tail(q) \in Seq(Frames)
      /\ Len(Tail(q)) = Len(q) - 1 /\ Len(q) \in Nat \ {0}
      /\ \A i \in 1..Len(Tail(q)) : Tail(q)[i] = q[i + 1]
  BY HeadTailProperties, LenProperties, EmptySeq
<1>2. \A i \in 1..Len(q) : q[i] \in Frames /\ q[i].id \in Nat
  BY FrameFields
<1>3. IsRegular(Head(q)) => Head(q).id <= g + 1 /\ Head(q).id <= m
  BY <1>1 DEF GapFree, Truthful
<1>4. h = g \/ (h = g + 1 /\ g < m)
  BY <1>1, <1>2, <1>3
<1>5. GapFree(Tail(q), h)
  <2>1. SUFFICES ASSUME NEW i \in 1..Len(q) - 1, IsRegular(q[i + 1])
                 PROVE  \/ q[i + 1].id <= h + 1
                        \/ \E j \in 1..(i - 1) : IsRegular(q[j + 1]) /\ q[i + 1].id = q[j + 1].id + 1
    <3>1. SUFFICES ASSUME NEW i \in 1..Len(Tail(q)), IsRegular(Tail(q)[i])
                   PROVE  \/ Tail(q)[i].id <= h + 1
                          \/ \E j \in 1..(i - 1) : IsRegular(Tail(q)[j]) /\ Tail(q)[i].id = Tail(q)[j].id + 1
      BY DEF GapFree
    <3>2. i \in 1..Len(q) - 1 /\ Tail(q)[i] = q[i + 1]
      BY <1>1
    <3>3. \A j \in 1..(i - 1) : j \in 1..Len(Tail(q)) /\ Tail(q)[j] = q[j + 1]
      BY <1>1
    <3>. QED BY <2>1, <3>1, <3>2, <3>3
  <2>2. i + 1 \in 1..Len(q) /\ q[i + 1].id \in Nat
    BY <1>1, <1>2
  <2>3. CASE q[i + 1].id <= g + 1
    BY <2>2, <2>3, <1>4
  <2>4. ASSUME NEW j \in 1..((i + 1) - 1), IsRegular(q[j]), q[i + 1].id = q[j].id + 1
        PROVE  \/ q[i + 1].id <= h + 1
               \/ \E k \in 1..(i - 1) : IsRegular(q[k + 1]) /\ q[i + 1].id = q[k + 1].id + 1
    <3>1. CASE j = 1
      BY <2>4, <3>1, <1>1, <1>2, <1>4, <2>2
    <3>2. CASE j # 1
      <4>1. j - 1 \in 1..(i - 1) /\ (j - 1) + 1 = j
        BY <3>2
      <4>. QED BY <4>1, <2>4
    <3>. QED BY <3>1, <3>2
  <2>. QED BY <2>1, <2>2, <2>3, <2>4 DEF GapFree
<1>6. ASSUME Reaches(q, g, m)
      PROVE  Reaches(Tail(q), h, m)
  <2>1. CASE m <= g
    BY <2>1, <1>4 DEF Reaches
  <2>2. ASSUME NEW i \in 1..Len(q), IsRegular(q[i]), q[i].id = m
        PROVE  Reaches(Tail(q), h, m)
    <3>1. CASE i = 1
      BY <3>1, <2>2, <1>1, <1>2 DEF Reaches
    <3>2. CASE i # 1
      <4>1. i - 1 \in 1..Len(Tail(q)) /\ (i - 1) + 1 = i
        BY <1>1, <3>2
      <4>. QED BY <4>1, <1>1, <2>2 DEF Reaches
    <3>. QED BY <3>1, <3>2
  <2>. QED BY <1>6, <2>1, <2>2 DEF Reaches
<1>7. Truthful(Tail(q), a, m) /\ Head(q).ack <= a
  BY <1>1 DEF Truthful
<1>8. IsRegular(Head(q)) => Head(q).id <= h
  BY <1>1, <1>2
<1>. QED BY <1>1, <1>4, <1>5, <1>6, <1>7, <1>8

(* A reader may have more, and a wire may have nothing.                        *)
LEMMA TruthfulMore ==
  ASSUME NEW q \in Seq(Frames), NEW a \in Nat, NEW b \in Nat, NEW m \in Nat, NEW n \in Nat,
         Truthful(q, a, m), a <= b, m <= n
  PROVE  Truthful(q, b, n)
<1>1. \A i \in 1..Len(q) : q[i].id \in Nat /\ q[i].ack \in Nat
  BY FrameFields
<1>. QED BY <1>1 DEF Truthful

LEMMA NothingOnWire ==
  ASSUME NEW g, NEW a, NEW m
  PROVE  GapFree(<<>>, g) /\ Truthful(<<>>, a, m)
  BY DEF GapFree, Truthful

-----------------------------------------------------------------------------
(* Lemmas about the held messages.                                           *)

LEMMA HeldFirst ==
  ASSUME NEW q \in Seq(Frames), NEW a \in Nat, NEW m \in Nat, NEW g \in Nat,
         LastOf(q, a, m), m - Len(q) <= g
  PROVE  /\ \A i \in 1..Len(q) : IsRegular(q[i]) =>
              q[i].id <= g + 1 \/ \E j \in 1..(i - 1) : IsRegular(q[j]) /\ q[i].id = q[j].id + 1
         /\ Reaches(q, g, m) /\ Truthful(q, a, m)
<1>1. Len(q) \in Nat
  BY LenProperties
<1>2. ASSUME NEW i \in 1..Len(q)
      PROVE  q[i].id <= g + 1 \/ \E j \in 1..(i - 1) : IsRegular(q[j]) /\ q[i].id = q[j].id + 1
  <2>1. CASE i = 1
    BY <1>1, <2>1 DEF LastOf
  <2>2. CASE i # 1
    <3>1. i - 1 \in 1..Len(q) /\ i - 1 \in 1..(i - 1)
      BY <1>1, <2>2
    <3>2. IsRegular(q[i - 1]) /\ q[i].id = q[i - 1].id + 1
      BY <3>1, <1>1 DEF LastOf
    <3>. QED BY <3>1, <3>2
  <2>. QED BY <2>1, <2>2
<1>3. Reaches(q, g, m)
  <2>1. CASE Len(q) = 0
    BY <2>1, <1>1 DEF Reaches
  <2>2. CASE Len(q) # 0
    <3>1. Len(q) \in 1..Len(q) /\ IsRegular(q[Len(q)]) /\ q[Len(q)].id = m
      BY <2>2, <1>1 DEF LastOf
    <3>. QED BY <3>1 DEF Reaches
  <2>. QED BY <2>1, <2>2
<1>4. Truthful(q, a, m)
  BY <1>1 DEF Truthful, LastOf
<1>. QED BY <1>2, <1>3, <1>4

LEMMA HeldMore ==
  ASSUME NEW q \in Seq(Frames), NEW a \in Nat, NEW b \in Nat, NEW m \in Nat, LastOf(q, a, m), a <= b
  PROVE  LastOf(q, b, m)
<1>1. \A i \in 1..Len(q) : q[i].ack \in Nat
  BY FrameFields
<1>. QED BY <1>1 DEF LastOf

LEMMA HeldAppend ==
  ASSUME NEW q \in Seq(Frames), NEW a \in Nat, NEW m \in Nat, LastOf(q, a, m),
         NEW frame \in Frames, IsRegular(frame), frame.id = m + 1, frame.ack <= a
  PROVE  /\ LastOf(Append(q, frame), a, m + 1)
         /\ Append(q, frame) \in Seq(Frames) /\ Len(Append(q, frame)) = Len(q) + 1
<1>1. /\ Append(q, frame) \in Seq(Frames) /\ Len(Append(q, frame)) = Len(q) + 1 /\ Len(q) \in Nat
      /\ \A i \in 1..Len(q) : Append(q, frame)[i] = q[i]
      /\ Append(q, frame)[Len(q) + 1] = frame
  BY AppendProperties, LenProperties
<1>2. ASSUME NEW i \in 1..Len(q) + 1
      PROVE  LET x == Append(q, frame)[i]
             IN IsRegular(x) /\ x.id = (m + 1) - (Len(q) + 1) + i /\ x.ack <= a
  <2>1. CASE i = Len(q) + 1
    BY <2>1, <1>1
  <2>2. CASE i # Len(q) + 1
    <3>1. i \in 1..Len(q)
      BY <2>2, <1>1
    <3>2. IsRegular(q[i]) /\ q[i].id = m - Len(q) + i /\ q[i].ack <= a
      BY <3>1 DEF LastOf
    <3>3. (m + 1) - (Len(q) + 1) + i = m - Len(q) + i
      BY <1>1
    <3>. QED BY <3>1, <3>2, <3>3, <1>1
  <2>. QED BY <2>1, <2>2
<1>. QED BY <1>1, <1>2 DEF LastOf

(* Only what is acknowledged is no longer held.                               *)
LEMMA AcknowledgedFacts ==
  ASSUME NEW q \in Seq(Frames), NEW a \in Nat, NEW m \in Nat, LastOf(q, a, m), NEW ack \in Nat
  PROVE  /\ Acknowledged(q, ack) \in 0..Len(q)
         /\ Acknowledged(q, ack) # 0 => m - Len(q) + Acknowledged(q, ack) <= ack
<1>1. Len(q) \in Nat /\ Len(q) <= m /\ \A i \in 1..Len(q) : q[i].id = m - Len(q) + i
  BY LenProperties DEF LastOf
<1>. DEFINE Good(n) == /\ \A i \in 1..n : q[i].id <= ack
                       /\ n < Len(q) => q[n + 1].id > ack
<1>2. \E n \in 0..Len(q) : Good(n)
  <2>1. CASE ack <= m - Len(q)
    <3>1. Good(0)
      BY <1>1, <2>1
    <3>. QED BY <3>1, <1>1
  <2>2. CASE ack > m - Len(q) /\ ack <= m
    <3>1. ack - (m - Len(q)) \in 0..Len(q)
      BY <1>1, <2>2
    <3>2. Good(ack - (m - Len(q)))
      BY <1>1, <2>2
    <3>. QED BY <3>1, <3>2
  <2>3. CASE ack > m
    <3>1. Good(Len(q))
      BY <1>1, <2>3
    <3>2. Len(q) \in 0..Len(q)
      BY <1>1
    <3>. HIDE DEF Good
    <3>. QED BY <3>1, <3>2
  <2>. QED BY <1>1, <2>1, <2>2, <2>3
<1>3. Acknowledged(q, ack) \in 0..Len(q) /\ Good(Acknowledged(q, ack))
  BY <1>2 DEF Acknowledged
<1>4. ASSUME Acknowledged(q, ack) # 0
      PROVE  m - Len(q) + Acknowledged(q, ack) <= ack
  <2>1. Acknowledged(q, ack) \in 1..Acknowledged(q, ack) /\ Acknowledged(q, ack) \in 1..Len(q)
    BY <1>1, <1>3, <1>4
  <2>. QED BY <2>1, <1>1, <1>3
<1>. QED BY <1>3, <1>4

LEMMA HeldRest ==
  ASSUME NEW q \in Seq(Frames), NEW a \in Nat, NEW m \in Nat, LastOf(q, a, m), NEW ack \in Nat
  PROVE  /\ Unacked(q, ack) \in Seq(Frames)
         /\ LastOf(Unacked(q, ack), a, m)
         /\ Len(Unacked(q, ack)) <= Len(q)
         /\ Len(Unacked(q, ack)) = Len(q) \/ m - Len(Unacked(q, ack)) <= ack
<1>. DEFINE n == Acknowledged(q, ack)
            r == Unacked(q, ack)
<1>1. n \in 0..Len(q) /\ Len(q) \in Nat /\ (n # 0 => m - Len(q) + n <= ack)
  BY AcknowledgedFacts, LenProperties
<1>2. \A i \in (n + 1)..Len(q) : q[i] \in Frames
  <2>1. \A i \in (n + 1)..Len(q) : i \in 1..Len(q)
    BY <1>1
  <2>. QED BY <2>1, FrameFields
<1>3. /\ r \in Seq(Frames) /\ Len(r) = (IF n + 1 <= Len(q) THEN Len(q) - (n + 1) + 1 ELSE 0)
      /\ \A i \in 1..(Len(q) - (n + 1) + 1) : r[i] = q[(n + 1) + i - 1]
  <2>1. n + 1 \in Int /\ Len(q) \in Int
    BY <1>1
  <2>2. r = SubSeq(q, n + 1, Len(q))
    BY DEF Unacked
  <2>. HIDE DEF n, r
  <2>. QED BY <1>2, <2>1, <2>2, SubSeqProperties
<1>. HIDE DEF n, r
<1>4. Len(r) = Len(q) - n
  BY <1>1, <1>3
<1>5. ASSUME NEW i \in 1..Len(r)
      PROVE  IsRegular(r[i]) /\ r[i].id = m - Len(r) + i /\ r[i].ack <= a
  <2>1. i + n \in 1..Len(q) /\ (n + 1) + i - 1 = i + n /\ i \in 1..(Len(q) - (n + 1) + 1)
    BY <1>1, <1>4
  <2>2. r[i] = q[i + n]
    BY <2>1, <1>3
  <2>3. IsRegular(q[i + n]) /\ q[i + n].id = m - Len(q) + (i + n) /\ q[i + n].ack <= a
    BY <2>1 DEF LastOf
  <2>. QED BY <2>1, <2>2, <2>3, <1>1, <1>4
<1>6. LastOf(r, a, m)
  BY <1>1, <1>4, <1>5 DEF LastOf
<1>7. Len(r) <= Len(q) /\ (Len(r) = Len(q) \/ m - Len(r) <= ack)
  BY <1>1, <1>4
<1>. QED BY <1>3, <1>6, <1>7 DEF r

-----------------------------------------------------------------------------
(* The inductive invariant.                                                   *)

(* Reads, for the sockets so of the ends and those that are arriving, ar.      *)
ReadsOf(so, ar, e, n) ==
    IF e = "client" THEN n = so["client"] \/ n \in ar ELSE n >= so["server"]

(* What e has not written on yet and may still take, when op are opened.      *)
Fresh(so, ar, op, e, n) == IF e = "client" THEN n \in ar \/ n > op ELSE n > so["server"]

(* What is on the wires w, for sockets so, arriving ones ar, op opened ones,  *)
(* broken ones br, what was got g and what was sent m.  The reader of a       *)
(* socket it has or will take finds no gap on it; the writer of a socket that *)
(* works has written up to its last message.                                  *)
WiresGood(w, so, ar, op, br, g, m) ==
    \A n \in Sockets, e \in Ends :
       /\ Truthful(w[n][e], g[e], m[e])
       /\ Fresh(so, ar, op, e, n) => w[n][e] = <<>>
       /\ ReadsOf(so, ar, Peer(e), n) => GapFree(w[n][e], g[Peer(e)])
       /\ n = so[e] /\ ReadsOf(so, ar, Peer(e), n) /\ n \notin br
             => Reaches(w[n][e], g[Peer(e)], m[e])

HeldGood == \A e \in Ends : LastOf(outgoingUnackMsg[e], got[e], outgoingMsgId[e])

(* A socket that is arriving is open, and not the client's.                   *)
NetGood ==
    /\ \A e \in Ends : socket[e] <= opened
    /\ \A n \in arriving : n <= opened /\ n # socket["client"]

LineInv ==
    /\ ProtocolTypeOK
    /\ NetGood
    /\ WiresGood(wire, socket, arriving, opened, broken, got, outgoingMsgId)
    /\ HeldGood
    /\ NothingForgotten

WireType == [Sockets -> [Ends -> Seq(Frames)]]

(* One wire changes.                                                          *)
Put(w, n, e, q) == [w EXCEPT ![n][e] = q]

LEMMA WireUpdate ==
  ASSUME NEW w \in WireType, NEW n \in Sockets, NEW e \in Ends, NEW q \in Seq(Frames)
  PROVE  /\ Put(w, n, e, q) \in WireType
         /\ \A k \in Sockets, d \in Ends :
              Put(w, n, e, q)[k][d] = IF k = n /\ d = e THEN q ELSE w[k][d]
  BY DEF WireType, Put

LEMMA WrittenFacts ==
  ASSUME wire \in WireType, socket \in [Ends -> Sockets], NEW n \in Sockets, NEW e \in Ends, NEW f \in Seq(Frames)
  PROVE  /\ Written(n, e, f) \in WireType
         /\ \A k \in Sockets, d \in Ends :
              Written(n, e, f)[k][d] =
                 IF k = n /\ d = e /\ n \notin broken /\ Reads(Peer(e), n)
                 THEN wire[n][e] \o f ELSE wire[k][d]
<1>1. wire[n][e] \o f \in Seq(Frames)
  <2>1. wire[n][e] \in Seq(Frames)
    BY DEF WireType
  <2>. QED BY <2>1, ConcatProperties
<1>2. CASE n \in broken \/ ~Reads(Peer(e), n)
  <2>1. Written(n, e, f) = wire
    BY <1>2 DEF Written
  <2>. QED BY <1>2, <2>1
<1>3. CASE ~(n \in broken \/ ~Reads(Peer(e), n))
  <2>1. Written(n, e, f) = Put(wire, n, e, wire[n][e] \o f)
    BY <1>3 DEF Written, Put
  <2>2. n \notin broken /\ Reads(Peer(e), n)
    BY <1>3
  <2>. DEFINE q == wire[n][e] \o f
              x == Put(wire, n, e, q)
  <2>3. q \in Seq(Frames)
    BY <1>1
  <2>. HIDE DEF q
  <2>4. /\ x \in WireType
        /\ \A k \in Sockets, d \in Ends : x[k][d] = IF k = n /\ d = e THEN q ELSE wire[k][d]
    BY <2>3, WireUpdate
  <2>5. Written(n, e, f) = x
    BY <2>1 DEF q
  <2>. HIDE DEF x
  <2>. QED BY <2>2, <2>4, <2>5 DEF q
<1>. QED BY <1>2, <1>3

(* An end has written on its own socket.                                      *)
LEMMA NotFresh ==
  ASSUME ProtocolTypeOK, NetGood, NEW e \in Ends
  PROVE  ~Fresh(socket, arriving, opened, e, socket[e])
<1>1. socket[e] \in Int /\ opened \in Int /\ socket[e] <= opened
  BY ProtocolAssumption DEF ProtocolTypeOK, NetGood, Sockets
<1>. QED BY <1>1 DEF Fresh, NetGood, Ends

(* Frames written in the course of a session: the next message, or none.       *)
LEMMA WriteKeeps ==
  ASSUME LineInv, NEW e \in Ends, NEW f \in Seq(Frames), NEW m \in Nat,
         m >= outgoingMsgId[e], Truthful(f, got[e], m),
         \A i \in 1..Len(f) : IsRegular(f[i]) => f[i].id = outgoingMsgId[e] + 1,
         m = outgoingMsgId[e] \/ \E i \in 1..Len(f) : IsRegular(f[i]) /\ f[i].id = m
  PROVE  /\ Written(socket[e], e, f) \in WireType
         /\ WiresGood(Written(socket[e], e, f), socket, arriving, opened, broken, got, [outgoingMsgId EXCEPT ![e] = m])
<1>. DEFINE s == socket[e]
            w == Written(s, e, f)
            q == wire[s][e]
            p == Peer(e)
            g == got[p]
            written == s \notin broken /\ Reads(p, s)
<1>1. /\ s \in Sockets /\ wire \in WireType /\ p \in Ends /\ p # e /\ q \in Seq(Frames)
      /\ outgoingMsgId \in [Ends -> Nat] /\ got \in [Ends -> Nat]
      /\ \A n \in Sockets, d \in Ends : wire[n][d] \in Seq(Frames)
  BY PeerFacts DEF LineInv, ProtocolTypeOK, WireType
<1>2. /\ w \in WireType
      /\ \A k \in Sockets, d \in Ends :
           w[k][d] = IF k = s /\ d = e /\ written THEN q \o f ELSE wire[k][d]
  <2>1. socket \in [Ends -> Sockets]
    BY DEF LineInv, ProtocolTypeOK
  <2>. HIDE DEF s
  <2>. QED BY <1>1, <2>1, WrittenFacts
<1>3. written => Reaches(q, g, outgoingMsgId[e]) /\ GapFree(q, g)
  BY <1>1 DEF LineInv, WiresGood, Reads, ReadsOf
<1>4. ASSUME written
      PROVE  GapFree(q \o f, g)
  <2>1. ASSUME NEW i \in 1..Len(f), IsRegular(f[i])
        PROVE  f[i].id <= g + 1 \/ \E j \in 1..Len(q) : IsRegular(q[j]) /\ f[i].id = q[j].id + 1
    <3>1. f[i].id = outgoingMsgId[e] + 1
      BY <2>1
    <3>2. CASE outgoingMsgId[e] <= g
      BY <3>1, <3>2, <1>1
    <3>3. CASE \E j \in 1..Len(q) : IsRegular(q[j]) /\ q[j].id = outgoingMsgId[e]
      BY <3>1, <3>3
    <3>. QED BY <3>2, <3>3, <1>3, <1>4 DEF Reaches
  <2>2. g \in Nat
    BY <1>1
  <2>3. GapFree(q, g)
    BY <1>3, <1>4
  <2>. HIDE DEF q, g
  <2>. QED BY <2>1, <2>2, <2>3, <1>1, GapFreeAppend
<1>5. ASSUME written
      PROVE  Reaches(q \o f, g, m)
  <2>1. CASE m = outgoingMsgId[e]
    <3>1. Reaches(q, g, m)
      BY <2>1, <1>3, <1>5
    <3>. HIDE DEF q, g
    <3>. QED BY <3>1, <1>1, ReachesAppend
  <2>2. CASE \E i \in 1..Len(f) : IsRegular(f[i]) /\ f[i].id = m
    <3>1. Reaches(f, g, m)
      BY <2>2 DEF Reaches
    <3>. HIDE DEF q, g
    <3>. QED BY <3>1, <1>1, ReachesLast
  <2>. QED BY <2>1, <2>2
<1>6. Truthful(q, got[e], m)
  BY <1>1, TruthfulMore DEF LineInv, WiresGood
<1>7. Truthful(q \o f, got[e], m)
  BY <1>1, <1>6, TruthfulAppend
<1>8. ASSUME NEW n \in Sockets, NEW d \in Ends
      PROVE  LET m2 == [outgoingMsgId EXCEPT ![e] = m] IN
             /\ Truthful(w[n][d], got[d], m2[d])
             /\ Fresh(socket, arriving, opened, d, n) => w[n][d] = <<>>
             /\ ReadsOf(socket, arriving, Peer(d), n) => GapFree(w[n][d], got[Peer(d)])
             /\ n = socket[d] /\ ReadsOf(socket, arriving, Peer(d), n) /\ n \notin broken
                  => Reaches(w[n][d], got[Peer(d)], m2[d])
  <2>. USE DEF LineInv, WiresGood
  <2>. HIDE DEF w, written
  <2>1. CASE n = s /\ d = e /\ written
    <3>1. w[n][d] = q \o f /\ [outgoingMsgId EXCEPT ![e] = m][d] = m
      BY <2>1, <1>1, <1>2
    <3>2. ~Fresh(socket, arriving, opened, d, n)
      BY <2>1, NotFresh
    <3>. HIDE DEF LineInv, WiresGood
    <3>. QED BY <2>1, <3>1, <3>2, <1>4, <1>5, <1>7
  <2>2. CASE ~(n = s /\ d = e /\ written) /\ d # e
    BY <2>2, <1>1, <1>2
  <2>3. CASE ~(n = s /\ d = e /\ written) /\ d = e
    <3>1. w[n][d] = wire[n][d] /\ Truthful(wire[n][d], got[d], outgoingMsgId[d])
      BY <2>3, <1>2
    <3>2. Truthful(wire[n][d], got[d], m)
      BY <3>1, <2>3, <1>1, TruthfulMore
    <3>3. [outgoingMsgId EXCEPT ![e] = m][d] = m
      BY <2>3, <1>1
    <3>4. ~(n = socket[d] /\ ReadsOf(socket, arriving, Peer(d), n) /\ n \notin broken)
      BY <2>3 DEF written, Reads, ReadsOf
    <3>. QED BY <3>1, <3>2, <3>3, <3>4, <2>3
  <2>. QED BY <2>1, <2>2, <2>3
<1>. HIDE DEF w
<1>. QED BY <1>2, <1>8 DEF WiresGood, w

LEMMA TypeFacts ==
  ASSUME ProtocolTypeOK, NEW e \in Ends
  PROVE  /\ socket[e] \in Sockets /\ wire \in WireType
         /\ Peer(e) \in Ends /\ Peer(e) # e /\ Peer(Peer(e)) = e
         /\ \A d \in Ends : /\ socket[d] \in Sockets /\ outgoingMsgId[d] \in Nat /\ got[d] \in Nat
                           /\ incomingAckId[d] \in Nat /\ outgoingUnackMsg[d] \in Seq(Frames)
         /\ \A k \in Sockets, d \in Ends : wire[k][d] \in Seq(Frames)
         /\ socket \in [Ends -> Sockets] /\ Sockets \subseteq Int
<1>1. wire \in WireType /\ \A k \in Sockets, d \in Ends : wire[k][d] \in Seq(Frames)
  BY DEF ProtocolTypeOK, WireType
<1>2. Sockets \subseteq Int
  BY ProtocolAssumption DEF Sockets
<1>3. \A d \in Ends : /\ socket[d] \in Sockets /\ outgoingMsgId[d] \in Nat /\ got[d] \in Nat
                     /\ incomingAckId[d] \in Nat /\ outgoingUnackMsg[d] \in Seq(Frames)
  BY DEF ProtocolTypeOK
<1>. QED BY <1>1, <1>2, <1>3, PeerFacts DEF ProtocolTypeOK

(* Who reads what, and who may still take what, after an end has taken a fresh *)
(* socket.                                                                    *)
Remaining(ar, e, n) == IF e = "client" THEN ar \ {n} ELSE ar

LEMMA TakenFacts ==
  ASSUME ProtocolTypeOK, NetGood, NEW e \in Ends, NEW n \in Sockets, n <= opened,
         Fresh(socket, arriving, opened, e, n)
  PROVE  LET so == [socket EXCEPT ![e] = n]
             ar == Remaining(arriving, e, n)
         IN /\ n # socket[e] /\ ~Fresh(so, ar, opened, e, n)
            /\ \A k \in Sockets :
                 /\ ReadsOf(so, ar, e, k) => ReadsOf(socket, arriving, e, k) /\ k # socket[e]
                 /\ ReadsOf(so, ar, Peer(e), k) <=> ReadsOf(socket, arriving, Peer(e), k)
                 /\ \A d \in Ends : Fresh(so, ar, opened, d, k) => Fresh(socket, arriving, opened, d, k)
<1>1. /\ socket \in [Ends -> Sockets] /\ Sockets \subseteq Int /\ opened \in Int /\ n \in Int
      /\ \A d \in Ends : socket[d] \in Int
  BY ProtocolAssumption DEF ProtocolTypeOK, Sockets
<1>2. CASE e = "client"
  <2>1. n \in arriving /\ n # socket[e] /\ socket["client"] \notin arriving /\ Peer(e) = "server"
    BY <1>1, <1>2 DEF Fresh, NetGood, Peer
  <2>2. [socket EXCEPT ![e] = n]["client"] = n /\ [socket EXCEPT ![e] = n]["server"] = socket["server"]
    BY <1>1, <1>2 DEF Ends
  <2>. QED BY <1>1, <1>2, <2>1, <2>2 DEF ReadsOf, Fresh, Remaining, Ends
<1>3. CASE e = "server"
  <2>1. n > socket["server"] /\ Peer(e) = "client"
    BY <1>3 DEF Fresh, Peer
  <2>2. [socket EXCEPT ![e] = n]["server"] = n /\ [socket EXCEPT ![e] = n]["client"] = socket["client"]
    BY <1>1, <1>3 DEF Ends
  <2>. QED BY <1>1, <1>3, <2>1, <2>2 DEF ReadsOf, Fresh, Remaining, Ends
<1>. QED BY <1>2, <1>3 DEF Ends

(* An end takes a fresh socket and writes again what it holds.                 *)
LEMMA ReplaceKeeps ==
  ASSUME LineInv, NEW e \in Ends, NEW n \in Sockets, n <= opened,
         Fresh(socket, arriving, opened, e, n)
  PROVE  LET w == [Written(n, e, outgoingUnackMsg[e]) EXCEPT ![socket[e]][Peer(e)] = <<>>]
         IN /\ w \in WireType
            /\ WiresGood(w, [socket EXCEPT ![e] = n], Remaining(arriving, e, n), opened, broken,
                         got, outgoingMsgId)
<1>. DEFINE s == socket[e]
            p == Peer(e)
            u == outgoingUnackMsg[e]
            w1 == Written(n, e, u)
            w == [w1 EXCEPT ![s][p] = <<>>]
            so == [socket EXCEPT ![e] = n]
            ar == Remaining(arriving, e, n)
            written == n \notin broken /\ Reads(p, n)
            WG == WiresGood(wire, socket, arriving, opened, broken, got, outgoingMsgId)
<1>1. /\ s \in Sockets /\ wire \in WireType /\ p \in Ends /\ p # e /\ Peer(p) = e /\ u \in Seq(Frames)
      /\ socket[p] \in Sockets /\ outgoingMsgId[e] \in Nat /\ got[e] \in Nat /\ got[p] \in Nat
      /\ socket \in [Ends -> Sockets] /\ Sockets \subseteq Int
      /\ <<>> \in Seq(Frames)
  <2>1. <<>> \in Seq(Frames)
    OBVIOUS
  <2>. QED BY <2>1, TypeFacts DEF LineInv
<1>2. WG /\ LastOf(u, got[e], outgoingMsgId[e]) /\ outgoingMsgId[e] - Len(u) <= got[p]
  BY DEF LineInv, HeldGood, NothingForgotten
<1>3. wire[n][e] = <<>>
  BY <1>2 DEF WiresGood
<1>4. /\ w1 \in WireType
      /\ \A k \in Sockets, d \in Ends :
           w1[k][d] = IF k = n /\ d = e /\ written THEN u ELSE wire[k][d]
  <2>1. wire[n][e] \o u = u
    BY <1>1, <1>3, ConcatEmptySeq
  <2>. HIDE DEF u
  <2>2. /\ w1 \in WireType
        /\ \A k \in Sockets, d \in Ends :
             w1[k][d] = IF k = n /\ d = e /\ n \notin broken /\ Reads(Peer(e), n)
                        THEN wire[n][e] \o u ELSE wire[k][d]
    BY <1>1, WrittenFacts
  <2>. HIDE DEF w1
  <2>. QED BY <2>1, <2>2
<1>5. /\ w \in WireType
      /\ \A k \in Sockets, d \in Ends : w[k][d] = IF k = s /\ d = p THEN <<>> ELSE w1[k][d]
  <2>. DEFINE t == <<>>
  <2>1. /\ w = Put(w1, s, p, t) /\ t \in Seq(Frames)
        /\ s \in Sockets /\ p \in Ends /\ w1 \in WireType
    BY <1>1, <1>4 DEF Put
  <2>. HIDE DEF t, w1, w, s, p, u, so, WG
  <2>2. /\ w \in WireType
        /\ \A k \in Sockets, d \in Ends : w[k][d] = IF k = s /\ d = p THEN t ELSE w1[k][d]
    BY <2>1, WireUpdate
  <2>. QED BY <2>2 DEF t
<1>6. /\ \A d \in Ends : d = e \/ d = p
      /\ so[e] = n /\ so[p] = socket[p]
  BY <1>1, EndsAre
<1>a. /\ n # s /\ ~Fresh(so, ar, opened, e, n)
      /\ \A k \in Sockets :
           /\ ReadsOf(so, ar, e, k) => ReadsOf(socket, arriving, e, k) /\ k # s
           /\ ReadsOf(so, ar, p, k) <=> ReadsOf(socket, arriving, p, k)
           /\ \A d \in Ends : Fresh(so, ar, opened, d, k) => Fresh(socket, arriving, opened, d, k)
  BY TakenFacts DEF LineInv
<1>b. written <=> n \notin broken /\ ReadsOf(socket, arriving, p, n)
  BY DEF Reads, ReadsOf
<1>. HIDE DEF w1, w, so, ar, WG, written
<1>7. GapFree(u, got[p]) /\ Reaches(u, got[p], outgoingMsgId[e]) /\ Truthful(u, got[e], outgoingMsgId[e])
  <2>. HIDE DEF u
  <2>. QED BY <1>1, <1>2, HeldFirst DEF GapFree
<1>8. ASSUME NEW k \in Sockets, NEW d \in Ends
      PROVE  /\ Truthful(w[k][d], got[d], outgoingMsgId[d])
             /\ Fresh(so, ar, opened, d, k) => w[k][d] = <<>>
             /\ ReadsOf(so, ar, Peer(d), k) => GapFree(w[k][d], got[Peer(d)])
             /\ k = so[d] /\ ReadsOf(so, ar, Peer(d), k) /\ k \notin broken
                  => Reaches(w[k][d], got[Peer(d)], outgoingMsgId[d])
  <2>1. CASE k = n /\ d = e /\ written
    <3>1. w[k][d] = u /\ ~Fresh(so, ar, opened, d, k)
      BY <2>1, <1>1, <1>4, <1>5, <1>a
    <3>. QED BY <2>1, <3>1, <1>1, <1>7
  <2>2. CASE k = s /\ d = p
    <3>1. w[k][d] = <<>> /\ ~ReadsOf(so, ar, Peer(d), k)
      BY <2>2, <1>1, <1>5, <1>a
    <3>. QED BY <3>1, NothingOnWire
  <2>3. CASE ~(k = n /\ d = e /\ written) /\ ~(k = s /\ d = p)
    <3>1. w[k][d] = wire[k][d]
      BY <2>3, <1>4, <1>5
    <3>2. /\ Truthful(wire[k][d], got[d], outgoingMsgId[d])
          /\ Fresh(socket, arriving, opened, d, k) => wire[k][d] = <<>>
          /\ ReadsOf(socket, arriving, Peer(d), k) => GapFree(wire[k][d], got[Peer(d)])
          /\ k = socket[d] /\ ReadsOf(socket, arriving, Peer(d), k) /\ k \notin broken
                  => Reaches(wire[k][d], got[Peer(d)], outgoingMsgId[d])
      BY <1>2 DEF WG, WiresGood
    <3>5. Fresh(so, ar, opened, d, k) => w[k][d] = <<>>
      BY <3>1, <3>2, <1>a
    <3>3. CASE d = e
      <4>1. ReadsOf(so, ar, Peer(d), k) <=> ReadsOf(socket, arriving, Peer(d), k)
        BY <3>3, <1>a
      <4>2. ~(k = so[d] /\ ReadsOf(so, ar, Peer(d), k) /\ k \notin broken)
        BY <2>3, <3>3, <4>1, <1>6, <1>b
      <4>. QED BY <3>1, <3>2, <3>5, <4>1, <4>2
    <3>4. CASE d = p
      <4>1. so[d] = socket[d] /\ Peer(d) = e
        BY <3>4, <1>1, <1>6
      <4>2. ReadsOf(so, ar, Peer(d), k) => ReadsOf(socket, arriving, Peer(d), k)
        BY <4>1, <1>a
      <4>. QED BY <3>1, <3>2, <3>5, <4>1, <4>2
    <3>. QED BY <3>3, <3>4, <1>6
  <2>. QED BY <2>1, <2>2, <2>3
<1>9. WiresGood(w, so, ar, opened, broken, got, outgoingMsgId)
  BY <1>8 DEF WiresGood
<1>. QED BY <1>5, <1>9 DEF w, w1, so, ar

(* An end reads its own socket.                                               *)
LEMMA ReadsOwn ==
  ASSUME ProtocolTypeOK, NEW e \in Ends
  PROVE  ReadsOf(socket, arriving, e, socket[e])
<1>1. socket[e] \in Int
  BY ProtocolAssumption DEF ProtocolTypeOK, Sockets
<1>. QED BY <1>1 DEF ReadsOf, Ends

LEMMA MoreGot ==
  ASSUME NEW q \in Seq(Frames), NEW g \in Nat, NEW h \in Nat, NEW m \in Nat, g <= h
  PROVE  /\ GapFree(q, g) => GapFree(q, h)
         /\ Reaches(q, g, m) => Reaches(q, h, m)
<1>1. \A i \in 1..Len(q) : q[i].id \in Nat
  BY FrameFields
<1>2. ASSUME GapFree(q, g), NEW i \in 1..Len(q), IsRegular(q[i])
      PROVE  q[i].id <= h + 1 \/ \E j \in 1..(i - 1) : IsRegular(q[j]) /\ q[i].id = q[j].id + 1
  <2>1. CASE q[i].id <= g + 1
    BY <2>1, <1>1
  <2>2. CASE \E j \in 1..(i - 1) : IsRegular(q[j]) /\ q[i].id = q[j].id + 1
    BY <2>2
  <2>. QED BY <1>2, <2>1, <2>2 DEF GapFree
<1>3. Reaches(q, g, m) => Reaches(q, h, m)
  BY DEF Reaches
<1>. QED BY <1>2, <1>3 DEF GapFree

(* An end reads the next frame.                                               *)
LEMMA ReadKeeps ==
  ASSUME LineInv, NEW e \in Ends, NEW h,
         wire[socket[e]][Peer(e)] # <<>>,
         LET frame == Head(wire[socket[e]][Peer(e)])
         IN h = IF IsRegular(frame) /\ frame.id > got[e] THEN frame.id ELSE got[e]
  PROVE  LET q == wire[socket[e]][Peer(e)]
             w == [wire EXCEPT ![socket[e]][Peer(e)] = Tail(q)]
         IN /\ w \in WireType
            /\ WiresGood(w, socket, arriving, opened, broken, [got EXCEPT ![e] = h], outgoingMsgId)
            /\ h \in Nat /\ got[e] <= h /\ h <= outgoingMsgId[Peer(e)]
            /\ Head(q) \in Frames /\ Head(q).ack <= got[Peer(e)]
            /\ IsRegular(Head(q)) => Head(q).id <= h
<1>. DEFINE s == socket[e]
            p == Peer(e)
            q == wire[s][p]
            w == [wire EXCEPT ![s][p] = Tail(q)]
            g == [got EXCEPT ![e] = h]
            m == outgoingMsgId
<1>1. /\ s \in Sockets /\ wire \in WireType /\ p \in Ends /\ p # e /\ Peer(p) = e /\ q \in Seq(Frames)
      /\ m[p] \in Nat /\ m[e] \in Nat /\ got[e] \in Nat /\ got[p] \in Nat
      /\ socket[p] \in Sockets /\ Sockets \subseteq Int
      /\ \A k \in Sockets, d \in Ends : wire[k][d] \in Seq(Frames)
  BY TypeFacts DEF LineInv
<1>2. \A k \in Sockets, d \in Ends :
         /\ Truthful(wire[k][d], got[d], m[d])
         /\ Fresh(socket, arriving, opened, d, k) => wire[k][d] = <<>>
         /\ ReadsOf(socket, arriving, Peer(d), k) => GapFree(wire[k][d], got[Peer(d)])
         /\ k = socket[d] /\ ReadsOf(socket, arriving, Peer(d), k) /\ k \notin broken
               => Reaches(wire[k][d], got[Peer(d)], m[d])
  BY DEF LineInv, WiresGood
<1>3. GapFree(q, got[e]) /\ Truthful(q, got[p], m[p]) /\ got[e] <= m[p]
  <2>1. got[Peer(p)] <= m[p]
    BY <1>1 DEF LineInv, NothingForgotten
  <2>2. ReadsOf(socket, arriving, Peer(p), s)
    BY <1>1, ReadsOwn DEF LineInv
  <2>3. Truthful(wire[s][p], got[p], m[p]) /\ GapFree(wire[s][p], got[Peer(p)])
    BY <1>1, <1>2, <2>2
  <2>. QED BY <1>1, <2>1, <2>3
<1>4. /\ h = IF IsRegular(Head(q)) /\ Head(q).id > got[e] THEN Head(q).id ELSE got[e]
      /\ q # <<>>
  OBVIOUS
<1>5. Head(q) \in Frames
  BY <1>1, <1>4, HeadTailProperties
<1>6. h \in Nat
  BY <1>1, <1>4, <1>5 DEF Frames
<1>7. /\ GapFree(Tail(q), h) /\ Truthful(Tail(q), got[p], m[p])
      /\ Reaches(q, got[e], m[p]) => Reaches(Tail(q), h, m[p])
      /\ Tail(q) \in Seq(Frames)
      /\ h = got[e] \/ (h = got[e] + 1 /\ got[e] < m[p])
      /\ Head(q).ack <= got[p]
      /\ IsRegular(Head(q)) => Head(q).id <= h
  <2>. HIDE DEF q
  <2>. QED BY <1>1, <1>3, <1>4, <1>6, ReadFront
<1>8. got[e] <= h /\ h <= m[p]
  BY <1>1, <1>3, <1>6, <1>7
<1>9. /\ w \in WireType
      /\ \A k \in Sockets, d \in Ends : w[k][d] = IF k = s /\ d = p THEN Tail(q) ELSE wire[k][d]
  <2>1. w = Put(wire, s, p, Tail(q))
    BY DEF Put
  <2>. DEFINE t == Tail(q)
  <2>2. t \in Seq(Frames) /\ w = Put(wire, s, p, t)
    BY <1>7, <2>1
  <2>. HIDE DEF t, w, s, p
  <2>3. /\ w \in WireType
        /\ \A k \in Sockets, d \in Ends : w[k][d] = IF k = s /\ d = p THEN t ELSE wire[k][d]
    BY <1>1, <2>2, WireUpdate, SMTT(30)
  <2>. QED BY <2>3 DEF t
<1>10. g[e] = h /\ g[p] = got[p] /\ \A d \in Ends : d = e \/ d = p
  BY <1>1, EndsAre DEF LineInv, ProtocolTypeOK
<1>. HIDE DEF w, g
<1>11. ASSUME NEW k \in Sockets, NEW d \in Ends
       PROVE  /\ Truthful(w[k][d], g[d], m[d])
              /\ Fresh(socket, arriving, opened, d, k) => w[k][d] = <<>>
              /\ ReadsOf(socket, arriving, Peer(d), k) => GapFree(w[k][d], g[Peer(d)])
              /\ k = socket[d] /\ ReadsOf(socket, arriving, Peer(d), k) /\ k \notin broken
                   => Reaches(w[k][d], g[Peer(d)], m[d])
  <2>1. CASE k = s /\ d = p
    <3>1. w[k][d] = Tail(q) /\ g[d] = got[p] /\ g[Peer(d)] = h
      BY <2>1, <1>1, <1>9, <1>10
    <3>2. ~Fresh(socket, arriving, opened, d, k)
      BY <2>1, <1>2, <1>4
    <3>3. k = socket[d] /\ ReadsOf(socket, arriving, Peer(d), k) /\ k \notin broken
            => Reaches(q, got[e], m[p])
      BY <2>1, <1>1, <1>2
    <3>. QED BY <2>1, <3>1, <3>2, <3>3, <1>7
  <2>2. CASE k # s /\ d = p
    <3>1. w[k][d] = wire[k][d] /\ g[d] = got[d] /\ g[Peer(d)] = h /\ Peer(d) = e
      BY <2>2, <1>1, <1>9, <1>10
    <3>2. /\ GapFree(wire[k][d], got[e]) => GapFree(wire[k][d], h)
          /\ Reaches(wire[k][d], got[e], m[d]) => Reaches(wire[k][d], h, m[d])
      BY <2>2, <1>1, <1>6, <1>8, MoreGot
    <3>. QED BY <3>1, <3>2, <1>2
  <2>3. CASE d = e
    <3>1. w[k][d] = wire[k][d] /\ g[d] = h /\ g[Peer(d)] = got[Peer(d)]
      BY <2>3, <1>1, <1>9, <1>10
    <3>2. Truthful(wire[k][d], got[d], m[d])
      BY <1>2
    <3>3. Truthful(wire[k][d], h, m[d])
      BY <2>3, <3>2, <1>1, <1>6, <1>8, TruthfulMore, SMTT(30)
    <3>. QED BY <3>1, <3>3, <1>2
  <2>. QED BY <2>1, <2>2, <2>3, <1>10
<1>12. WiresGood(w, socket, arriving, opened, broken, g, m)
  BY <1>11 DEF WiresGood
<1>. QED BY <1>5, <1>6, <1>7, <1>8, <1>9, <1>12 DEF w, g

-----------------------------------------------------------------------------
(* Every action keeps the invariant.                                         *)

LEMMA WiresStep ==
  ASSUME NEW w, NEW so, NEW ar, NEW op, NEW br, NEW g, NEW m, WiresGood(w, so, ar, op, br, g, m),
         wire' = w, socket' = so, arriving' = ar, opened' = op, broken' = br, got' = g,
         outgoingMsgId' = m
  PROVE  WiresGood(wire, socket, arriving, opened, broken, got, outgoingMsgId)'
  BY DEF WiresGood, Fresh, ReadsOf

(* One frame without a number is written.                                     *)
LEMMA WriteMessageKeeps ==
  ASSUME LineInv, NEW e \in Ends, NEW type \in {"KeepAlive", "Disconnect"}, WriteMessage(e, type, 0),
         UNCHANGED <<socket, arriving, opened, broken, got, outgoingMsgId>>
  PROVE  wire' \in WireType /\ WiresGood(wire, socket, arriving, opened, broken, got, outgoingMsgId)'
<1>. DEFINE f == <<[type |-> type, id |-> 0, ack |-> incomingAckId[e]]>>
            m == outgoingMsgId[e]
<1>1. ProtocolTypeOK /\ outgoingMsgId \in [Ends -> Nat] /\ got[e] \in Nat /\ incomingAckId[e] \in Nat
      /\ incomingAckId[e] <= got[e]
  BY DEF LineInv, ProtocolTypeOK, NothingForgotten
<1>2. f \in Seq(Frames) /\ Len(f) = 1 /\ f[1] = [type |-> type, id |-> 0, ack |-> incomingAckId[e]]
  <2>1. [type |-> type, id |-> 0, ack |-> incomingAckId[e]] \in Frames
    BY <1>1 DEF Frames
  <2>. QED BY <2>1
<1>3. \A i \in 1..Len(f) : ~IsRegular(f[i]) /\ f[i].ack <= got[e]
  <2>1. \A i \in 1..Len(f) : f[i] = f[1]
    BY <1>2
  <2>2. ~IsRegular(f[1]) /\ f[1].ack <= got[e]
    BY <1>1, <1>2 DEF IsRegular
  <2>. HIDE DEF f
  <2>. QED BY <2>1, <2>2
<1>4. Truthful(f, got[e], m)
  BY <1>3 DEF Truthful
<1>5. wire' = Written(socket[e], e, f)
  BY DEF WriteMessage
<1>6. [outgoingMsgId EXCEPT ![e] = m] = outgoingMsgId /\ m \in Nat /\ m >= m
  BY <1>1
<1>. HIDE DEF f
<1>7. /\ Written(socket[e], e, f) \in WireType
      /\ WiresGood(Written(socket[e], e, f), socket, arriving, opened, broken, got, [outgoingMsgId EXCEPT ![e] = m])
  <2>. HIDE DEF m
  <2>1. m >= outgoingMsgId[e] /\ m = outgoingMsgId[e]
    BY <1>6 DEF m
  <2>. QED BY <2>1, <1>2, <1>3, <1>4, <1>6, WriteKeeps
<1>. QED BY <1>5, <1>6, <1>7, WiresStep

LEMMA KeepAliveKeeps ==
  ASSUME LineInv, NEW e \in Ends, KeepAlive(e)
  PROVE  LineInv'
<1>1. wire' \in WireType /\ WiresGood(wire, socket, arriving, opened, broken, got, outgoingMsgId)'
  BY WriteMessageKeeps DEF KeepAlive, netVars
<1>. QED BY <1>1 DEF LineInv, ProtocolTypeOK, NetGood, HeldGood, NothingForgotten, WireType, KeepAlive,
      netVars, flowVars, remoteVars

LEMMA GraceExceededKeeps ==
  ASSUME LineInv, NEW e \in Ends, GraceExceeded(e)
  PROVE  LineInv'
<1>1. wire' \in WireType /\ WiresGood(wire, socket, arriving, opened, broken, got, outgoingMsgId)'
  BY WriteMessageKeeps DEF GraceExceeded, netVars
<1>. QED BY <1>1 DEF LineInv, ProtocolTypeOK, NetGood, HeldGood, NothingForgotten, WireType, GraceExceeded,
      AbandonSession, netVars, flowVars, remoteVars

LEMMA BreakKeeps ==
  ASSUME LineInv, NEW n \in Sockets, Break(n)
  PROVE  LineInv'
<1>. DEFINE t == [e \in Ends |-> <<>>]
            w == [wire EXCEPT ![n] = t]
<1>1. wire \in WireType /\ t \in [Ends -> Seq(Frames)]
  BY DEF LineInv, ProtocolTypeOK, WireType
<1>2. /\ w \in WireType
      /\ \A k \in Sockets, d \in Ends : w[k][d] = IF k = n THEN <<>> ELSE wire[k][d]
  BY <1>1 DEF WireType
<1>3. wire' = w /\ broken' = broken \cup {n}
      /\ UNCHANGED <<socket, arriving, opened, got, outgoingMsgId>>
  BY DEF Break
<1>. HIDE DEF w
<1>4. WiresGood(w, socket, arriving, opened, broken \cup {n}, got, outgoingMsgId)
  <2>1. ASSUME NEW k \in Sockets, NEW d \in Ends, k = n
        PROVE  GapFree(w[k][d], got[Peer(d)]) /\ Truthful(w[k][d], got[d], outgoingMsgId[d]) /\ w[k][d] = <<>>
    BY <1>2, <2>1, NothingOnWire
  <2>. QED BY <1>2, <2>1 DEF LineInv, WiresGood
<1>5. WiresGood(wire, socket, arriving, opened, broken, got, outgoingMsgId)'
  BY <1>3, <1>4, WiresStep
<1>. QED BY <1>2, <1>3, <1>5, SMTT(30) DEF LineInv, ProtocolTypeOK, NetGood, HeldGood, NothingForgotten, WireType, Break,
      flowVars, remoteVars

(* Reconnections that open no socket.                                         *)
LEMMA ReconnectingKeeps ==
  ASSUME LineInv, SocketClosed \/ AckTimeout \/ ReconnectGivesUp
  PROVE  LineInv'
<1>1. UNCHANGED <<socket, opened, arriving, broken, wire, outgoingMsgId, outgoingUnackMsg,
                  incomingAckId, flowVars, got>>
  BY DEF SocketClosed, AckTimeout, ReconnectGivesUp, netVars
<1>2. noticed' \in BOOLEAN /\ loops' \in Nat /\ reported' \in {"connected", "reconnecting", "disconnected"}
  <2>1. noticed \in BOOLEAN /\ loops \in Nat
    BY DEF LineInv, ProtocolTypeOK
  <2>2. CASE SocketClosed
    BY <2>1, <2>2 DEF SocketClosed, StartReconnect
  <2>3. CASE AckTimeout
    BY <2>1, <2>3 DEF AckTimeout, StartReconnect, netVars
  <2>4. CASE ReconnectGivesUp
    <3>1. noticed' = noticed /\ loops' = loops - 1 /\ loops > 0 /\ reported' = "disconnected"
      BY <2>4 DEF ReconnectGivesUp, netVars
    <3>. QED BY <2>1, <3>1
  <2>. QED BY <2>2, <2>3, <2>4
<1>. QED BY <1>1, <1>2 DEF LineInv, ProtocolTypeOK, NetGood, HeldGood, NothingForgotten, WiresGood,
      Fresh, ReadsOf, flowVars

(* connect() reaches the server, or fails after it did.                       *)
LEMMA ConnectKeeps ==
  ASSUME LineInv, Connect
  PROVE  LineInv'
<1>. DEFINE n == opened + 1
<1>1. /\ socket \in [Ends -> Sockets] /\ Sockets \subseteq Int /\ opened \in Int /\ n \in Sockets
      /\ arriving \subseteq Sockets /\ loops \in Nat
      /\ \A e \in Ends : socket[e] \in Int /\ socket[e] <= opened
  BY ProtocolAssumption DEF LineInv, ProtocolTypeOK, NetGood, Sockets, Connect
<1>2. /\ opened' = n /\ arriving' = arriving \cup {n} /\ loops' = loops - 1 /\ loops > 0
      /\ UNCHANGED <<socket, broken, noticed, wire, outgoingMsgId, outgoingUnackMsg, incomingAckId,
                     flowVars, reported, got>>
  BY DEF Connect
<1>3. WiresGood(wire, socket, arriving \cup {n}, n, broken, got, outgoingMsgId)
  <2>1. ASSUME NEW k \in Sockets, NEW d \in Ends
        PROVE  /\ Fresh(socket, arriving \cup {n}, n, d, k) => Fresh(socket, arriving, opened, d, k)
               /\ \/ ReadsOf(socket, arriving \cup {n}, Peer(d), k)
                       => ReadsOf(socket, arriving, Peer(d), k)
                  \/ k # socket[d] /\ Fresh(socket, arriving, opened, d, k)
    <3>1. k \in Int
      BY <1>1
    <3>2. CASE d = "client"
      BY <1>1, <3>1, <3>2 DEF Fresh, ReadsOf, Peer
    <3>3. CASE d = "server"
      BY <1>1, <3>1, <3>3 DEF Fresh, ReadsOf, Peer, Ends
    <3>. QED BY <3>2, <3>3 DEF Ends
  <2>2. \A d \in Ends : GapFree(<<>>, got[Peer(d)])
    BY NothingOnWire
  <2>. HIDE DEF n
  <2>. QED BY <2>1, <2>2 DEF LineInv, WiresGood
<1>4. WiresGood(wire, socket, arriving, opened, broken, got, outgoingMsgId)'
  <2>. HIDE DEF n
  <2>. QED BY <1>2, <1>3, WiresStep
<1>5. ProtocolTypeOK'
  BY <1>1, <1>2 DEF LineInv, ProtocolTypeOK, flowVars
<1>6. NetGood'
  <2>1. \A e \in Ends : socket'[e] <= opened'
    <3>1. \A e \in Ends : socket'[e] = socket[e]
      BY <1>2
    <3>. QED BY <1>1, <1>2, <3>1
  <2>2. ASSUME NEW k \in arriving'
        PROVE  k <= opened' /\ k # socket'["client"]
    <3>1. CASE k \in arriving
      <4>1. k \in Int /\ k <= opened /\ k # socket["client"]
        BY <1>1, <3>1 DEF LineInv, NetGood
      <4>. QED BY <1>1, <1>2, <4>1
    <3>2. CASE k = n
      <4>1. socket["client"] \in Int /\ socket["client"] <= opened
        BY <1>1 DEF Ends
      <4>. QED BY <1>1, <1>2, <3>2, <4>1
    <3>. QED BY <1>2, <2>2, <3>1, <3>2
  <2>. QED BY <2>1, <2>2 DEF NetGood
<1>. QED BY <1>2, <1>4, <1>5, <1>6 DEF LineInv, HeldGood, NothingForgotten

LEMMA ConnectFailsKeeps ==
  ASSUME LineInv, NEW n \in Sockets, ConnectFails(n)
  PROVE  LineInv'
<1>1. /\ arriving' = arriving \ {n} /\ loops' = loops + 1
      /\ UNCHANGED <<socket, opened, broken, noticed, wire, outgoingMsgId, outgoingUnackMsg,
                     incomingAckId, flowVars, reported, got>>
  BY DEF ConnectFails
<1>2. WiresGood(wire, socket, arriving \ {n}, opened, broken, got, outgoingMsgId)
  <2>1. ASSUME NEW k \in Sockets, NEW d \in Ends
        PROVE  /\ Fresh(socket, arriving \ {n}, opened, d, k) => Fresh(socket, arriving, opened, d, k)
               /\ ReadsOf(socket, arriving \ {n}, Peer(d), k) => ReadsOf(socket, arriving, Peer(d), k)
    BY DEF Fresh, ReadsOf
  <2>. QED BY <2>1 DEF LineInv, WiresGood
<1>3. WiresGood(wire, socket, arriving, opened, broken, got, outgoingMsgId)'
  BY <1>1, <1>2, WiresStep
<1>. QED BY <1>1, <1>3 DEF LineInv, ProtocolTypeOK, NetGood, HeldGood, NothingForgotten, flowVars

LEMMA ReplaceSocketKeeps ==
  ASSUME LineInv, NEW e \in Ends, NEW n \in Sockets, n <= opened,
         Fresh(socket, arriving, opened, e, n), ReplaceSocket(e, n),
         arriving' = Remaining(arriving, e, n), UNCHANGED <<opened, broken, loops>>,
         noticed' \in BOOLEAN, reported' \in {"connected", "reconnecting", "disconnected"}
  PROVE  LineInv'
<1>1. wire' \in WireType /\ WiresGood(wire, socket, arriving, opened, broken, got, outgoingMsgId)'
  BY ReplaceKeeps, WiresStep DEF ReplaceSocket
<1>2. socket' = [socket EXCEPT ![e] = n] /\ socket \in [Ends -> Sockets]
  BY DEF ReplaceSocket, LineInv, ProtocolTypeOK
<1>3. NetGood'
  <2>1. \A d \in Ends : socket'[d] = IF d = e THEN n ELSE socket[d]
    BY <1>2
  <2>2. \A d \in Ends : socket'[d] <= opened'
    BY <2>1 DEF LineInv, NetGood
  <2>3. ASSUME NEW k \in arriving'
        PROVE  k <= opened' /\ k # socket'["client"]
    <3>1. k \in arriving /\ (e = "client" => k # n)
      BY DEF Remaining
    <3>2. k <= opened /\ k # socket["client"] /\ opened' = opened
      BY <3>1 DEF LineInv, NetGood
    <3>3. "client" \in Ends
      BY DEF Ends
    <3>. QED BY <2>1, <3>1, <3>2, <3>3
  <2>. QED BY <2>2, <2>3 DEF NetGood
<1>4. UNCHANGED <<outgoingMsgId, outgoingUnackMsg, incomingAckId, saturated, overflowed, closed, got>>
  BY DEF ReplaceSocket, flowVars
<1>5. HeldGood' /\ NothingForgotten'
  BY <1>4 DEF LineInv, HeldGood, NothingForgotten
<1>6. ProtocolTypeOK'
  <2>1. socket' \in [Ends -> Sockets] /\ arriving' \subseteq Sockets
    BY <1>2 DEF LineInv, ProtocolTypeOK, Remaining
  <2>. QED BY <2>1, <1>1, <1>4 DEF LineInv, ProtocolTypeOK, WireType
<1>. QED BY <1>1, <1>3, <1>5, <1>6 DEF LineInv

LEMMA ReconnectSucceedsKeeps ==
  ASSUME LineInv, NEW n \in Sockets, ReconnectSucceeds(n)
  PROVE  LineInv'
<1>1. /\ ReplaceSocket("client", n) /\ UNCHANGED <<opened, broken, loops>>
      /\ noticed' = FALSE /\ reported' = "connected"
      /\ n \in arriving /\ arriving' = arriving \ {n}
  BY DEF ReconnectSucceeds
<1>2. "client" \in Ends /\ n <= opened /\ Fresh(socket, arriving, opened, "client", n)
  BY <1>1 DEF Ends, LineInv, NetGood, Fresh
<1>3. arriving' = Remaining(arriving, "client", n)
  BY <1>1 DEF Remaining
<1>. QED BY <1>1, <1>2, <1>3, ReplaceSocketKeeps

LEMMA AcceptKeeps ==
  ASSUME LineInv, Accept
  PROVE  LineInv'
<1>. DEFINE n == socket["server"] + 1
<1>1. /\ socket["server"] \in Nat \ {0} /\ opened \in Nat /\ MaxSockets \in Nat
      /\ socket["server"] < opened /\ opened <= MaxSockets
  <2>1. socket["server"] \in Sockets /\ opened \in Sockets
    BY DEF LineInv, ProtocolTypeOK, Ends
  <2>2. socket["server"] < opened
    BY DEF Accept
  <2>. QED BY <2>1, <2>2, ProtocolAssumption DEF Sockets
<1>2. /\ "server" \in Ends /\ n \in Sockets /\ n <= opened
      /\ Fresh(socket, arriving, opened, "server", n)
  BY <1>1 DEF Ends, Sockets, Fresh
<1>3. /\ ReplaceSocket("server", n) /\ UNCHANGED <<opened, broken, loops>>
      /\ arriving' = Remaining(arriving, "server", n)
      /\ noticed' \in BOOLEAN /\ reported' \in {"connected", "reconnecting", "disconnected"}
  BY DEF Accept, Remaining, LineInv, ProtocolTypeOK, remoteVars
<1>. HIDE DEF n
<1>. QED BY <1>2, <1>3, ReplaceSocketKeeps

LEMMA SendKeeps ==
  ASSUME LineInv, NEW e \in Ends, Send(e)
  PROVE  LineInv'
<1>. DEFINE m == outgoingMsgId[e]
            u == outgoingUnackMsg[e]
            msg == [type |-> "Regular", id |-> m + 1, ack |-> incomingAckId[e]]
            farewell == [type |-> "Disconnect", id |-> 0, ack |-> incomingAckId[e]]
            both == Len(u) + 1 > ReplayMax /\ ~overflowed[e]
            f == IF both THEN <<msg, farewell>> ELSE <<msg>>
<1>1. /\ outgoingMsgId \in [Ends -> Nat] /\ outgoingUnackMsg \in [Ends -> Seq(Frames)]
      /\ m \in Nat /\ got[e] \in Nat /\ incomingAckId[e] \in Nat /\ incomingAckId[e] <= got[e]
      /\ u \in Seq(Frames) /\ Len(u) \in Nat /\ LastOf(u, got[e], m)
  BY LenProperties DEF LineInv, ProtocolTypeOK, NothingForgotten, HeldGood
<1>2. msg \in Frames /\ farewell \in Frames
  BY <1>1 DEF Frames
<1>3. /\ f \in Seq(Frames) /\ 1 \in 1..Len(f) /\ f[1] = msg
      /\ \A i \in 1..Len(f) : f[i] = msg \/ f[i] = farewell
  <2>. HIDE DEF msg, farewell
  <2>1. CASE both
    <3>1. f = <<msg, farewell>>
      BY <2>1
    <3>2. \A i \in 1..Len(f) : i = 1 \/ i = 2
      BY <3>1
    <3>. QED BY <1>2, <3>1, <3>2
  <2>2. CASE ~both
    <3>1. f = <<msg>>
      BY <2>2
    <3>2. \A i \in 1..Len(f) : i = 1
      BY <3>1
    <3>. QED BY <1>2, <3>1, <3>2
  <2>. QED BY <2>1, <2>2
<1>4. /\ IsRegular(msg) /\ msg.id = m + 1 /\ msg.ack = incomingAckId[e]
      /\ ~IsRegular(farewell) /\ farewell.ack = incomingAckId[e]
  BY DEF IsRegular
<1>5. /\ wire' = Written(socket[e], e, f) /\ outgoingMsgId' = [outgoingMsgId EXCEPT ![e] = m + 1]
      /\ outgoingUnackMsg' = [outgoingUnackMsg EXCEPT ![e] = Append(u, msg)]
      /\ UNCHANGED <<netVars, incomingAckId, remoteVars, got>>
  BY DEF Send
<1>6. /\ saturated' \in [Ends -> BOOLEAN] /\ overflowed' \in [Ends -> BOOLEAN] /\ closed' \subseteq Ends
  <2>1. saturated \in [Ends -> BOOLEAN] /\ overflowed \in [Ends -> BOOLEAN] /\ closed \subseteq Ends
    BY DEF LineInv, ProtocolTypeOK
  <2>2. \/ AbandonSession(e) /\ UNCHANGED saturated
        \/ /\ saturated' = [saturated EXCEPT ![e] = @ \/ Len(u) + 1 > High]
           /\ UNCHANGED <<overflowed, closed>>
    BY DEF Send
  <2>. QED BY <2>1, <2>2 DEF AbandonSession
<1>. HIDE DEF f, msg, farewell, both
<1>7. /\ Truthful(f, got[e], m + 1)
      /\ \A i \in 1..Len(f) : IsRegular(f[i]) => f[i].id = m + 1
      /\ \E i \in 1..Len(f) : IsRegular(f[i]) /\ f[i].id = m + 1
      /\ m + 1 \in Nat /\ m + 1 >= m
  <2>1. \A i \in 1..Len(f) : f[i].ack <= got[e] /\ (IsRegular(f[i]) => f[i].id = m + 1)
    BY <1>1, <1>3, <1>4
  <2>2. m + 1 \in Nat /\ m + 1 >= m /\ m + 1 <= m + 1
    BY <1>1
  <2>. HIDE DEF m
  <2>. QED BY <2>1, <2>2, <1>3, <1>4 DEF Truthful
<1>8. /\ Written(socket[e], e, f) \in WireType
      /\ WiresGood(Written(socket[e], e, f), socket, arriving, opened, broken, got, [outgoingMsgId EXCEPT ![e] = m + 1])
  BY <1>3, <1>7, WriteKeeps
<1>9. WiresGood(wire, socket, arriving, opened, broken, got, outgoingMsgId)' /\ wire' \in WireType
  BY <1>5, <1>8, WiresStep DEF netVars
<1>10. /\ LastOf(Append(u, msg), got[e], m + 1)
       /\ Append(u, msg) \in Seq(Frames) /\ Len(Append(u, msg)) = Len(u) + 1
  <2>. HIDE DEF u, m
  <2>. QED BY <1>1, <1>2, <1>4, HeldAppend
<1>11. /\ outgoingUnackMsg' \in [Ends -> Seq(Frames)] /\ outgoingMsgId' \in [Ends -> Nat]
       /\ outgoingUnackMsg'[e] = Append(u, msg) /\ outgoingMsgId'[e] = m + 1
       /\ \A d \in Ends : d # e => outgoingUnackMsg'[d] = outgoingUnackMsg[d]
                                  /\ outgoingMsgId'[d] = outgoingMsgId[d]
  <2>. HIDE DEF u, m
  <2>. QED BY <1>1, <1>5, <1>7, <1>10
<1>12. got' = got
  BY <1>5
<1>13. HeldGood'
  <2>. HIDE DEF u, m
  <2>. QED BY <1>10, <1>11, <1>12 DEF LineInv, HeldGood
<1>14. NothingForgotten'
  <2>1. ASSUME NEW d \in Ends
        PROVE  /\ outgoingMsgId'[d] - Len(outgoingUnackMsg'[d]) <= got[Peer(d)]
               /\ got[Peer(d)] <= outgoingMsgId'[d]
    <3>1. /\ outgoingMsgId[d] - Len(outgoingUnackMsg[d]) <= got[Peer(d)]
          /\ got[Peer(d)] <= outgoingMsgId[d] /\ got[Peer(d)] \in Nat
      BY PeerFacts DEF LineInv, NothingForgotten, ProtocolTypeOK
    <3>2. CASE d = e
      BY <3>1, <3>2, <1>1, <1>10, <1>11
    <3>3. CASE d # e
      BY <3>1, <3>3, <1>11
    <3>. QED BY <3>2, <3>3
  <2>. QED BY <2>1, <1>5, <1>12 DEF LineInv, NothingForgotten
<1>15. ProtocolTypeOK'
  BY <1>5, <1>6, <1>9, <1>11 DEF LineInv, ProtocolTypeOK, WireType, netVars, remoteVars
<1>16. NetGood'
  BY <1>5 DEF LineInv, NetGood, netVars
<1>. QED BY <1>9, <1>13, <1>14, <1>15, <1>16 DEF LineInv

(* What ReadMessage has come to.                                              *)
LEMMA ReadFacts ==
  ASSUME LineInv, NEW e \in Ends, ReadMessage(e)
  PROVE  \E h \in Nat, r \in Seq(Frames) :
           /\ got' = [got EXCEPT ![e] = h] /\ (h = got[e] \/ h = got[e] + 1)
           /\ h <= outgoingMsgId[Peer(e)]
           /\ outgoingUnackMsg' = [outgoingUnackMsg EXCEPT ![e] = r]
           /\ LastOf(r, got[e], outgoingMsgId[e])
           /\ Len(r) <= Len(outgoingUnackMsg[e])
           /\ outgoingMsgId[e] - Len(r) <= got[Peer(e)]
           /\ saturated' = [saturated EXCEPT ![e] = @ /\ Len(r) > Low]
           /\ incomingAckId' \in [Ends -> Nat] /\ incomingAckId'[e] <= h
           /\ \A d \in Ends : d # e => incomingAckId'[d] = incomingAckId[d]
           /\ wire' \in WireType /\ WiresGood(wire, socket, arriving, opened, broken, got, outgoingMsgId)'
<1>. DEFINE p == Peer(e)
            q == wire[socket[e]][p]
            frame == Head(q)
            u == outgoingUnackMsg[e]
            r == Unacked(u, frame.ack)
            h == IF IsRegular(frame) /\ frame.id > got[e] THEN frame.id ELSE got[e]
            w == [wire EXCEPT ![socket[e]][p] = Tail(q)]
<1>1. /\ got \in [Ends -> Nat] /\ incomingAckId \in [Ends -> Nat] /\ outgoingMsgId[e] \in Nat
      /\ u \in Seq(Frames) /\ got[e] \in Nat /\ got[p] \in Nat /\ Len(u) \in Nat
  BY TypeFacts, LenProperties DEF LineInv, ProtocolTypeOK
<1>2. q # <<>> /\ wire' = w
  BY DEF ReadMessage
<1>3. /\ w \in WireType
      /\ WiresGood(w, socket, arriving, opened, broken, [got EXCEPT ![e] = h], outgoingMsgId)
      /\ h \in Nat /\ got[e] <= h /\ h <= outgoingMsgId[p]
      /\ frame \in Frames /\ frame.ack <= got[p]
      /\ IsRegular(frame) => frame.id <= h
  BY <1>2, ReadKeeps
<1>4. frame.ack \in Nat /\ frame.id \in Nat
  BY <1>3 DEF Frames
<1>5. got' = [got EXCEPT ![e] = h]
  <2>1. CASE frame.type = "Regular"
    <3>1. got' = [got EXCEPT ![e] = IF frame.id > got[e] THEN frame.id ELSE got[e]]
      BY <2>1 DEF ReadMessage
    <3>. QED BY <2>1, <3>1 DEF IsRegular
  <2>2. CASE frame.type # "Regular"
    <3>1. got' = got /\ h = got[e]
      BY <2>2 DEF ReadMessage, IsRegular
    <3>. QED BY <3>1, <1>1
  <2>. QED BY <2>1, <2>2
<1>6. /\ incomingAckId' \in [Ends -> Nat] /\ incomingAckId'[e] <= h
      /\ \A d \in Ends : d # e => incomingAckId'[d] = incomingAckId[d]
  <2>1. CASE frame.type = "Regular"
    <3>1. incomingAckId' = [incomingAckId EXCEPT ![e] = frame.id]
      BY <2>1 DEF ReadMessage
    <3>2. frame.id <= h
      BY <2>1, <1>3 DEF IsRegular
    <3>. HIDE DEF h, frame
    <3>. QED BY <3>1, <3>2, <1>1, <1>4
  <2>2. CASE frame.type # "Regular"
    <3>1. incomingAckId' = incomingAckId
      BY <2>2 DEF ReadMessage
    <3>2. incomingAckId[e] <= got[e] /\ incomingAckId[e] \in Nat
      BY <1>1 DEF LineInv, NothingForgotten
    <3>. HIDE DEF h, frame
    <3>. QED BY <3>1, <3>2, <1>1, <1>3
  <2>. QED BY <2>1, <2>2
<1>7. /\ r \in Seq(Frames) /\ LastOf(r, got[e], outgoingMsgId[e])
      /\ Len(r) <= Len(u) /\ Len(r) \in Nat
      /\ Len(r) = Len(u) \/ outgoingMsgId[e] - Len(r) <= frame.ack
  <2>1. LastOf(u, got[e], outgoingMsgId[e])
    BY DEF LineInv, HeldGood
  <2>. HIDE DEF u, frame
  <2>. QED BY <2>1, <1>1, <1>4, HeldRest, LenProperties
<1>8. outgoingMsgId[e] - Len(r) <= got[p]
  <2>1. outgoingMsgId[e] - Len(u) <= got[p]
    BY DEF LineInv, NothingForgotten
  <2>. HIDE DEF r, u, p, frame
  <2>. QED BY <2>1, <1>1, <1>3, <1>4, <1>7
<1>9. /\ outgoingUnackMsg' = [outgoingUnackMsg EXCEPT ![e] = r]
      /\ saturated' = [saturated EXCEPT ![e] = @ /\ Len(r) > Low]
      /\ UNCHANGED <<socket, arriving, opened, broken, outgoingMsgId>>
  BY DEF ReadMessage, StaysSaturated, netVars
<1>10. h = got[e] \/ h = got[e] + 1
  <2>1. GapFree(q, got[e]) /\ Truthful(q, got[p], outgoingMsgId[p]) /\ q \in Seq(Frames)
    <3>1. /\ socket[e] \in Sockets /\ p \in Ends /\ Peer(p) = e /\ q \in Seq(Frames)
          /\ ReadsOf(socket, arriving, Peer(p), socket[e])
      BY TypeFacts, ReadsOwn DEF LineInv
    <3>. QED BY <3>1 DEF LineInv, WiresGood
  <2>2. outgoingMsgId[p] \in Nat
    BY TypeFacts DEF LineInv
  <2>3. h = IF IsRegular(Head(q)) /\ Head(q).id > got[e] THEN Head(q).id ELSE got[e]
    OBVIOUS
  <2>. HIDE DEF q, h, p
  <2>. QED BY <2>1, <2>2, <2>3, <1>1, <1>2, <1>3, ReadFront
<1>11. WiresGood(wire, socket, arriving, opened, broken, got, outgoingMsgId)'
  <2>. HIDE DEF w, h
  <2>. QED BY <1>2, <1>3, <1>5, <1>9, WiresStep
<1>12. wire' \in WireType
  BY <1>2, <1>3
<1>. HIDE DEF h, r, u, p
<1>. QED BY <1>3, <1>5, <1>6, <1>7, <1>8, <1>9, <1>10, <1>11, <1>12 DEF u, p

LEMMA ReadMessageKeeps ==
  ASSUME LineInv, NEW e \in Ends, ReadMessage(e)
  PROVE  LineInv'
<1>1. PICK h \in Nat, r \in Seq(Frames) :
           /\ got' = [got EXCEPT ![e] = h] /\ (h = got[e] \/ h = got[e] + 1)
           /\ h <= outgoingMsgId[Peer(e)]
           /\ outgoingUnackMsg' = [outgoingUnackMsg EXCEPT ![e] = r]
           /\ LastOf(r, got[e], outgoingMsgId[e])
           /\ Len(r) <= Len(outgoingUnackMsg[e])
           /\ outgoingMsgId[e] - Len(r) <= got[Peer(e)]
           /\ saturated' = [saturated EXCEPT ![e] = @ /\ Len(r) > Low]
           /\ incomingAckId' \in [Ends -> Nat] /\ incomingAckId'[e] <= h
           /\ \A d \in Ends : d # e => incomingAckId'[d] = incomingAckId[d]
           /\ wire' \in WireType /\ WiresGood(wire, socket, arriving, opened, broken, got, outgoingMsgId)'
  BY ReadFacts
<1>2. /\ got \in [Ends -> Nat] /\ outgoingUnackMsg \in [Ends -> Seq(Frames)]
      /\ Peer(e) \in Ends /\ Peer(e) # e /\ Peer(Peer(e)) = e
      /\ \A d \in Ends : outgoingMsgId[d] \in Nat
  BY PeerFacts DEF LineInv, ProtocolTypeOK
<1>3. /\ UNCHANGED <<netVars, outgoingMsgId, overflowed, remoteVars>>
      /\ closed' = closed \/ closed' = closed \cup {e}
  BY DEF ReadMessage
<1>4. /\ got' \in [Ends -> Nat] /\ got'[e] = h
      /\ outgoingUnackMsg' \in [Ends -> Seq(Frames)] /\ outgoingUnackMsg'[e] = r
      /\ \A d \in Ends : d # e => got'[d] = got[d] /\ outgoingUnackMsg'[d] = outgoingUnackMsg[d]
  BY <1>1, <1>2
<1>5. ProtocolTypeOK'
  <2>1. saturated' \in [Ends -> BOOLEAN]
    BY <1>1 DEF LineInv, ProtocolTypeOK
  <2>. QED BY <2>1, <1>1, <1>3, <1>4 DEF LineInv, ProtocolTypeOK, WireType, netVars, remoteVars
<1>6. HeldGood'
  <2>1. LastOf(r, h, outgoingMsgId[e])
    BY <1>1, <1>2, HeldMore
  <2>. QED BY <2>1, <1>3, <1>4 DEF LineInv, HeldGood
<1>7. NothingForgotten'
  <2>1. ASSUME NEW d \in Ends
        PROVE  /\ outgoingMsgId[d] - Len(outgoingUnackMsg'[d]) <= got'[Peer(d)]
               /\ got'[Peer(d)] <= outgoingMsgId[d]
               /\ incomingAckId'[d] <= got'[d]
    <3>1. /\ outgoingMsgId[d] - Len(outgoingUnackMsg[d]) <= got[Peer(d)]
          /\ got[Peer(d)] <= outgoingMsgId[d]
          /\ incomingAckId[d] <= got[d]
      BY DEF LineInv, NothingForgotten
    <3>2. CASE d = e
      BY <3>1, <3>2, <1>1, <1>2, <1>4
    <3>3. CASE d = Peer(e)
      <4>1. /\ outgoingUnackMsg'[d] = outgoingUnackMsg[d] /\ got'[Peer(d)] = h /\ got'[d] = got[d]
            /\ incomingAckId'[d] = incomingAckId[d] /\ Peer(d) = e
        BY <3>3, <1>1, <1>2, <1>4
      <4>2. outgoingMsgId[d] - Len(outgoingUnackMsg[d]) \in Int
        BY <1>2, LenProperties
      <4>. QED BY <3>1, <3>3, <4>1, <4>2, <1>1, <1>2
    <3>. QED BY <3>2, <3>3, EndsAre
  <2>. QED BY <2>1, <1>3 DEF NothingForgotten
<1>8. NetGood'
  BY <1>3 DEF LineInv, NetGood, netVars
<1>. QED BY <1>1, <1>5, <1>6, <1>7, <1>8 DEF LineInv

-----------------------------------------------------------------------------
(* The theorems.                                                             *)

LEMMA LineInitially ==
  ASSUME Init
  PROVE  LineInv
<1>1. ProtocolTypeOK
  <2>. DEFINE none == <<>>
              row == [e \in Ends |-> none]
  <2>1. none \in Seq(Frames)
    OBVIOUS
  <2>. HIDE DEF none
  <2>2. row \in [Ends -> Seq(Frames)]
    BY <2>1
  <2>3. wire = [n \in Sockets |-> row] /\ outgoingUnackMsg = row
    BY DEF Init, none
  <2>. HIDE DEF row
  <2>4. /\ wire \in [Sockets -> [Ends -> Seq(Frames)]]
        /\ outgoingUnackMsg \in [Ends -> Seq(Frames)]
    BY <2>2, <2>3
  <2>5. 1 \in Sockets
    BY ProtocolAssumption DEF Sockets
  <2>. QED BY <2>4, <2>5 DEF Init, ProtocolTypeOK
<1>2. WiresGood(wire, socket, arriving, opened, broken, got, outgoingMsgId)
  <2>1. ASSUME NEW n \in Sockets, NEW e \in Ends
        PROVE  /\ wire[n][e] = <<>> /\ outgoingMsgId[e] = 0 /\ got[Peer(e)] = 0
               /\ GapFree(<<>>, got[Peer(e)]) /\ Truthful(<<>>, got[e], outgoingMsgId[e])
    BY PeerFacts, NothingOnWire DEF Init
  <2>2. Reaches(<<>>, 0, 0)
    BY DEF Reaches
  <2>. QED BY <2>1, <2>2 DEF WiresGood
<1>3. HeldGood
  BY DEF Init, HeldGood, LastOf
<1>4. NothingForgotten
  BY PeerFacts DEF Init, NothingForgotten
<1>5. NetGood
  BY DEF Init, NetGood
<1>. QED BY <1>1, <1>2, <1>3, <1>4, <1>5 DEF LineInv

LEMMA LineStep ==
  ASSUME LineInv, [Next]_vars
  PROVE  LineInv'
<1>1. ASSUME NEW e \in Ends, Send(e) \/ KeepAlive(e) \/ ReadMessage(e) \/ GraceExceeded(e)
      PROVE  LineInv'
  BY <1>1, SendKeeps, KeepAliveKeeps, ReadMessageKeeps, GraceExceededKeeps
<1>2. ASSUME NEW n \in Sockets, Break(n) \/ ConnectFails(n) \/ ReconnectSucceeds(n)
      PROVE  LineInv'
  BY <1>2, BreakKeeps, ConnectFailsKeeps, ReconnectSucceedsKeeps
<1>3. CASE Accept \/ SocketClosed \/ AckTimeout \/ Connect \/ ReconnectGivesUp
  BY <1>3, AcceptKeeps, ReconnectingKeeps, ConnectKeeps
<1>4. CASE UNCHANGED vars
  BY <1>4 DEF LineInv, ProtocolTypeOK, NetGood, HeldGood, NothingForgotten, WiresGood, Fresh, ReadsOf,
      vars, netVars, flowVars, remoteVars
<1>. QED BY <1>1, <1>2, <1>3, <1>4 DEF Next

LEMMA LineInvariance == Spec => []LineInv
<1>1. Init => LineInv
  BY LineInitially
<1>2. LineInv /\ [Next]_vars => LineInv'
  BY LineStep
<1>. QED BY <1>1, <1>2, PTL DEF Spec

(* Every message is held until the peer has received it, however often the    *)
(* sockets break, are replaced and are written to again, for any number of    *)
(* messages, sockets and reconnections (processAck and replaceSocket).        *)
THEOREM Holding == Spec => []HeldUntilReceived
<1>1. LineInv => HeldUntilReceived
  BY DEF LineInv, HeldUntilReceived
<1>. QED BY <1>1, LineInvariance, PTL

LEMMA WaterMarksKept ==
  ASSUME LineInv, WaterMarksHold, [Next]_vars
  PROVE  WaterMarksHold'
<1>1. /\ saturated \in [Ends -> BOOLEAN] /\ overflowed \in [Ends -> BOOLEAN]
      /\ outgoingUnackMsg \in [Ends -> Seq(Frames)]
      /\ High \in Nat /\ Low \in Nat /\ Low <= High
      /\ \A e \in Ends : outgoingUnackMsg[e] \in Seq(Frames) /\ Len(outgoingUnackMsg[e]) \in Nat
  BY ProtocolAssumption, LenProperties DEF LineInv, ProtocolTypeOK
<1>2. ASSUME NEW e \in Ends, Send(e)
      PROVE  WaterMarksHold'
  <2>. DEFINE msg == [type |-> "Regular", id |-> outgoingMsgId[e] + 1, ack |-> incomingAckId[e]]
              u == outgoingUnackMsg[e]
  <2>1. /\ outgoingUnackMsg' = [outgoingUnackMsg EXCEPT ![e] = Append(u, msg)]
        /\ \/ /\ overflowed' = [overflowed EXCEPT ![e] = TRUE] /\ saturated' = saturated
           \/ /\ saturated' = [saturated EXCEPT ![e] = @ \/ Len(u) + 1 > High]
              /\ overflowed' = overflowed
    BY <1>2 DEF Send, AbandonSession
  <2>2. Len(Append(u, msg)) = Len(u) + 1
    BY <1>1
  <2>3. /\ Len(outgoingUnackMsg'[e]) = Len(u) + 1
        /\ \A d \in Ends : d # e => outgoingUnackMsg'[d] = outgoingUnackMsg[d]
    BY <1>1, <2>1, <2>2
  <2>4. ASSUME NEW d \in Ends
        PROVE  /\ saturated'[d] => Len(outgoingUnackMsg'[d]) > Low
               /\ ~saturated'[d] /\ ~overflowed'[d] => Len(outgoingUnackMsg'[d]) <= High
    <3>1. /\ saturated[d] => Len(outgoingUnackMsg[d]) > Low
          /\ ~saturated[d] /\ ~overflowed[d] => Len(outgoingUnackMsg[d]) <= High
      BY DEF WaterMarksHold
    <3>2. CASE d # e
      BY <3>1, <3>2, <1>1, <2>1, <2>3
    <3>3. CASE d = e /\ overflowed' = [overflowed EXCEPT ![e] = TRUE] /\ saturated' = saturated
      BY <3>1, <3>3, <1>1, <2>3
    <3>4. CASE /\ d = e /\ saturated' = [saturated EXCEPT ![e] = @ \/ Len(u) + 1 > High]
               /\ overflowed' = overflowed
      <4>1. saturated'[e] <=> saturated[e] \/ Len(u) + 1 > High
        BY <3>4, <1>1
      <4>. QED BY <3>1, <3>4, <4>1, <1>1, <2>3
    <3>. QED BY <3>2, <3>3, <3>4, <2>1
  <2>. QED BY <2>4 DEF WaterMarksHold
<1>3. ASSUME NEW e \in Ends, ReadMessage(e)
      PROVE  WaterMarksHold'
  <2>1. PICK r \in Seq(Frames) :
          /\ outgoingUnackMsg' = [outgoingUnackMsg EXCEPT ![e] = r]
          /\ Len(r) <= Len(outgoingUnackMsg[e])
          /\ saturated' = [saturated EXCEPT ![e] = @ /\ Len(r) > Low]
    BY <1>3, ReadFacts
  <2>2. overflowed' = overflowed /\ Len(r) \in Nat
    BY <1>3, LenProperties DEF ReadMessage
  <2>3. ASSUME NEW d \in Ends
        PROVE  /\ saturated'[d] => Len(outgoingUnackMsg'[d]) > Low
               /\ ~saturated'[d] /\ ~overflowed'[d] => Len(outgoingUnackMsg'[d]) <= High
    <3>1. /\ saturated[d] => Len(outgoingUnackMsg[d]) > Low
          /\ ~saturated[d] /\ ~overflowed[d] => Len(outgoingUnackMsg[d]) <= High
      BY DEF WaterMarksHold
    <3>2. CASE d # e
      BY <3>1, <3>2, <1>1, <2>1, <2>2
    <3>3. CASE d = e
      <4>1. (saturated'[e] <=> saturated[e] /\ Len(r) > Low) /\ outgoingUnackMsg'[e] = r
        BY <1>1, <2>1
      <4>. QED BY <3>1, <3>3, <4>1, <1>1, <2>1, <2>2
    <3>. QED BY <3>2, <3>3
  <2>. QED BY <2>3 DEF WaterMarksHold
<1>4. ASSUME NEW e \in Ends, GraceExceeded(e)
      PROVE  WaterMarksHold'
  BY <1>1, <1>4 DEF WaterMarksHold, GraceExceeded, AbandonSession
<1>5. CASE UNCHANGED <<outgoingUnackMsg, saturated, overflowed>>
  BY <1>5 DEF WaterMarksHold
<1>6. \A e \in Ends : KeepAlive(e) => UNCHANGED <<outgoingUnackMsg, saturated, overflowed>>
  BY DEF KeepAlive, flowVars
<1>7. \A n \in Sockets : Break(n) \/ ConnectFails(n) \/ ReconnectSucceeds(n)
        => UNCHANGED <<outgoingUnackMsg, saturated, overflowed>>
  BY DEF Break, ConnectFails, ReconnectSucceeds, ReplaceSocket, flowVars
<1>8. Accept \/ SocketClosed \/ AckTimeout \/ Connect \/ ReconnectGivesUp \/ UNCHANGED vars
        => UNCHANGED <<outgoingUnackMsg, saturated, overflowed>>
  BY DEF Accept, SocketClosed, AckTimeout, Connect, ReconnectGivesUp, ReplaceSocket, flowVars, vars
<1>. QED BY <1>2, <1>3, <1>4, <1>5, <1>6, <1>7, <1>8 DEF Next

LEMMA ReportedKept ==
  ASSUME LineInv, ReportedIsTrue, [Next]_vars
  PROVE  ReportedIsTrue'
<1>1. loops \in Nat
  BY DEF LineInv, ProtocolTypeOK
<1>2. CASE SocketClosed
  BY <1>1, <1>2 DEF ReportedIsTrue, SocketClosed, StartReconnect
<1>3. CASE AckTimeout
  BY <1>1, <1>3 DEF ReportedIsTrue, AckTimeout, StartReconnect
<1>4. ASSUME NEW n \in Sockets, ReconnectSucceeds(n) \/ ConnectFails(n)
      PROVE  ReportedIsTrue'
  BY <1>1, <1>4 DEF ReportedIsTrue, ReconnectSucceeds, ConnectFails
<1>5. CASE Connect
  <2>1. arriving' # {} /\ reported' = reported /\ noticed' = noticed
    BY <1>5 DEF Connect
  <2>. QED BY <2>1 DEF ReportedIsTrue
<1>6. CASE ReconnectGivesUp
  BY <1>6 DEF ReportedIsTrue, ReconnectGivesUp
<1>7. CASE UNCHANGED <<noticed, arriving, remoteVars>>
  BY <1>7 DEF ReportedIsTrue, remoteVars
<1>8. \A e \in Ends : Send(e) \/ KeepAlive(e) \/ ReadMessage(e) \/ GraceExceeded(e)
                       => UNCHANGED <<noticed, arriving, remoteVars>>
  BY DEF Send, KeepAlive, ReadMessage, GraceExceeded, netVars
<1>9. /\ \A n \in Sockets : Break(n) => UNCHANGED <<noticed, arriving, remoteVars>>
      /\ Accept => UNCHANGED <<noticed, arriving, remoteVars>>
  BY DEF Break, Accept
<1>10. UNCHANGED vars => UNCHANGED <<noticed, arriving, remoteVars>>
  BY DEF vars, netVars
<1>. QED BY <1>2, <1>3, <1>4, <1>5, <1>6, <1>7, <1>8, <1>9, <1>10 DEF Next

(* Flow control reports the side of the water marks that the held messages    *)
(* are on (onSaturated, onDrained), "connected" is not reported on a socket   *)
(* known to be gone, and "reconnecting" only while somebody tries             *)
(* (onDidStateChange), however many reconnections run and whichever ends      *)
(* first.  Of "disconnected" nothing is claimed.                              *)
THEOREM TrueCallbacks == Spec => []CallbacksAreTrue
<1>1. Init => WaterMarksHold /\ ReportedIsTrue
  BY ProtocolAssumption DEF Init, WaterMarksHold, ReportedIsTrue
<1>2. LineInv /\ WaterMarksHold /\ ReportedIsTrue /\ [Next]_vars => (WaterMarksHold /\ ReportedIsTrue)'
  BY WaterMarksKept, ReportedKept
<1>3. WaterMarksHold /\ ReportedIsTrue => CallbacksAreTrue
  BY DEF CallbacksAreTrue
<1>. QED BY <1>1, <1>2, <1>3, LineInvariance, PTL DEF Spec

-----------------------------------------------------------------------------
(* The two ends keep the promise of ReliableLine.                            *)

Held == [e \in Ends |-> outgoingMsgId[e] - Len(outgoingUnackMsg[e])]

LEMMA SendIsSend ==
  ASSUME LineInv, NEW e \in Ends, Send(e)
  PROVE  Abstract!Send(e)
<1>. DEFINE msg == [type |-> "Regular", id |-> outgoingMsgId[e] + 1, ack |-> incomingAckId[e]]
            u == outgoingUnackMsg[e]
<1>1. /\ outgoingMsgId \in [Ends -> Nat] /\ outgoingUnackMsg \in [Ends -> Seq(Frames)]
      /\ u \in Seq(Frames) /\ Len(u) \in Nat /\ outgoingMsgId[e] \in Nat
  BY LenProperties DEF LineInv, ProtocolTypeOK
<1>2. /\ outgoingMsgId' = [outgoingMsgId EXCEPT ![e] = outgoingMsgId[e] + 1]
      /\ outgoingUnackMsg' = [outgoingUnackMsg EXCEPT ![e] = Append(u, msg)]
      /\ got' = got
  BY DEF Send
<1>3. Len(Append(u, msg)) = Len(u) + 1
  BY <1>1
<1>. HIDE DEF msg
<1>4. ASSUME NEW d \in Ends
      PROVE  outgoingMsgId'[d] - Len(outgoingUnackMsg'[d]) = outgoingMsgId[d] - Len(outgoingUnackMsg[d])
  <2>1. CASE d = e
    <3>1. outgoingMsgId'[d] = outgoingMsgId[e] + 1 /\ outgoingUnackMsg'[d] = Append(u, msg)
      BY <2>1, <1>1, <1>2
    <3>. QED BY <2>1, <3>1, <1>1, <1>3
  <2>2. CASE d # e
    BY <2>2, <1>1, <1>2
  <2>. QED BY <2>1, <2>2
<1>5. Held' = Held
  BY <1>4 DEF Held
<1>. QED BY <1>2, <1>5 DEF Abstract!Send, Held

LEMMA ReadIsReceive ==
  ASSUME LineInv, NEW e \in Ends, ReadMessage(e)
  PROVE  Abstract!Receive(e, Peer(e))
<1>1. PICK h \in Nat, r \in Seq(Frames) :
         /\ got' = [got EXCEPT ![e] = h] /\ (h = got[e] \/ h = got[e] + 1)
         /\ h <= outgoingMsgId[Peer(e)]
         /\ outgoingUnackMsg' = [outgoingUnackMsg EXCEPT ![e] = r]
         /\ LastOf(r, got[e], outgoingMsgId[e])
         /\ Len(r) <= Len(outgoingUnackMsg[e])
         /\ outgoingMsgId[e] - Len(r) <= got[Peer(e)]
  BY ReadFacts
<1>. DEFINE k == outgoingMsgId[e] - Len(r)
<1>2. /\ outgoingUnackMsg \in [Ends -> Seq(Frames)] /\ got \in [Ends -> Nat]
      /\ \A d \in Ends : outgoingMsgId[d] \in Nat /\ got[d] \in Nat /\ outgoingUnackMsg[d] \in Seq(Frames)
      /\ Peer(e) \in Ends
  BY PeerFacts DEF LineInv, ProtocolTypeOK
<1>3. Len(r) \in Nat /\ \A d \in Ends : Len(outgoingUnackMsg[d]) \in Nat
  BY <1>2, LenProperties
<1>4. outgoingMsgId' = outgoingMsgId
  BY DEF ReadMessage
<1>5. got' = got \/ (got[e] < outgoingMsgId[Peer(e)] /\ got' = [got EXCEPT ![e] = got[e] + 1])
  <2>1. CASE h = got[e]
    BY <2>1, <1>1, <1>2
  <2>2. CASE h = got[e] + 1
    BY <2>2, <1>1, <1>2
  <2>. QED BY <2>1, <2>2, <1>1
<1>6. k \in Held[e]..got[Peer(e)]
  BY <1>1, <1>2, <1>3 DEF Held
<1>7. Held' = [Held EXCEPT ![e] = k]
  <2>1. ASSUME NEW d \in Ends
        PROVE  outgoingMsgId'[d] - Len(outgoingUnackMsg'[d]) = [Held EXCEPT ![e] = k][d]
    <3>1. CASE d = e
      BY <3>1, <1>1, <1>2, <1>4 DEF Held
    <3>2. CASE d # e
      BY <3>2, <1>1, <1>2, <1>4 DEF Held
    <3>. QED BY <3>1, <3>2
  <2>. QED BY <2>1 DEF Held
<1>. HIDE DEF k
<1>. QED BY <1>4, <1>5, <1>6, <1>7 DEF Abstract!Receive, Held

LEMMA OthersStutter ==
  ASSUME [Next]_vars, ~(\E e \in Ends : Send(e) \/ ReadMessage(e))
  PROVE  UNCHANGED <<outgoingMsgId, outgoingUnackMsg, got>>
<1>1. \A e \in Ends : KeepAlive(e) \/ GraceExceeded(e) => UNCHANGED <<outgoingMsgId, outgoingUnackMsg, got>>
  BY DEF KeepAlive, GraceExceeded
<1>2. \A n \in Sockets : Break(n) \/ ConnectFails(n) \/ ReconnectSucceeds(n)
        => UNCHANGED <<outgoingMsgId, outgoingUnackMsg, got>>
  BY DEF Break, ConnectFails, ReconnectSucceeds, ReplaceSocket
<1>3. Accept \/ SocketClosed \/ AckTimeout \/ Connect \/ ReconnectGivesUp \/ UNCHANGED vars
        => UNCHANGED <<outgoingMsgId, outgoingUnackMsg, got>>
  BY DEF Accept, SocketClosed, AckTimeout, Connect, ReconnectGivesUp, ReplaceSocket, vars
<1>. QED BY <1>1, <1>2, <1>3 DEF Next

(* However often sockets break and are replaced, and in whatever order, each  *)
(* end receives what the other has sent in its order and without a gap, and   *)
(* holds what has not arrived (readMessages, processAck and replaceSocket).   *)
(* A message may be received, and delivered, again.                           *)
THEOREM ReliableRefinement == Spec => ImplementsReliableLine
<1>1. Init => Abstract!LineInit
  <2>1. ASSUME Init
        PROVE  Held = [e \in Ends |-> 0]
    <3>1. \A e \in Ends : outgoingMsgId[e] - Len(outgoingUnackMsg[e]) = 0
      BY <2>1 DEF Init
    <3>. QED BY <3>1 DEF Held
  <2>. QED BY <2>1 DEF Init, Abstract!LineInit, Held
<1>2. LineInv /\ [Next]_vars => [Abstract!LineNext]_(Abstract!lineVars)
  <2>. SUFFICES ASSUME LineInv, [Next]_vars
                PROVE  [Abstract!LineNext]_(Abstract!lineVars)
    OBVIOUS
  <2>1. ASSUME NEW e \in Ends, Send(e)
        PROVE  Abstract!LineNext
    BY <2>1, SendIsSend DEF Abstract!LineNext
  <2>2. ASSUME NEW e \in Ends, ReadMessage(e)
        PROVE  Abstract!LineNext
    BY <2>2, ReadIsReceive, PeerFacts DEF Abstract!LineNext
  <2>3. CASE ~(\E e \in Ends : Send(e) \/ ReadMessage(e))
    BY <2>3, OthersStutter DEF Abstract!lineVars
  <2>. QED BY <2>1, <2>2, <2>3
<1>. QED BY <1>1, <1>2, LineInvariance, PTL DEF Spec, ImplementsReliableLine, Abstract!Line
===============================================================================
