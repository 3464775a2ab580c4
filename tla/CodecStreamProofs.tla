-------------------------- MODULE CodecStreamProofs --------------------------
(***************************************************************************)
(* Proofs for CodecStream: however many messages there are, whatever they  *)
(* hold and wherever the stream is cut.                                    *)
(*                                                                         *)
(* That the bytes on their way are the frames of the pending messages, one *)
(* after the other, is not said by a recursive definition but by where     *)
(* each frame ends (Framed), so that appending a frame and taking the      *)
(* first one away need no induction.                                       *)
(***************************************************************************)
EXTENDS CodecStream, BufferProofs

-----------------------------------------------------------------------------
(* Bytes that are frames, one after the other.                             *)

(* frames[m] is the frame of m; that of ms[i] ends at ends[i].             *)
Ends(ends, frames, bytes, ms) ==
  /\ ends \in [0..Len(ms) -> Nat] /\ ends[0] = 0 /\ ends[Len(ms)] = Len(bytes)
  /\ \A i, j \in 0..Len(ms) : i <= j => ends[i] <= ends[j]
  /\ \A i \in 1..Len(ms) :
       /\ ends[i] = ends[i - 1] + Len(frames[ms[i]])
       /\ \A k \in 1..Len(frames[ms[i]]) : bytes[ends[i - 1] + k] = frames[ms[i]][k]

Framed(frames, bytes, ms) == \E ends : Ends(ends, frames, bytes, ms)

(* No message, no bytes.                                                   *)
LEMMA FramedEmpty ==
  ASSUME NEW frames, NEW bytes \in Seq(Bytes)
  PROVE  Framed(frames, bytes, << >>) <=> bytes = << >>
<1>1. ASSUME bytes = << >> PROVE Framed(frames, bytes, << >>)
  <2>1. Ends([i \in 0..0 |-> 0], frames, bytes, << >>)
    BY <1>1 DEF Ends
  <2>2. QED BY <2>1, Zenon DEF Framed
<1>2. ASSUME Framed(frames, bytes, << >>) PROVE bytes = << >>
  <2>1. PICK ends : Ends(ends, frames, bytes, << >>)
    BY <1>2, Zenon DEF Framed
  <2>2. Len(bytes) = 0
    BY <2>1 DEF Ends
  <2>3. QED BY <2>2, EmptySeq
<1>3. QED BY <1>1, <1>2

(* A frame is appended.                                                    *)
LEMMA FramedAppend ==
  ASSUME NEW frames \in [Messages -> Seq(Bytes)], NEW bytes \in Seq(Bytes),
         NEW ms \in Seq(Messages), NEW m \in Messages, Framed(frames, bytes, ms)
  PROVE  Framed(frames, bytes \o frames[m], Append(ms, m))
<1> DEFINE f == frames[m]
           n == Len(ms)
           all == bytes \o f
           more == Append(ms, m)
<1>1. PICK ends : Ends(ends, frames, bytes, ms)
  BY Zenon DEF Framed
<1> DEFINE ends2 == [i \in 0..(n + 1) |->
                      IF i = n + 1 THEN Len(bytes) + Len(f) ELSE ends[i]]
<1>2. /\ n \in Nat /\ Len(bytes) \in Nat /\ Len(f) \in Nat /\ f \in Seq(Bytes)
      /\ Len(more) = n + 1 /\ more[n + 1] = m /\ \A i \in 1..n : more[i] = ms[i]
  BY AppendProperties, LenProperties
<1>3. /\ Len(all) = Len(bytes) + Len(f)
      /\ \A k \in 1..Len(bytes) : all[k] = bytes[k]
      /\ \A k \in 1..Len(f) : all[Len(bytes) + k] = f[k]
  BY <1>2, ConcatProperties
<1>4. /\ ends \in [0..n -> Nat] /\ ends[0] = 0 /\ ends[n] = Len(bytes)
      /\ \A i, j \in 0..n : i <= j => ends[i] <= ends[j]
  BY <1>1 DEF Ends
<1>b. \A i \in 1..n :
        /\ ends[i] = ends[i - 1] + Len(frames[ms[i]])
        /\ \A k \in 1..Len(frames[ms[i]]) :
             bytes[ends[i - 1] + k] = frames[ms[i]][k]
  BY <1>1 DEF Ends
<1>5. /\ ends2 \in [0..(n + 1) -> Nat] /\ ends2[n + 1] = Len(all)
      /\ \A i \in 0..n : ends2[i] = ends[i]
  BY <1>2, <1>3, <1>4
<1> HIDE DEF f, n, all, more, ends2
<1>6. \A i, j \in 0..(n + 1) : i <= j => ends2[i] <= ends2[j]
  <2> SUFFICES ASSUME NEW i \in 0..(n + 1), NEW j \in 0..(n + 1), i <= j
               PROVE  ends2[i] <= ends2[j]
    OBVIOUS
  <2>1. CASE j \in 0..n
    <3>1. i \in 0..n
      BY <1>2, <2>1
    <3>2. QED BY <1>4, <1>5, <2>1, <3>1
  <2>2. CASE j = n + 1 /\ i \in 0..n
    <3>1. n \in 0..n /\ i <= n
      BY <1>2, <2>2
    <3>2. ends[i] <= ends[n] /\ ends[i] \in Nat
      BY <1>4, <2>2, <3>1
    <3>3. QED BY <1>2, <1>3, <1>4, <1>5, <2>2, <3>2
  <2>3. CASE j = n + 1 /\ i = n + 1
    BY <1>2, <1>5, <2>3
  <2>4. QED BY <1>2, <2>1, <2>2, <2>3
<1>7. ASSUME NEW i \in 1..(n + 1)
      PROVE  /\ ends2[i] = ends2[i - 1] + Len(frames[more[i]])
             /\ \A k \in 1..Len(frames[more[i]]) :
                  all[ends2[i - 1] + k] = frames[more[i]][k]
  <2>1. CASE i \in 1..n
    <3>0. i \in 0..n /\ i - 1 \in 0..n /\ n \in 0..n /\ i <= n
      BY <1>2, <2>1
    <3>1. /\ more[i] = ms[i] /\ ends2[i] = ends[i] /\ ends2[i - 1] = ends[i - 1]
          /\ ends[i - 1] \in Nat /\ ends[i] \in Nat /\ ends[i] <= Len(bytes)
          /\ ends[i] = ends[i - 1] + Len(frames[ms[i]])
      BY <1>2, <1>4, <1>5, <1>b, <2>1, <3>0
    <3>2. ASSUME NEW k \in 1..Len(frames[ms[i]])
          PROVE  all[ends[i - 1] + k] = frames[ms[i]][k]
      <4>1. Len(frames[ms[i]]) \in Nat
        <5>1. ms[i] \in Messages
          BY <2>1, ElementOfSeq DEF n
        <5>2. QED BY <5>1, LenProperties
      <4> DEFINE x == ends[i - 1]
                 y == ends[i]
                 z == Len(frames[ms[i]])
      <4>2. x + k \in 1..Len(bytes)
        <5>1. /\ x \in Nat /\ z \in Nat /\ y = x + z /\ y <= Len(bytes)
              /\ k \in 1..z /\ Len(bytes) \in Nat
          BY <1>2, <3>1, <4>1
        <5> HIDE DEF x, y, z
        <5>2. QED BY <5>1
      <4>3. all[ends[i - 1] + k] = bytes[ends[i - 1] + k]
        BY <1>3, <4>2
      <4>4. QED BY <1>b, <2>1, <4>3
    <3>3. QED BY <3>1, <3>2
  <2>2. CASE i = n + 1
    <3>1. more[i] = m /\ ends2[i - 1] = Len(bytes) /\ ends2[i] = Len(bytes) + Len(f)
      BY <1>2, <1>3, <1>4, <1>5, <2>2
    <3>2. QED BY <1>3, <3>1 DEF f
  <2>3. QED BY <1>2, <2>1, <2>2
<1>8. Ends(ends2, frames, all, more)
  BY <1>2, <1>4, <1>5, <1>6, <1>7 DEF Ends, n
<1>9. QED BY <1>8, Zenon DEF Framed, all, more, f

(* The first frame is at the front, and behind it are the others.          *)
LEMMA FramedFirst ==
  ASSUME NEW frames \in [Messages -> Seq(Bytes)], NEW bytes \in Seq(Bytes),
         NEW ms \in Seq(Messages), ms # << >>, Framed(frames, bytes, ms)
  PROVE  LET f == frames[Head(ms)] IN
         /\ Len(f) <= Len(bytes) /\ \A k \in 1..Len(f) : bytes[k] = f[k]
         /\ Framed(frames, SubSeq(bytes, Len(f) + 1, Len(bytes)), Tail(ms))
<1> DEFINE f == frames[Head(ms)]
           n == Len(ms)
           rest == SubSeq(bytes, Len(f) + 1, Len(bytes))
           others == Tail(ms)
<1>1. PICK ends : Ends(ends, frames, bytes, ms)
  BY Zenon DEF Framed
<1> DEFINE ends2 == [i \in 0..(n - 1) |-> ends[i + 1] - Len(f)]
<1>2. /\ n \in Nat \ {0} /\ Head(ms) = ms[1] /\ Head(ms) \in Messages
      /\ others \in Seq(Messages) /\ Len(others) = n - 1
      /\ \A i \in 1..(n - 1) : others[i] = ms[i + 1]
  BY EmptySeq, HeadTailProperties, LenProperties
<1>3. f \in Seq(Bytes) /\ Len(f) \in Nat /\ Len(bytes) \in Nat
  BY <1>2, LenProperties
<1>4. /\ ends \in [0..n -> Nat] /\ ends[0] = 0 /\ ends[n] = Len(bytes)
      /\ \A i, j \in 0..n : i <= j => ends[i] <= ends[j]
  BY <1>1 DEF Ends
<1>b. \A i \in 1..n :
        /\ ends[i] = ends[i - 1] + Len(frames[ms[i]])
        /\ \A k \in 1..Len(frames[ms[i]]) :
             bytes[ends[i - 1] + k] = frames[ms[i]][k]
  BY <1>1 DEF Ends
<1>5. ends[1] = Len(f) /\ \A i \in 1..n : Len(f) <= ends[i]
  <2>1. ends[1] = Len(f)
    BY <1>2, <1>3, <1>4, <1>b
  <2>2. \A i \in 1..n : ends[1] <= ends[i]
    BY <1>2, <1>4
  <2>3. QED BY <2>1, <2>2
<1>6. Len(f) <= Len(bytes) /\ \A k \in 1..Len(f) : bytes[k] = f[k]
  <2>1. Len(f) <= Len(bytes)
    BY <1>2, <1>4, <1>5
  <2>2. \A k \in 1..Len(f) : bytes[ends[0] + k] = f[k]
    BY <1>2, <1>b
  <2>3. QED BY <1>3, <1>4, <2>1, <2>2
<1>7. /\ Len(rest) = Len(bytes) - Len(f)
      /\ \A k \in 1..(Len(bytes) - Len(f)) : rest[k] = bytes[Len(f) + k]
  <2>1. \A k \in Len(f) + 1 .. Len(bytes) : bytes[k] \in Bytes
    BY <1>3, ElementOfSeq
  <2>2. /\ Len(rest) = IF Len(f) + 1 <= Len(bytes)
                        THEN Len(bytes) - (Len(f) + 1) + 1 ELSE 0
        /\ \A k \in 1..Len(bytes) - (Len(f) + 1) + 1 :
             rest[k] = bytes[(Len(f) + 1) + k - 1]
    <3>1. Len(f) + 1 \in Int /\ Len(bytes) \in Int
      BY <1>3
    <3> HIDE DEF f
    <3>2. QED BY <2>1, <3>1, SubSeqProperties
  <2> HIDE DEF rest, f
  <2>3. QED BY <1>3, <1>6, <2>2
<1>8. /\ ends2 \in [0..(n - 1) -> Nat]
      /\ \A i \in 0..(n - 1) : ends2[i] = ends[i + 1] - Len(f)
  BY <1>2, <1>3, <1>4, <1>5
<1> HIDE DEF f, n, rest, others, ends2
<1>9. \A i, j \in 0..(n - 1) : i <= j => ends2[i] <= ends2[j]
  <2> SUFFICES ASSUME NEW i \in 0..(n - 1), NEW j \in 0..(n - 1), i <= j
               PROVE  ends2[i] <= ends2[j]
    OBVIOUS
  <2>1. i + 1 \in 0..n /\ j + 1 \in 0..n /\ i + 1 <= j + 1
    BY <1>2
  <2>2. ends[i + 1] <= ends[j + 1] /\ ends[i + 1] \in Nat /\ ends[j + 1] \in Nat
    BY <1>4, <2>1
  <2>3. QED BY <1>3, <1>8, <2>2
<1>10. ASSUME NEW i \in 1..(n - 1)
       PROVE  /\ ends2[i] = ends2[i - 1] + Len(frames[others[i]])
              /\ \A k \in 1..Len(frames[others[i]]) :
                   rest[ends2[i - 1] + k] = frames[others[i]][k]
  <2>1. /\ i + 1 \in 1..n /\ i \in 1..n /\ (i + 1) - 1 = i /\ i - 1 \in 0..(n - 1)
        /\ (i - 1) + 1 = i /\ others[i] = ms[i + 1] /\ i \in 0..(n - 1)
    BY <1>2
  <2>2. ends[i + 1] = ends[i] + Len(frames[others[i]])
    BY <1>b, <2>1
  <2>b. \A k \in 1..Len(frames[others[i]]) :
          bytes[ends[i] + k] = frames[others[i]][k]
    BY <1>b, <2>1
  <2>3. /\ ends2[i] = ends[i + 1] - Len(f) /\ ends2[i - 1] = ends[i] - Len(f)
        /\ ends[i] \in Nat /\ ends[i + 1] \in Nat /\ Len(f) <= ends[i]
        /\ ends[i + 1] <= Len(bytes)
    <3>1. n \in 0..n /\ i + 1 \in 0..n /\ i + 1 <= n
      BY <1>2
    <3>2. ends[i + 1] <= Len(bytes)
      BY <1>4, <3>1
    <3>3. QED BY <1>2, <1>4, <1>5, <1>8, <2>1, <3>2
  <2>4. Len(frames[others[i]]) \in Nat
    BY <1>2, ElementOfSeq, LenProperties
  <2>5. ASSUME NEW k \in 1..Len(frames[others[i]])
        PROVE  rest[ends2[i - 1] + k] = frames[others[i]][k]
    <3> DEFINE e == ends[i]
               l == Len(f)
               g == ends2[i - 1]
               z == Len(frames[others[i]])
    <3>1. k \in Nat /\ 1 <= k /\ ends[i] + k <= ends[i + 1]
      <4>1. z \in Nat /\ e \in Nat /\ ends[i + 1] = e + z /\ k \in 1..z
        BY <2>2, <2>3, <2>4
      <4> HIDE DEF z
      <4>2. QED BY <4>1
    <3>2. /\ g = e - l /\ e \in Nat /\ l \in Nat /\ l <= e
          /\ e + k <= Len(bytes) /\ Len(bytes) \in Nat /\ k \in Nat /\ 1 <= k
      <4>1. /\ ends[i + 1] \in Nat /\ ends[i + 1] <= Len(bytes)
            /\ Len(bytes) \in Nat /\ e \in Nat
        BY <1>3, <2>3
      <4>2. e + k <= Len(bytes)
        BY <3>1, <4>1
      <4>3. QED BY <1>3, <2>3, <3>1, <4>1, <4>2
    <3>3. g + k \in 1..(Len(bytes) - l) /\ l + (g + k) = e + k
      <4> HIDE DEF e, l, g
      <4>1. QED BY <3>2
    <3>4. QED BY <1>7, <2>b, <3>3
  <2>6. ends2[i] = ends2[i - 1] + Len(frames[others[i]])
    <3> DEFINE e == ends[i]
               l == Len(f)
               z == Len(frames[others[i]])
    <3>1. /\ ends2[i] = (e + z) - l /\ ends2[i - 1] = e - l
          /\ e \in Nat /\ l \in Nat /\ z \in Nat
      BY <1>3, <2>2, <2>3, <2>4
    <3> HIDE DEF e, l, z
    <3>2. QED BY <3>1 DEF z
  <2>7. QED BY <2>5, <2>6
<1>11. ends2[0] = 0 /\ ends2[n - 1] = Len(rest)
  <2>1. 0 \in 0..(n - 1) /\ n - 1 \in 0..(n - 1) /\ (n - 1) + 1 = n /\ 0 + 1 = 1
    BY <1>2
  <2>2. ends2[0] = ends[1] - Len(f) /\ ends2[n - 1] = ends[n] - Len(f)
    BY <1>8, <2>1
  <2>3. QED BY <1>3, <1>4, <1>5, <1>7, <2>2
<1>12. Ends(ends2, frames, rest, others)
  BY <1>2, <1>8, <1>9, <1>10, <1>11 DEF Ends
<1>13. Framed(frames, rest, others)
  BY <1>12, Zenon DEF Framed
<1>14. QED BY <1>6, <1>13 DEF f, rest, others

-----------------------------------------------------------------------------
(* Taking from the front of a sequence.                                    *)

(* What is left when the first n elements are gone.                        *)
LEMMA Dropped ==
  ASSUME NEW S, NEW s \in Seq(S), NEW n \in 0..Len(s)
  PROVE  LET d == SubSeq(s, n + 1, Len(s)) IN
         /\ d \in Seq(S) /\ Len(d) = Len(s) - n
         /\ \A i \in 1..(Len(s) - n) : d[i] = s[n + i]
<1> DEFINE d == SubSeq(s, n + 1, Len(s))
<1>1. Len(s) \in Nat /\ n \in Nat /\ n <= Len(s)
  BY LenProperties
<1>2. \A i \in n + 1 .. Len(s) : s[i] \in S
  BY <1>1, ElementOfSeq
<1>3. n + 1 \in Int /\ Len(s) \in Int
  BY <1>1
<1>4. /\ d \in Seq(S) /\ Len(d) = IF n + 1 <= Len(s) THEN Len(s) - (n + 1) + 1 ELSE 0
      /\ \A i \in 1..Len(s) - (n + 1) + 1 : d[i] = s[(n + 1) + i - 1]
  BY <1>2, <1>3, SubSeqProperties
<1> HIDE DEF d
<1>5. d \in Seq(S) /\ Len(d) = Len(s) - n
  BY <1>1, <1>4
<1>6. ASSUME NEW i \in 1..(Len(s) - n) PROVE d[i] = s[n + i]
  <2>1. i \in 1..Len(s) - (n + 1) + 1 /\ (n + 1) + i - 1 = n + i
    BY <1>1
  <2>2. QED BY <1>4, <2>1
<1>7. QED BY <1>5, <1>6 DEF d

(* Taking twice is taking once.                                            *)
LEMMA DroppedTwice ==
  ASSUME NEW S, NEW s \in Seq(S), NEW i \in Nat, NEW j \in Nat, i + j <= Len(s)
  PROVE  SubSeq(SubSeq(s, i + 1, Len(s)), j + 1, Len(s) - i)
           = SubSeq(s, (i + j) + 1, Len(s))
<1> DEFINE d == SubSeq(s, i + 1, Len(s))
           e == SubSeq(d, j + 1, Len(d))
           g == SubSeq(s, (i + j) + 1, Len(s))
           k == i + j
<1>1. Len(s) \in Nat /\ i \in 0..Len(s) /\ k \in 0..Len(s)
  BY LenProperties
<1>2. /\ d \in Seq(S) /\ Len(d) = Len(s) - i
      /\ \A a \in 1..(Len(s) - i) : d[a] = s[i + a]
  BY <1>1, Dropped
<1>3. /\ g \in Seq(S) /\ Len(g) = Len(s) - k
      /\ \A a \in 1..(Len(s) - k) : g[a] = s[k + a]
  <2> HIDE DEF k
  <2>1. /\ SubSeq(s, k + 1, Len(s)) \in Seq(S)
        /\ Len(SubSeq(s, k + 1, Len(s))) = Len(s) - k
        /\ \A a \in 1..(Len(s) - k) : SubSeq(s, k + 1, Len(s))[a] = s[k + a]
    BY <1>1, Dropped
  <2>2. QED BY <2>1 DEF k
<1> HIDE DEF d, g
<1>4. j \in 0..Len(d)
  BY <1>1, <1>2
<1>5. /\ e \in Seq(S) /\ Len(e) = Len(d) - j
      /\ \A a \in 1..(Len(d) - j) : e[a] = d[j + a]
  BY <1>2, <1>4, Dropped
<1> HIDE DEF e
<1>6. Len(e) = Len(g)
  BY <1>1, <1>2, <1>3, <1>5
<1>7. ASSUME NEW a \in 1..Len(e) PROVE e[a] = g[a]
  <2>1. /\ a \in 1..(Len(d) - j) /\ j + a \in 1..(Len(s) - i)
        /\ a \in 1..(Len(s) - k) /\ i + (j + a) = k + a
    BY <1>1, <1>2, <1>5
  <2>2. QED BY <1>2, <1>3, <1>5, <2>1
<1>8. e = g
  BY <1>3, <1>5, <1>6, <1>7, SeqEqual
<1>9. QED BY <1>2, <1>8 DEF d, e, g

(* What is behind the front of a string stays in front of what follows.    *)
LEMMA DroppedConcat ==
  ASSUME NEW S, NEW s \in Seq(S), NEW t \in Seq(S), NEW n \in 0..Len(s)
  PROVE  SubSeq(s \o t, n + 1, Len(s \o t)) = SubSeq(s, n + 1, Len(s)) \o t
<1> DEFINE st == s \o t
           d == SubSeq(s, n + 1, Len(s))
           e == SubSeq(st, n + 1, Len(st))
           g == d \o t
<1>1. Len(s) \in Nat /\ Len(t) \in Nat /\ n \in Nat /\ n <= Len(s)
  BY LenProperties
<1>2. /\ st \in Seq(S) /\ Len(st) = Len(s) + Len(t)
      /\ \A i \in 1..Len(s) + Len(t) :
           st[i] = IF i <= Len(s) THEN s[i] ELSE t[i - Len(s)]
  BY ConcatProperties
<1>3. /\ d \in Seq(S) /\ Len(d) = Len(s) - n
      /\ \A i \in 1..(Len(s) - n) : d[i] = s[n + i]
  BY Dropped
<1> HIDE DEF st, d
<1>4. /\ e \in Seq(S) /\ Len(e) = Len(st) - n
      /\ \A i \in 1..(Len(st) - n) : e[i] = st[n + i]
  <2>1. n \in 0..Len(st)
    BY <1>1, <1>2
  <2>2. QED BY <1>2, <2>1, Dropped
<1>5. /\ g \in Seq(S) /\ Len(g) = Len(d) + Len(t)
      /\ \A i \in 1..Len(d) + Len(t) :
           g[i] = IF i <= Len(d) THEN d[i] ELSE t[i - Len(d)]
  BY <1>3, ConcatProperties
<1> HIDE DEF e, g
<1>6. Len(e) = Len(g)
  BY <1>1, <1>2, <1>3, <1>4, <1>5
<1>7. ASSUME NEW i \in 1..Len(e) PROVE e[i] = g[i]
  <2>1. /\ i \in 1..(Len(st) - n) /\ n + i \in 1..Len(s) + Len(t)
        /\ i \in 1..Len(d) + Len(t)
    BY <1>1, <1>2, <1>3, <1>4
  <2>2. CASE i <= Len(d)
    <3>1. i \in 1..(Len(s) - n) /\ n + i <= Len(s)
      BY <1>1, <1>3, <2>1, <2>2
    <3>2. QED BY <1>2, <1>3, <1>4, <1>5, <2>1, <2>2, <3>1
  <2>3. CASE ~ (i <= Len(d))
    <3>1. ~ (n + i <= Len(s)) /\ (n + i) - Len(s) = i - Len(d)
      BY <1>1, <1>3, <2>1, <2>3
    <3>2. QED BY <1>2, <1>4, <1>5, <2>1, <2>3, <3>1
  <2>4. QED BY <2>2, <2>3
<1>8. e = g
  BY <1>4, <1>5, <1>6, <1>7, SeqEqual
<1>9. QED BY <1>8 DEF e, g, st, d

(* One is appended behind those that are left.                             *)
LEMMA DroppedAppend ==
  ASSUME NEW S, NEW s \in Seq(S), NEW x \in S, NEW n \in 0..Len(s)
  PROVE  SubSeq(Append(s, x), n + 1, Len(Append(s, x)))
           = Append(SubSeq(s, n + 1, Len(s)), x)
<1>1. <<x>> \in Seq(S) /\ Append(s, x) = s \o <<x>>
  BY AppendIsConcat
<1>2. SubSeq(s, n + 1, Len(s)) \in Seq(S)
  BY Dropped
<1>3. Append(SubSeq(s, n + 1, Len(s)), x) = SubSeq(s, n + 1, Len(s)) \o <<x>>
  BY <1>2, AppendIsConcat
<1>4. SubSeq(s \o <<x>>, n + 1, Len(s \o <<x>>)) = SubSeq(s, n + 1, Len(s)) \o <<x>>
  BY <1>1, DroppedConcat
<1>5. QED BY <1>1, <1>3, <1>4

-----------------------------------------------------------------------------
(* Buffers.                                                                *)

(* retrieve() takes as many bytes as it is told to, all of them included.  *)
LEMMA RetrievedProperties ==
  ASSUME NEW b, IsBuffer(b), PREPEND <= Len(b.mem),
         NEW n \in Nat, n <= Readable(b)
  PROVE  /\ IsBuffer(Retrieved(b, n))
         /\ Content(Retrieved(b, n)) = SubSeq(Content(b), n + 1, Readable(b))
         /\ Readable(Retrieved(b, n)) = Readable(b) - n
         /\ Retrieved(b, n).mem = b.mem
<1>1. Readable(b) \in Nat
  BY BufferNumbers
<1>2. CASE n < Readable(b)
  BY <1>2, AdvancedProperties
<1>3. CASE n = Readable(b)
  <2>1. Retrieved(b, n) = Cleared(b)
    BY <1>1, <1>3 DEF Retrieved
  <2>2. SubSeq(Content(b), n + 1, Readable(b)) = << >>
    <3>1. n + 1 \in Int /\ Readable(b) \in Int /\ Readable(b) < n + 1
      BY <1>1, <1>3
    <3>2. QED BY <3>1, SubSeqEmpty
  <2>3. /\ IsBuffer(Cleared(b)) /\ Content(Cleared(b)) = << >>
        /\ Cleared(b).mem = b.mem /\ Readable(Cleared(b)) = 0
    BY ClearedProperties
  <2>4. Readable(b) - n = 0
    BY <1>1, <1>3
  <2>5. QED BY <2>1, <2>2, <2>3, <2>4
<1>4. QED BY <1>1, <1>2, <1>3

(* append() to a buffer.                                                   *)
LEMMA AppendedProperties ==
  ASSUME NEW b, IsBuffer(b), NEW data \in Seq(Bytes)
  PROVE  /\ IsBuffer(Appended(b, data))
         /\ Content(Appended(b, data)) = Content(b) \o data
         /\ b.reader = PREPEND => Appended(b, data).reader = PREPEND
<1> DEFINE e == EnsureWritable(b, Len(data))
<1>1. Len(data) \in Nat
  BY LenProperties
<1>2. /\ IsBuffer(e) /\ Content(e) = Content(b) /\ Writable(e) >= Len(data)
      /\ e.reader = b.reader \/ (b.reader > PREPEND /\ e.reader = PREPEND)
  BY <1>1, EnsureProperties
<1>3. Len(data) <= Writable(e)
  <2>1. Writable(e) \in Nat
    BY <1>2, BufferNumbers
  <2>2. QED BY <1>1, <1>2, <2>1
<1>4. e.reader = PREPEND \/ b.reader # PREPEND
  BY <1>2, SizesAssumption
<1>5. Appended(b, data) = Filled(e, data)
  BY DEF Appended
<1> HIDE DEF e
<1>6. /\ IsBuffer(Filled(e, data))
      /\ Content(Filled(e, data)) = Content(e) \o data
      /\ Filled(e, data).reader = e.reader
  BY <1>2, <1>3, FilledProperties
<1>7. QED BY <1>2, <1>4, <1>5, <1>6

-----------------------------------------------------------------------------
(* What a codec does with the front of a stream.                           *)

(* The bytes begin with the whole frame; they are only a part of it.       *)
Begins(bytes, frame) ==
  /\ Len(frame) <= Len(bytes)
  /\ \A k \in 1..Len(frame) : bytes[k] = frame[k]

IsPart(bytes, frame) ==
  /\ Len(bytes) < Len(frame)
  /\ \A k \in 1..Len(bytes) : bytes[k] = frame[k]

(* decode() has taken the n bytes of a frame; it has left the buffer alone.*)
Took(result, b, n) ==
  /\ result.ok
  /\ IsBuffer(result.buf) /\ Len(result.buf.mem) = Len(b.mem)
  /\ Content(result.buf) = SubSeq(Content(b), n + 1, Readable(b))

Waits(result, b) == ~ result.ok /\ result.buf = b

(* A length that fits its width is kept.                                   *)
LEMMA SmallMod ==
  ASSUME NEW w \in Nat \ {0}, NEW x \in Nat, x < w
  PROVE  x % w = x
OBVIOUS

(* What a message is made of.                                              *)
LEMMA MessageCells ==
  ASSUME NEW m \in Messages
  PROVE  /\ m = [meta |-> m.meta, body |-> m.body]
         /\ m.meta \in Bytes /\ m.body \in Seq(Bytes) /\ Len(m.body) \in Nat
         /\ m.body = << >> <=> Len(m.body) = 0
         /\ Len(m.body) \in Bytes /\ Len(m.body) + 1 \in Bytes
         /\ Len(m.body) + HEADER_LEN < RPC_WORD /\ Len(m.body) + 1 < MODBUS_WORD
         /\ m.meta # CRLFCRLF /\ Len(m.body) # CRLFCRLF
<1>1. m.meta \in Metas /\ m.body \in Bodies /\ m = [meta |-> m.meta, body |-> m.body]
  BY DEF Messages
<1>2. m.meta \in Bytes /\ m.body \in Seq(Bytes)
  BY <1>1, MessagesAssumption
<1>3. Len(m.body) \in Nat /\ (m.body = << >> <=> Len(m.body) = 0)
  BY <1>2, LenProperties, EmptySeq
<1>4. Len(m.body) \in Bytes /\ Len(m.body) + 1 \in Bytes
  BY <1>1, CellsAssumption
<1>5. Len(m.body) + HEADER_LEN < RPC_WORD /\ Len(m.body) + 1 < MODBUS_WORD
  BY <1>1, WidthAssumption
<1>6. m.meta # CRLFCRLF /\ Len(m.body) # CRLFCRLF
  BY <1>1, HeadersAssumption
<1>7. QED BY <1>1, <1>2, <1>3, <1>4, <1>5, <1>6

(* A string in the buffer equals one in the frame.                         *)
LEMMA SameString ==
  ASSUME NEW c \in Seq(Bytes), NEW s \in Seq(Bytes), NEW n \in Nat,
         n + Len(s) <= Len(c), \A i \in 1..Len(s) : c[n + i] = s[i]
  PROVE  SubSeq(c, n + 1, n + Len(s)) = s
<1> DEFINE t == SubSeq(c, n + 1, n + Len(s))
           l == n + Len(s)
<1>1. Len(c) \in Nat /\ Len(s) \in Nat
  BY LenProperties
<1>2. \A i \in n + 1 .. l : c[i] \in Bytes
  BY <1>1, ElementOfSeq
<1>3. n + 1 \in Int /\ l \in Int
  BY <1>1
<1>4. /\ t \in Seq(Bytes) /\ Len(t) = IF n + 1 <= l THEN l - (n + 1) + 1 ELSE 0
      /\ \A i \in 1..l - (n + 1) + 1 : t[i] = c[(n + 1) + i - 1]
  <2> HIDE DEF l
  <2>1. /\ SubSeq(c, n + 1, l) \in Seq(Bytes)
        /\ Len(SubSeq(c, n + 1, l)) = IF n + 1 <= l THEN l - (n + 1) + 1 ELSE 0
        /\ \A i \in 1..l - (n + 1) + 1 : SubSeq(c, n + 1, l)[i] = c[(n + 1) + i - 1]
    BY <1>2, <1>3, SubSeqProperties
  <2>2. QED BY <2>1 DEF l
<1> HIDE DEF t
<1>5. Len(t) = Len(s)
  BY <1>1, <1>4
<1>6. ASSUME NEW i \in 1..Len(t) PROVE t[i] = s[i]
  <2>1. i \in 1..l - (n + 1) + 1 /\ (n + 1) + i - 1 = n + i /\ i \in 1..Len(s)
    BY <1>1, <1>5
  <2>2. QED BY <1>4, <2>1
<1>7. t = s
  BY <1>4, <1>5, <1>6, SeqEqual
<1>8. QED BY <1>7 DEF t

-----------------------------------------------------------------------------
(* RpcCodec.                                                               *)

RpcFrame(m) == RpcHeader(m) \o m.body

(* What a header holds.                                                    *)
LEMMA RpcHeaderCells ==
  ASSUME NEW m \in Messages
  PROVE  /\ RpcHeader(m) \in Seq(Bytes) /\ Len(RpcHeader(m)) = HEADER_LEN
         /\ RpcHeader(m)[1] = Magic /\ RpcHeader(m)[2] = m.meta
         /\ RpcHeader(m)[HEADER_LEN] = Len(m.body)
<1> DEFINE h == RpcHeader(m)
<1>1. HEADER_LEN \in Nat /\ HEADER_LEN >= 3
  BY RpcHeaderAssumption
<1>2. Len(m.body) % RPC_WORD = Len(m.body)
  <2>1. Len(m.body) < RPC_WORD
    BY <1>1, MessageCells, RpcHeaderAssumption
  <2>2. QED BY <2>1, MessageCells, RpcHeaderAssumption, SmallMod
<1>3. \A i \in 1..HEADER_LEN :
        h[i] = CASE i = 1 -> Magic
                 [] i = HEADER_LEN -> Len(m.body)
                 [] OTHER -> m.meta
  BY <1>2 DEF RpcHeader
<1>4. h \in [1..HEADER_LEN -> Bytes]
  BY <1>2, MessageCells, RpcHeaderAssumption DEF RpcHeader
<1>5. h[1] = Magic /\ h[2] = m.meta /\ h[HEADER_LEN] = Len(m.body)
  BY <1>1, <1>3
<1> HIDE DEF h
<1>6. h \in Seq(Bytes) /\ Len(h) = HEADER_LEN
  BY <1>1, <1>4, FunctionIsSeq
<1>7. QED BY <1>5, <1>6 DEF h

(* What a frame holds, and where.                                          *)
LEMMA RpcFrameCells ==
  ASSUME NEW m \in Messages
  PROVE  LET f == RpcFrame(m) IN
         /\ f \in Seq(Bytes) /\ Len(f) = HEADER_LEN + Len(m.body)
         /\ f[1] = Magic /\ f[2] = m.meta /\ f[HEADER_LEN] = Len(m.body)
         /\ \A i \in 1..Len(m.body) : f[HEADER_LEN + i] = m.body[i]
<1> DEFINE h == RpcHeader(m)
           f == h \o m.body
<1>1. HEADER_LEN \in Nat /\ HEADER_LEN >= 3
  BY RpcHeaderAssumption
<1>2. /\ h \in Seq(Bytes) /\ Len(h) = HEADER_LEN /\ h[1] = Magic /\ h[2] = m.meta
      /\ h[HEADER_LEN] = Len(m.body)
  BY RpcHeaderCells
<1>3. m.body \in Seq(Bytes) /\ Len(m.body) \in Nat
  BY MessageCells
<1> HIDE DEF h
<1>4. /\ f \in Seq(Bytes) /\ Len(f) = HEADER_LEN + Len(m.body)
      /\ \A i \in 1..HEADER_LEN + Len(m.body) :
           f[i] = IF i <= HEADER_LEN THEN h[i] ELSE m.body[i - HEADER_LEN]
  <2>1. /\ f \in Seq(Bytes) /\ Len(f) = Len(h) + Len(m.body)
        /\ \A i \in 1..Len(h) + Len(m.body) :
             f[i] = IF i <= Len(h) THEN h[i] ELSE m.body[i - Len(h)]
    BY <1>2, <1>3, ConcatProperties
  <2>2. QED BY <1>2, <2>1
<1> HIDE DEF f
<1>5. f[1] = Magic /\ f[2] = m.meta /\ f[HEADER_LEN] = Len(m.body)
  BY <1>1, <1>2, <1>3, <1>4
<1>6. ASSUME NEW i \in 1..Len(m.body) PROVE f[HEADER_LEN + i] = m.body[i]
  <2>1. /\ HEADER_LEN + i \in 1..HEADER_LEN + Len(m.body)
        /\ (HEADER_LEN + i) - HEADER_LEN = i /\ ~ (HEADER_LEN + i <= HEADER_LEN)
    BY <1>1, <1>3
  <2>2. QED BY <1>4, <2>1
<1>7. QED BY <1>4, <1>5, <1>6 DEF f, h, RpcFrame

(* encode() writes the frame, behind or in front of which is nothing.      *)
LEMMA RpcEncodes ==
  ASSUME NEW m \in Messages
  PROVE  Content(RpcEncode(m, New)) = RpcFrame(m)
<1> DEFINE b == IF m.body = << >> THEN New ELSE Appended(New, m.body)
<1>1. m.body \in Seq(Bytes)
  BY MessageCells
<1>2. IsBuffer(b) /\ Content(b) = m.body /\ b.reader = PREPEND
  <2>1. CASE m.body = << >>
    BY <2>1, NewProperties
  <2>2. CASE m.body # << >>
    <3>1. /\ IsBuffer(Appended(New, m.body))
          /\ Content(Appended(New, m.body)) = << >> \o m.body
          /\ Appended(New, m.body).reader = PREPEND
      BY <1>1, NewProperties, AppendedProperties
    <3>2. << >> \o m.body = m.body
      BY <1>1, ConcatEmptySeq
    <3>3. QED BY <2>2, <3>1, <3>2
  <2>3. QED BY <2>1, <2>2
<1>3. RpcEncode(m, New) = Prepended(b, RpcHeader(m))
  BY DEF RpcEncode
<1>4. RpcHeader(m) \in Seq(Bytes) /\ Len(RpcHeader(m)) <= PREPEND
  BY RpcHeaderCells, RpcHeaderAssumption
<1> HIDE DEF b
<1>5. Content(Prepended(b, RpcHeader(m))) = RpcHeader(m) \o Content(b)
  BY <1>2, <1>4, PrependedProperties
<1>6. QED BY <1>2, <1>3, <1>5 DEF RpcFrame

(* For the lengths that occur the test for a half packet does not wrap.    *)
LEMMA WholeTest ==
  ASSUME NEW b, NEW l \in Nat, l + HEADER_LEN < RPC_WORD
  PROVE  Whole(b, l) <=> Readable(b) >= l + HEADER_LEN
<1> DEFINE x == l + HEADER_LEN
<1>1. x \in Nat /\ x < RPC_WORD /\ RPC_WORD \in Nat \ {0}
  BY RpcHeaderAssumption
<1> HIDE DEF x
<1>2. x % RPC_WORD = x
  BY <1>1, SmallMod
<1>3. QED BY <1>2 DEF Whole, x

(* decode() of a whole frame: the message, and what is behind the frame.   *)
LEMMA RpcDecodesWhole ==
  ASSUME NEW m \in Messages, NEW b, IsBuffer(b), PREPEND <= Len(b.mem),
         Begins(Content(b), RpcFrame(m)), NEW old, old.body = << >>
  PROVE  /\ Took(RpcDecode(b, old), b, Len(RpcFrame(m)))
         /\ RpcDecode(b, old).msg.meta = m.meta
         /\ RpcDecode(b, old).msg.body = m.body
<1> DEFINE c == Content(b)
           l == Len(m.body)
           rest == Retrieved(b, HEADER_LEN)
           buf == Retrieved(rest, l)
           body == IF l > Readable(rest) THEN << >> ELSE SubSeq(Content(rest), 1, l)
<1>1. /\ HEADER_LEN \in Nat /\ HEADER_LEN >= 3 /\ RPC_WORD \in Nat \ {0}
      /\ l \in Nat /\ m.body \in Seq(Bytes) /\ (m.body = << >> <=> l = 0)
      /\ l + HEADER_LEN < RPC_WORD
  BY RpcHeaderAssumption, MessageCells
<1>2. /\ c \in Seq(Bytes) /\ Len(c) = Readable(b) /\ Readable(b) \in Nat
  BY ContentProperties, BufferNumbers
<1>3. /\ HEADER_LEN + l <= Readable(b)
      /\ c[1] = Magic /\ c[2] = m.meta /\ c[HEADER_LEN] = l
      /\ \A i \in 1..l : c[HEADER_LEN + i] = m.body[i]
  <2> DEFINE f == RpcFrame(m)
  <2>1. /\ Len(f) = HEADER_LEN + l
        /\ f[1] = Magic /\ f[2] = m.meta /\ f[HEADER_LEN] = l
        /\ \A i \in 1..l : f[HEADER_LEN + i] = m.body[i]
    BY RpcFrameCells
  <2>2. Len(f) <= Len(c) /\ \A k \in 1..Len(f) : c[k] = f[k]
    BY DEF Begins
  <2> HIDE DEF f, c, l
  <2>3. /\ 1 \in 1..Len(f) /\ 2 \in 1..Len(f) /\ HEADER_LEN \in 1..Len(f)
        /\ \A i \in 1..l : HEADER_LEN + i \in 1..Len(f)
    BY <1>1, <2>1
  <2>4. QED BY <1>2, <2>1, <2>2, <2>3
<1>4. HEADER_LEN <= Readable(b)
  BY <1>1, <1>2, <1>3
<1>5. /\ IsBuffer(rest) /\ rest.mem = b.mem
      /\ Content(rest) = SubSeq(c, HEADER_LEN + 1, Readable(b))
      /\ Readable(rest) = Readable(b) - HEADER_LEN
  BY <1>1, <1>4, RetrievedProperties
<1> HIDE DEF rest
<1>6. /\ IsBuffer(buf) /\ buf.mem = b.mem
      /\ Content(buf) = SubSeq(Content(rest), l + 1, Readable(rest))
  <2>1. l <= Readable(rest) /\ PREPEND <= Len(rest.mem)
    BY <1>1, <1>2, <1>3, <1>5
  <2>2. QED BY <1>1, <1>5, <2>1, RetrievedProperties
<1>7. Content(buf) = SubSeq(c, (HEADER_LEN + l) + 1, Readable(b))
  <2>1. HEADER_LEN + l <= Len(c) /\ Len(c) = Readable(b)
    BY <1>2, <1>3
  <2> HIDE DEF c, l
  <2>2. SubSeq(SubSeq(c, HEADER_LEN + 1, Len(c)), l + 1, Len(c) - HEADER_LEN)
          = SubSeq(c, (HEADER_LEN + l) + 1, Len(c))
    BY <1>1, <1>2, <2>1, DroppedTwice
  <2> HIDE DEF buf
  <2>3. QED BY <1>5, <1>6, <2>1, <2>2
<1>8. body = m.body
  <2>1. ~ (l > Readable(rest))
    BY <1>1, <1>2, <1>3, <1>5
  <2> DEFINE r == Content(rest)
  <2>2. /\ r \in Seq(Bytes) /\ Len(r) = Readable(b) - HEADER_LEN
        /\ \A i \in 1..(Readable(b) - HEADER_LEN) : r[i] = c[HEADER_LEN + i]
    <3>1. HEADER_LEN \in 0..Len(c)
      BY <1>1, <1>2, <1>4
    <3> HIDE DEF c
    <3>2. QED BY <1>2, <1>5, <3>1, Dropped
  <2> HIDE DEF r, l, c
  <2>3. /\ 0 + l <= Len(r) /\ 0 \in Nat /\ 0 + 1 = 1 /\ 0 + l = l
        /\ \A i \in 1..l : i \in 1..(Readable(b) - HEADER_LEN) /\ 0 + i = i
    BY <1>1, <1>2, <1>3, <2>2
  <2>4. \A i \in 1..l : r[0 + i] = m.body[i]
    BY <1>3, <2>2, <2>3
  <2>5. SubSeq(r, 0 + 1, 0 + l) = m.body
    BY <1>1, <2>2, <2>3, <2>4, SameString DEF l
  <2>6. SubSeq(r, 1, l) = m.body
    BY <2>3, <2>5
  <2>7. QED BY <2>1, <2>6 DEF r
<1>9. Whole(b, l)
  <2>1. Readable(b) >= l + HEADER_LEN
    BY <1>1, <1>2, <1>3
  <2>2. QED BY <1>1, <2>1, WholeTest
<1>10. RpcDecode(b, old) =
         [ok |-> TRUE, buf |-> buf,
          msg |-> [meta |-> m.meta, body_len |-> l, body |-> m.body]]
  <2>1. l > 0 \/ m.body = old.body
    BY <1>1
  <2>2. Readable(b) >= HEADER_LEN
    BY <1>1, <1>2, <1>4
  <2> HIDE DEF l
  <2>3. QED BY <1>3, <1>8, <1>9, <2>1, <2>2 DEF RpcDecode, rest
<1> HIDE DEF buf
<1>11. Len(RpcFrame(m)) = HEADER_LEN + l
  BY RpcFrameCells
<1>12. QED BY <1>6, <1>7, <1>10, <1>11 DEF Took

(* decode() of a part of a frame: nothing yet.                             *)
LEMMA RpcDecodesPart ==
  ASSUME NEW b, IsBuffer(b), NEW old,
         \/ Readable(b) = 0
         \/ \E m \in Messages : IsPart(Content(b), RpcFrame(m))
  PROVE  Waits(RpcDecode(b, old), b)
<1>1. HEADER_LEN \in Nat /\ HEADER_LEN >= 3 /\ RPC_WORD \in Nat \ {0}
  BY RpcHeaderAssumption
<1>2. Len(Content(b)) = Readable(b) /\ Readable(b) \in Nat
  BY ContentProperties, BufferNumbers
<1>3. CASE ~ (Readable(b) >= HEADER_LEN)
  BY <1>3 DEF RpcDecode, Waits
<1>4. CASE Readable(b) >= HEADER_LEN
  <2>1. PICK m \in Messages : IsPart(Content(b), RpcFrame(m))
    BY <1>1, <1>4
  <2> DEFINE f == RpcFrame(m)
             c == Content(b)
             l == Len(m.body)
  <2>2. /\ Len(f) = HEADER_LEN + l /\ f[1] = Magic /\ f[HEADER_LEN] = l
        /\ l \in Nat /\ l + HEADER_LEN < RPC_WORD
    BY RpcFrameCells, MessageCells
  <2>3. Len(c) < Len(f) /\ \A k \in 1..Len(c) : c[k] = f[k]
    BY <2>1 DEF IsPart
  <2>4. c[1] = Magic /\ c[HEADER_LEN] = l
    <3>1. 1 \in 1..Len(c) /\ HEADER_LEN \in 1..Len(c)
      BY <1>1, <1>2, <1>4
    <3>2. QED BY <2>2, <2>3, <3>1
  <2>5. ~ Whole(b, l)
    <3>1. ~ (Readable(b) >= l + HEADER_LEN)
      BY <1>1, <1>2, <2>2, <2>3
    <3>2. QED BY <2>2, <3>1, WholeTest
  <2> HIDE DEF l
  <2>6. QED BY <1>4, <2>4, <2>5 DEF RpcDecode, Waits
<1>5. QED BY <1>3, <1>4

-----------------------------------------------------------------------------
(* ModbusCodec.                                                            *)

ModbusHeader(m) == MbapHeader(m.meta, m.meta, m.body)

ModbusFrame(m) == ModbusHeader(m) \o m.body

(* What a header holds.                                                    *)
LEMMA ModbusHeaderCells ==
  ASSUME NEW m \in Messages
  PROVE  LET h == ModbusHeader(m) IN
         /\ h \in Seq(Bytes) /\ Len(h) = MBAP_LEN /\ h[1] = m.meta
         /\ h[MBAP_LEN - 2] = 0 /\ h[MBAP_LEN - 1] = Len(m.body) + 1
<1> DEFINE h == ModbusHeader(m)
           l == Len(m.body) + 1
<1>1. MBAP_LEN \in Nat /\ MBAP_LEN >= 4 /\ MODBUS_WORD \in Nat \ {0}
  BY MbapAssumption
<1>2. l \in Nat /\ l < MODBUS_WORD /\ l \in Bytes /\ m.meta \in Bytes /\ 0 \in Bytes
  BY MessageCells, CellsAssumption
<1>3. l % MODBUS_WORD = l
  <2> HIDE DEF l
  <2>1. QED BY <1>1, <1>2, SmallMod
<1>4. \A i \in 1..MBAP_LEN :
        h[i] = CASE i = MBAP_LEN - 2 -> 0
                 [] i = MBAP_LEN - 1 -> l
                 [] i = MBAP_LEN -> m.meta
                 [] OTHER -> m.meta
  BY <1>3 DEF MbapHeader, ModbusHeader
<1>5. h \in [1..MBAP_LEN -> Bytes]
  BY <1>2, <1>3 DEF MbapHeader, ModbusHeader
<1>6. h[1] = m.meta /\ h[MBAP_LEN - 2] = 0 /\ h[MBAP_LEN - 1] = l
  <2> HIDE DEF h, l
  <2>1. QED BY <1>1, <1>4
<1> HIDE DEF h
<1>7. h \in Seq(Bytes) /\ Len(h) = MBAP_LEN
  BY <1>1, <1>5, FunctionIsSeq
<1>8. QED BY <1>6, <1>7 DEF h

(* What a frame holds, and where.                                          *)
LEMMA ModbusFrameCells ==
  ASSUME NEW m \in Messages
  PROVE  LET f == ModbusFrame(m) IN
         /\ f \in Seq(Bytes) /\ Len(f) = MBAP_LEN + Len(m.body) /\ f[1] = m.meta
         /\ f[MBAP_LEN - 2] = 0 /\ f[MBAP_LEN - 1] = Len(m.body) + 1
         /\ \A i \in 1..Len(m.body) : f[MBAP_LEN + i] = m.body[i]
<1> DEFINE h == ModbusHeader(m)
           f == h \o m.body
<1>1. MBAP_LEN \in Nat /\ MBAP_LEN >= 4
  BY MbapAssumption
<1>2. /\ h \in Seq(Bytes) /\ Len(h) = MBAP_LEN /\ h[1] = m.meta
      /\ h[MBAP_LEN - 2] = 0 /\ h[MBAP_LEN - 1] = Len(m.body) + 1
  BY ModbusHeaderCells
<1>3. m.body \in Seq(Bytes) /\ Len(m.body) \in Nat
  BY MessageCells
<1> HIDE DEF h
<1>4. /\ f \in Seq(Bytes) /\ Len(f) = MBAP_LEN + Len(m.body)
      /\ \A i \in 1..MBAP_LEN + Len(m.body) :
           f[i] = IF i <= MBAP_LEN THEN h[i] ELSE m.body[i - MBAP_LEN]
  <2>1. /\ f \in Seq(Bytes) /\ Len(f) = Len(h) + Len(m.body)
        /\ \A i \in 1..Len(h) + Len(m.body) :
             f[i] = IF i <= Len(h) THEN h[i] ELSE m.body[i - Len(h)]
    BY <1>2, <1>3, ConcatProperties
  <2>2. QED BY <1>2, <2>1
<1> HIDE DEF f
<1>5. f[1] = m.meta /\ f[MBAP_LEN - 2] = 0 /\ f[MBAP_LEN - 1] = Len(m.body) + 1
  <2>1. \A i \in 1..MBAP_LEN : i \in 1..MBAP_LEN + Len(m.body) /\ i <= MBAP_LEN
    BY <1>1, <1>3
  <2>2. \A i \in 1..MBAP_LEN : f[i] = h[i]
    BY <1>4, <2>1
  <2>3. {1, MBAP_LEN - 2, MBAP_LEN - 1} \subseteq 1..MBAP_LEN
    BY <1>1
  <2>4. QED BY <1>2, <2>2, <2>3
<1>6. ASSUME NEW i \in 1..Len(m.body) PROVE f[MBAP_LEN + i] = m.body[i]
  <2>1. /\ MBAP_LEN + i \in 1..MBAP_LEN + Len(m.body)
        /\ (MBAP_LEN + i) - MBAP_LEN = i /\ ~ (MBAP_LEN + i <= MBAP_LEN)
    BY <1>1, <1>3
  <2>2. QED BY <1>4, <2>1
<1>7. QED BY <1>4, <1>5, <1>6 DEF f, h, ModbusFrame

(* encode() writes the frame and nothing else.                             *)
LEMMA ModbusEncodes ==
  ASSUME NEW m \in Messages
  PROVE  Content(ModbusEncode(m.meta, m.meta, m.body, New)) = ModbusFrame(m)
<1> DEFINE h == ModbusHeader(m)
           b == Appended(New, h)
<1>1. h \in Seq(Bytes) /\ m.body \in Seq(Bytes)
  BY ModbusHeaderCells, MessageCells
<1>2. ModbusEncode(m.meta, m.meta, m.body, New) = Appended(b, m.body)
  BY DEF ModbusEncode, ModbusHeader
<1> HIDE DEF h
<1>3. IsBuffer(b) /\ Content(b) = << >> \o h
  BY <1>1, NewProperties, AppendedProperties
<1> HIDE DEF b
<1>4. Content(Appended(b, m.body)) = Content(b) \o m.body
  BY <1>1, <1>3, AppendedProperties
<1>5. << >> \o h = h
  BY <1>1, ConcatEmptySeq
<1>6. QED BY <1>2, <1>3, <1>4, <1>5 DEF ModbusFrame, h

(* decode() of a whole frame copies all of it.                             *)
LEMMA ModbusDecodesWhole ==
  ASSUME NEW m \in Messages, NEW b, IsBuffer(b), PREPEND <= Len(b.mem),
         Begins(Content(b), ModbusFrame(m)), NEW old
  PROVE  /\ Took(ModbusDecode(b, old), b, Len(ModbusFrame(m)))
         /\ ModbusDecode(b, old).msg = ModbusFrame(m)
<1> DEFINE c == Content(b)
           f == ModbusFrame(m)
           n == MBAP_LEN + Len(m.body)
<1>1. MBAP_LEN \in Nat /\ MBAP_LEN >= 4 /\ Len(m.body) \in Nat
  BY MbapAssumption, MessageCells
<1>2. c \in Seq(Bytes) /\ Len(c) = Readable(b) /\ Readable(b) \in Nat
  BY ContentProperties, BufferNumbers
<1>3. /\ f \in Seq(Bytes) /\ Len(f) = n
      /\ f[MBAP_LEN - 2] = 0 /\ f[MBAP_LEN - 1] = Len(m.body) + 1
  BY ModbusFrameCells
<1>4. Len(f) <= Len(c) /\ \A k \in 1..Len(f) : c[k] = f[k]
  BY DEF Begins
<1> HIDE DEF c, f
<1>5. c[MBAP_LEN - 2] = 0 /\ c[MBAP_LEN - 1] = Len(m.body) + 1
  <2>1. MBAP_LEN - 2 \in 1..Len(f) /\ MBAP_LEN - 1 \in 1..Len(f)
    BY <1>1, <1>3
  <2>2. QED BY <1>3, <1>4, <2>1
<1>6. c[MBAP_LEN - 1] + MBAP_LEN - 1 = n
  BY <1>1, <1>5
<1>7. n \in Nat /\ n <= Readable(b) /\ Readable(b) >= MBAP_LEN
  BY <1>1, <1>2, <1>3, <1>4
<1>8. SubSeq(c, 1, n) = f
  <2>1. /\ 0 + Len(f) <= Len(c) /\ 0 \in Nat /\ 0 + 1 = 1 /\ 0 + n = n
        /\ \A i \in 1..Len(f) : 0 + i = i
    BY <1>2, <1>3, <1>4
  <2>2. \A i \in 1..Len(f) : c[0 + i] = f[i]
    BY <1>4, <2>1
  <2>3. SubSeq(c, 0 + 1, 0 + Len(f)) = f
    BY <1>2, <1>3, <2>1, <2>2, SameString
  <2>4. QED BY <1>3, <2>1, <2>3
<1>9. ModbusDecode(b, old) = [ok |-> TRUE, buf |-> Retrieved(b, n), msg |-> f]
  <2> HIDE DEF n
  <2>1. ~ (Readable(b) < n) /\ Readable(b) >= n
    BY <1>2, <1>7
  <2>2. QED BY <1>5, <1>6, <1>7, <1>8, <2>1 DEF ModbusDecode, c
<1>10. /\ IsBuffer(Retrieved(b, n)) /\ Retrieved(b, n).mem = b.mem
       /\ Content(Retrieved(b, n)) = SubSeq(c, n + 1, Readable(b))
  <2> HIDE DEF n
  <2>1. QED BY <1>7, RetrievedProperties DEF c
<1>11. QED BY <1>3, <1>9, <1>10 DEF Took, c, f

(* decode() of a part of a frame: nothing yet.                             *)
LEMMA ModbusDecodesPart ==
  ASSUME NEW b, IsBuffer(b), NEW old,
         \/ Readable(b) = 0
         \/ \E m \in Messages : IsPart(Content(b), ModbusFrame(m))
  PROVE  Waits(ModbusDecode(b, old), b)
<1>1. MBAP_LEN \in Nat /\ MBAP_LEN >= 4
  BY MbapAssumption
<1>2. Len(Content(b)) = Readable(b) /\ Readable(b) \in Nat
  BY ContentProperties, BufferNumbers
<1>3. CASE ~ (Readable(b) >= MBAP_LEN)
  BY <1>3 DEF ModbusDecode, Waits
<1>4. CASE Readable(b) >= MBAP_LEN
  <2>1. PICK m \in Messages : IsPart(Content(b), ModbusFrame(m))
    BY <1>1, <1>4
  <2> DEFINE f == ModbusFrame(m)
             c == Content(b)
             n == MBAP_LEN + Len(m.body)
  <2>2. /\ Len(f) = n /\ Len(m.body) \in Nat
        /\ f[MBAP_LEN - 2] = 0 /\ f[MBAP_LEN - 1] = Len(m.body) + 1
    BY ModbusFrameCells, MessageCells
  <2>3. Len(c) < Len(f) /\ \A k \in 1..Len(c) : c[k] = f[k]
    BY <2>1 DEF IsPart
  <2> HIDE DEF f
  <2>4. c[MBAP_LEN - 2] = 0 /\ c[MBAP_LEN - 1] = Len(m.body) + 1
    <3>1. MBAP_LEN - 2 \in 1..Len(c) /\ MBAP_LEN - 1 \in 1..Len(c)
      BY <1>1, <1>2, <1>4
    <3>2. QED BY <2>2, <2>3, <3>1
  <2>5. c[MBAP_LEN - 1] + MBAP_LEN - 1 = n /\ Readable(b) < n
    BY <1>1, <1>2, <2>2, <2>3, <2>4
  <2> HIDE DEF n
  <2>6. ~ (Readable(b) >= n)
    BY <1>1, <1>2, <2>2, <2>5 DEF n
  <2>7. QED BY <1>4, <2>4, <2>5, <2>6 DEF ModbusDecode, Waits
<1>5. QED BY <1>3, <1>4

-----------------------------------------------------------------------------
(* HttpCodec.                                                              *)

(* The first empty line ends the headers.                                  *)
LEMMA EndFound ==
  ASSUME NEW s \in Seq(Bytes), NEW e \in 1..Len(s), s[e] = CRLFCRLF,
         \A i \in 1..(e - 1) : s[i] # CRLFCRLF
  PROVE  EndOfHeaders(s) = e
<1> DEFINE ends == {i \in 1..Len(s) : s[i] = CRLFCRLF}
<1>1. EndOfHeaders(s) = IF ends # {} THEN Min(ends) ELSE 0
  BY Zenon DEF EndOfHeaders, SelectInSeq
<1>2. Len(s) \in Nat /\ e \in Nat
  BY LenProperties
<1>3. e \in ends /\ \A i \in ends : i \in Nat /\ e <= i
  BY <1>2
<1>4. Min(ends) \in ends /\ \A i \in ends : Min(ends) <= i
  BY <1>3, Zenon DEF Min
<1>5. Min(ends) = e
  <2> HIDE DEF ends
  <2>1. Min(ends) \in Nat /\ Min(ends) <= e /\ e <= Min(ends)
    BY <1>3, <1>4
  <2>2. QED BY <1>2, <2>1
<1>6. QED BY <1>1, <1>3, <1>5

(* Without an empty line there is no end.                                  *)
LEMMA EndMissing ==
  ASSUME NEW s \in Seq(Bytes), \A i \in 1..Len(s) : s[i] # CRLFCRLF
  PROVE  EndOfHeaders(s) = 0
<1>1. EndOfHeaders(s) = IF {i \in 1..Len(s) : s[i] = CRLFCRLF} # {}
                          THEN Min({i \in 1..Len(s) : s[i] = CRLFCRLF}) ELSE 0
  BY Zenon DEF EndOfHeaders, SelectInSeq
<1>2. QED BY <1>1

(* Strings of a few cells.                                                 *)
LEMMA ConcatCells ==
  ASSUME NEW a \in Bytes, NEW b \in Bytes, NEW c \in Bytes
  PROVE  <<a>> \o <<b>> = <<a, b>> /\ <<a, b>> \o <<c>> = <<a, b, c>>
<1>1. /\ <<a>> \in Seq(Bytes) /\ <<b>> \in Seq(Bytes) /\ <<c>> \in Seq(Bytes)
      /\ <<a, b>> \in Seq(Bytes) /\ <<a, b, c>> \in Seq(Bytes)
      /\ Len(<<a>>) = 1 /\ Len(<<b>>) = 1 /\ Len(<<c>>) = 1
      /\ Len(<<a, b>>) = 2 /\ Len(<<a, b, c>>) = 3
  OBVIOUS
<1>2. <<a>> \o <<b>> = <<a, b>>
  <2> DEFINE s == <<a>> \o <<b>>
  <2>1. /\ s \in Seq(Bytes) /\ Len(s) = 1 + 1
        /\ \A i \in 1..1 + 1 : s[i] = IF i <= 1 THEN <<a>>[i] ELSE <<b>>[i - 1]
    BY <1>1, ConcatProperties
  <2> HIDE DEF s
  <2>2. Len(s) = 2 /\ s[1] = a /\ s[2] = b
    BY <2>1
  <2>3. \A i \in 1..Len(s) : s[i] = <<a, b>>[i]
    BY <2>2
  <2>4. s = <<a, b>>
    BY <1>1, <2>1, <2>2, <2>3, SeqEqual
  <2>5. QED BY <2>4 DEF s
<1>3. <<a, b>> \o <<c>> = <<a, b, c>>
  <2> DEFINE s == <<a, b>> \o <<c>>
  <2>1. /\ s \in Seq(Bytes) /\ Len(s) = 2 + 1
        /\ \A i \in 1..2 + 1 : s[i] = IF i <= 2 THEN <<a, b>>[i] ELSE <<c>>[i - 2]
    BY <1>1, ConcatProperties
  <2> HIDE DEF s
  <2>2. Len(s) = 3 /\ s[1] = a /\ s[2] = b /\ s[3] = c
    BY <2>1
  <2>3. \A i \in 1..Len(s) : s[i] = <<a, b, c>>[i]
    BY <2>2
  <2>4. s = <<a, b, c>>
    BY <1>1, <2>1, <2>2, <2>3, SeqEqual
  <2>5. QED BY <2>4 DEF s
<1>4. QED BY <1>2, <1>3

(* The number of cells before the body.                                    *)
HeadLen(m) == IF m.body = << >> THEN 2 ELSE 3

(* What a request holds, and where: only its end looks like one.           *)
LEMMA HttpFrameCells ==
  ASSUME NEW m \in Messages
  PROVE  LET f == HttpRequestBytes(m) IN
         /\ f \in Seq(Bytes) /\ Len(f) = HeadLen(m) + Len(m.body)
         /\ f[1] = m.meta /\ f[HeadLen(m)] = CRLFCRLF
         /\ m.body # << >> => f[2] = Len(m.body)
         /\ \A i \in 1..(HeadLen(m) - 1) : f[i] # CRLFCRLF
         /\ \A i \in 1..Len(m.body) : f[HeadLen(m) + i] = m.body[i]
<1> DEFINE n == HeadLen(m)
           l == Len(m.body)
           h == IF m.body = << >> THEN <<m.meta, CRLFCRLF>>
                ELSE <<m.meta, l, CRLFCRLF>>
           f == h \o m.body
<1>1. /\ m.meta \in Bytes /\ CRLFCRLF \in Bytes /\ l \in Bytes /\ l \in Nat
      /\ m.body \in Seq(Bytes) /\ m.meta # CRLFCRLF /\ l # CRLFCRLF
  BY MessageCells, CrlfAssumption
<1>2. HttpRequestBytes(m) = f
  <2>1. CASE m.body = << >>
    <3>1. <<m.meta>> \in Seq(Bytes)
      BY <1>1
    <3>2. <<m.meta>> \o << >> = <<m.meta>>
      BY <3>1, ConcatEmptySeq
    <3>3. <<m.meta>> \o <<CRLFCRLF>> = <<m.meta, CRLFCRLF>>
      BY <1>1, ConcatCells
    <3>4. QED BY <2>1, <3>2, <3>3 DEF HttpRequestBytes
  <2>2. CASE m.body # << >>
    <3> HIDE DEF l
    <3>1. /\ <<m.meta>> \o <<l>> = <<m.meta, l>>
          /\ <<m.meta, l>> \o <<CRLFCRLF>> = <<m.meta, l, CRLFCRLF>>
      BY <1>1, ConcatCells
    <3>2. QED BY <2>2, <3>1 DEF HttpRequestBytes, l
  <2>3. QED BY <2>1, <2>2
<1>3. /\ h \in Seq(Bytes) /\ Len(h) = n /\ n \in {2, 3}
      /\ h[1] = m.meta /\ h[n] = CRLFCRLF /\ (m.body # << >> => n = 3 /\ h[2] = l)
      /\ \A i \in 1..(n - 1) : h[i] # CRLFCRLF
  <2>1. CASE m.body = << >>
    BY <1>1, <2>1 DEF HeadLen
  <2>2. CASE m.body # << >>
    BY <1>1, <2>2 DEF HeadLen
  <2>3. QED BY <2>1, <2>2
<1> HIDE DEF h, n
<1>4. /\ f \in Seq(Bytes) /\ Len(f) = n + l
      /\ \A i \in 1..n + l : f[i] = IF i <= n THEN h[i] ELSE m.body[i - n]
  <2>1. /\ f \in Seq(Bytes) /\ Len(f) = Len(h) + Len(m.body)
        /\ \A i \in 1..Len(h) + Len(m.body) :
             f[i] = IF i <= Len(h) THEN h[i] ELSE m.body[i - Len(h)]
    BY <1>1, <1>3, ConcatProperties
  <2>2. QED BY <1>3, <2>1
<1> HIDE DEF f, l
<1>5. \A i \in 1..n : f[i] = h[i]
  <2>1. \A i \in 1..n : i \in 1..n + l /\ i <= n
    BY <1>1, <1>3
  <2>2. QED BY <1>4, <2>1
<1>6. /\ f[1] = m.meta /\ f[n] = CRLFCRLF /\ (m.body # << >> => f[2] = l)
      /\ \A i \in 1..(n - 1) : f[i] # CRLFCRLF
  <2>1. {1, 2, n} \subseteq 1..n /\ \A i \in 1..(n - 1) : i \in 1..n
    BY <1>3
  <2>2. QED BY <1>3, <1>5, <2>1
<1>7. ASSUME NEW i \in 1..l PROVE f[n + i] = m.body[i]
  <2>1. n + i \in 1..n + l /\ (n + i) - n = i /\ ~ (n + i <= n)
    BY <1>1, <1>3
  <2>2. QED BY <1>4, <2>1
<1>8. QED BY <1>2, <1>4, <1>6, <1>7 DEF n, l

(* What is sent is the request.                                            *)
LEMMA HttpEncodes ==
  ASSUME NEW m \in Messages
  PROVE  Content(Appended(New, HttpRequestBytes(m))) = HttpRequestBytes(m)
<1> DEFINE f == HttpRequestBytes(m)
<1>1. f \in Seq(Bytes)
  BY HttpFrameCells
<1> HIDE DEF f
<1>2. Content(Appended(New, f)) = << >> \o f
  BY <1>1, NewProperties, AppendedProperties
<1>3. QED BY <1>1, <1>2, ConcatEmptySeq DEF f

(* decode() of a whole request into a new object.                          *)
LEMMA HttpDecodesWhole ==
  ASSUME NEW m \in Messages, NEW b, IsBuffer(b), PREPEND <= Len(b.mem),
         Begins(Content(b), HttpRequestBytes(m)), NEW old, old.body = << >>
  PROVE  /\ Took(HttpDecode(b, old), b, Len(HttpRequestBytes(m)))
         /\ HttpDecode(b, old).msg.meta = m.meta
         /\ HttpDecode(b, old).msg.body = m.body
<1> DEFINE c == Content(b)
           f == HttpRequestBytes(m)
           e == HeadLen(m)
           l == Len(m.body)
           rest == Retrieved(b, e)
           buf == Retrieved(rest, l)
<1>1. /\ l \in Nat /\ m.body \in Seq(Bytes) /\ (m.body = << >> <=> l = 0)
      /\ e \in {2, 3} /\ (e = 2 <=> m.body = << >>)
  BY MessageCells DEF HeadLen
<1>2. c \in Seq(Bytes) /\ Len(c) = Readable(b) /\ Readable(b) \in Nat
  BY ContentProperties, BufferNumbers
<1>3. /\ Len(f) = e + l
      /\ f[1] = m.meta /\ f[e] = CRLFCRLF /\ (m.body # << >> => f[2] = l)
      /\ \A i \in 1..(e - 1) : f[i] # CRLFCRLF
      /\ \A i \in 1..l : f[e + i] = m.body[i]
  BY HttpFrameCells
<1>4. Len(f) <= Len(c) /\ \A k \in 1..Len(f) : c[k] = f[k]
  BY DEF Begins
<1> HIDE DEF c, f, e, l
<1>5. /\ e + l <= Readable(b) /\ e \in 1..Len(c)
      /\ c[1] = m.meta /\ c[e] = CRLFCRLF /\ (e > 2 => c[2] = l)
      /\ \A i \in 1..(e - 1) : c[i] # CRLFCRLF
      /\ \A i \in 1..l : c[e + i] = m.body[i]
  <2>1. /\ {1, 2, e} \subseteq 1..Len(f) /\ e \in 1..Len(c)
        /\ \A i \in 1..(e - 1) : i \in 1..Len(f)
        /\ \A i \in 1..l : e + i \in 1..Len(f)
    BY <1>1, <1>2, <1>3, <1>4
  <2>2. /\ c[1] = m.meta /\ c[e] = CRLFCRLF /\ (e > 2 => c[2] = l)
    BY <1>1, <1>3, <1>4, <2>1
  <2>3. /\ \A i \in 1..(e - 1) : c[i] # CRLFCRLF
        /\ \A i \in 1..l : c[e + i] = m.body[i]
    BY <1>3, <1>4, <2>1
  <2>4. e + l <= Readable(b)
    BY <1>2, <1>3, <1>4
  <2>5. QED BY <2>1, <2>2, <2>3, <2>4
<1>6. EndOfHeaders(c) = e
  BY <1>2, <1>5, EndFound
<1>7. /\ IsBuffer(rest) /\ rest.mem = b.mem
      /\ Content(rest) = SubSeq(c, e + 1, Readable(b))
      /\ Readable(rest) = Readable(b) - e
  <2>1. e \in Nat /\ e <= Readable(b)
    BY <1>1, <1>2, <1>5
  <2>2. QED BY <2>1, RetrievedProperties DEF c
<1> HIDE DEF rest
<1>8. /\ IsBuffer(buf) /\ buf.mem = b.mem
      /\ Content(buf) = SubSeq(Content(rest), l + 1, Readable(rest))
  <2>1. l <= Readable(rest) /\ PREPEND <= Len(rest.mem)
    BY <1>1, <1>2, <1>5, <1>7
  <2>2. QED BY <1>1, <1>7, <2>1, RetrievedProperties
<1> HIDE DEF buf
<1>9. Content(buf) = SubSeq(c, (e + l) + 1, Readable(b))
  <2>1. e \in Nat /\ e + l <= Len(c)
    BY <1>1, <1>2, <1>5
  <2>2. SubSeq(SubSeq(c, e + 1, Len(c)), l + 1, Len(c) - e)
          = SubSeq(c, (e + l) + 1, Len(c))
    BY <1>1, <1>2, <2>1, DroppedTwice
  <2>3. QED BY <1>2, <1>7, <1>8, <2>2
<1>10. SubSeq(c, e + 1, e + l) = m.body
  <2>1. e \in Nat /\ e + Len(m.body) <= Len(c)
    BY <1>1, <1>2, <1>5 DEF l
  <2>2. \A i \in 1..Len(m.body) : c[e + i] = m.body[i]
    BY <1>5 DEF l
  <2>3. QED BY <1>1, <1>2, <2>1, <2>2, SameString DEF l
<1>11. (IF e > 2 THEN c[2] ELSE 0) = l
  BY <1>1, <1>5
<1>12. /\ HttpDecode(b, old).ok /\ HttpDecode(b, old).buf = buf
       /\ HttpDecode(b, old).msg.meta = m.meta
       /\ HttpDecode(b, old).msg.body = m.body
  <2>1. e # 0 /\ e > 0 /\ e > 1 /\ ~ (Readable(b) < e + l) /\ Readable(b) >= e + l
    BY <1>1, <1>2, <1>5
  <2>2. l > 0 \/ m.body = old.body
    BY <1>1
  <2> DEFINE bytes == Content(b)
             end   == EndOfHeaders(bytes)
             content_length == IF end > 2 THEN bytes[2] ELSE 0
             total == end + content_length
  <2>3. end = e /\ content_length = l /\ total = e + l /\ bytes = c
    BY <1>6, <1>11 DEF c
  <2>4. HttpDecode(b, old) =
          [ok  |-> TRUE,
           buf |-> Retrieved(Retrieved(b, end), content_length),
           msg |-> [meta   |-> IF end > 1 THEN bytes[1] ELSE old.meta,
                    length |-> IF end > 2 THEN bytes[2] ELSE old.length,
                    body   |-> IF content_length > 0
                               THEN SubSeq(bytes, end + 1, total)
                               ELSE old.body]]
    <3>1. ~ (end = 0) /\ ~ (Readable(b) < total) /\ end > 0 /\ Readable(b) >= total
      BY <2>1, <2>3
    <3>2. QED BY <3>1, Zenon DEF HttpDecode
  <2> HIDE DEF bytes, end, content_length, total
  <2>5. /\ HttpDecode(b, old).ok
        /\ HttpDecode(b, old).buf = Retrieved(Retrieved(b, end), content_length)
        /\ HttpDecode(b, old).msg.meta = IF end > 1 THEN bytes[1] ELSE old.meta
        /\ HttpDecode(b, old).msg.body =
             IF content_length > 0 THEN SubSeq(bytes, end + 1, total) ELSE old.body
    BY <2>4
  <2>6. HttpDecode(b, old).msg.body = m.body
    <3>1. SubSeq(bytes, end + 1, total) = m.body
      BY <1>10, <2>3
    <3>2. QED BY <2>2, <2>3, <2>5, <3>1
  <2>7. HttpDecode(b, old).msg.meta = m.meta
    BY <1>5, <2>1, <2>3, <2>5
  <2>8. QED BY <2>3, <2>5, <2>6, <2>7 DEF buf, rest
<1>13. QED BY <1>3, <1>8, <1>9, <1>12 DEF Took, f, c

(* decode() of a part of a request: nothing yet.                           *)
LEMMA HttpDecodesPart ==
  ASSUME NEW b, IsBuffer(b), NEW old,
         \/ Readable(b) = 0
         \/ \E m \in Messages : IsPart(Content(b), HttpRequestBytes(m))
  PROVE  Waits(HttpDecode(b, old), b)
<1> DEFINE c == Content(b)
<1>1. c \in Seq(Bytes) /\ Len(c) = Readable(b) /\ Readable(b) \in Nat
  BY ContentProperties, BufferNumbers
<1>2. CASE EndOfHeaders(c) = 0
  BY <1>2 DEF HttpDecode, Waits
<1>3. CASE EndOfHeaders(c) # 0
  <2>1. Readable(b) # 0
    BY <1>1, <1>3, EndMissing
  <2>2. PICK m \in Messages : IsPart(c, HttpRequestBytes(m))
    BY <2>1
  <2> DEFINE f == HttpRequestBytes(m)
             e == HeadLen(m)
             l == Len(m.body)
  <2>3. /\ l \in Nat /\ e \in {2, 3} /\ (m.body = << >> <=> l = 0)
        /\ (e = 2 <=> m.body = << >>)
    BY MessageCells DEF HeadLen
  <2>4. /\ Len(f) = e + l /\ f[e] = CRLFCRLF /\ (m.body # << >> => f[2] = l)
        /\ \A i \in 1..(e - 1) : f[i] # CRLFCRLF
    BY HttpFrameCells
  <2>5. Len(c) < Len(f) /\ \A k \in 1..Len(c) : c[k] = f[k]
    BY <2>2 DEF IsPart
  <2> HIDE DEF c, f, e, l
  <2>6. e <= Len(c)
    <3>1. SUFFICES ASSUME ~ (e <= Len(c)) PROVE FALSE
      OBVIOUS
    <3>2. \A i \in 1..Len(c) : i \in 1..(e - 1)
      BY <1>1, <2>3, <3>1
    <3>3. \A i \in 1..Len(c) : c[i] # CRLFCRLF
      BY <2>4, <2>5, <3>2
    <3>4. QED BY <1>1, <1>3, <3>3, EndMissing DEF c
  <2>7. /\ e \in 1..Len(c) /\ {2, e} \subseteq 1..Len(c)
        /\ \A i \in 1..(e - 1) : i \in 1..Len(c)
    BY <1>1, <2>3, <2>6
  <2>8. EndOfHeaders(c) = e
    <3>1. c[e] = CRLFCRLF /\ \A i \in 1..(e - 1) : c[i] # CRLFCRLF
      BY <2>4, <2>5, <2>7
    <3>2. QED BY <1>1, <2>7, <3>1, EndFound
  <2>9. (IF e > 2 THEN c[2] ELSE 0) = l
    BY <2>3, <2>4, <2>5, <2>7
  <2>10. e # 0 /\ e > 0 /\ Readable(b) < e + l /\ ~ (Readable(b) >= e + l)
    BY <1>1, <2>3, <2>4, <2>5
  <2> DEFINE bytes == Content(b)
             end   == EndOfHeaders(bytes)
             content_length == IF end > 2 THEN bytes[2] ELSE 0
             total == end + content_length
  <2>11. end = e /\ content_length = l /\ total = e + l
    BY <2>8, <2>9 DEF c
  <2>12. HttpDecode(b, old) = [ok |-> FALSE, buf |-> b, msg |-> HttpRequest]
    <3>1. /\ ~ (end = 0) /\ end > 0 /\ Readable(b) < total
          /\ ~ (Readable(b) >= total)
      BY <2>10, <2>11
    <3>2. QED BY <3>1, Zenon DEF HttpDecode
  <2>13. QED BY <2>12 DEF Waits
<1>4. QED BY <1>2, <1>3

-----------------------------------------------------------------------------
(* Any of the codecs.                                                      *)

Frame(m) == Content(Encode(m, New))
Frames   == [m \in Messages |-> Frame(m)]

(* The protocols there are.                                                *)
LEMMA CodecIs ==
  ASSUME codec \in Codecs
  PROVE  codec = "rpc" \/ codec = "modbus" \/ codec = "http"
BY CodecsAssumption

(* The frame of a message is what the codec in use makes of it.            *)
LEMMA FrameIs ==
  ASSUME codec \in Codecs, NEW m \in Messages
  PROVE  /\ Frame(m) \in Seq(Bytes) /\ Len(Frame(m)) \in Nat \ {0}
         /\ codec = "rpc" => Frame(m) = RpcFrame(m)
         /\ codec = "modbus" => Frame(m) = ModbusFrame(m)
         /\ codec = "http" => Frame(m) = HttpRequestBytes(m)
<1>1. Len(m.body) \in Nat
  BY MessageCells
<1>2. CASE codec = "rpc"
  <2>1. Frame(m) = RpcFrame(m)
    BY <1>2, RpcEncodes DEF Frame, Encode
  <2>2. Len(RpcFrame(m)) \in Nat \ {0} /\ RpcFrame(m) \in Seq(Bytes)
    BY <1>1, RpcFrameCells, RpcHeaderAssumption
  <2>3. QED BY <1>2, <2>1, <2>2
<1>3. CASE codec = "modbus"
  <2>1. Frame(m) = ModbusFrame(m)
    BY <1>3, ModbusEncodes DEF Frame, Encode
  <2>2. Len(ModbusFrame(m)) \in Nat \ {0} /\ ModbusFrame(m) \in Seq(Bytes)
    BY <1>1, ModbusFrameCells, MbapAssumption
  <2>3. QED BY <1>3, <2>1, <2>2
<1>4. CASE codec = "http"
  <2>1. Frame(m) = HttpRequestBytes(m)
    BY <1>4, HttpEncodes DEF Frame, Encode
  <2>2. Len(HttpRequestBytes(m)) \in Nat \ {0} /\ HttpRequestBytes(m) \in Seq(Bytes)
    <3>1. HeadLen(m) \in {2, 3}
      BY DEF HeadLen
    <3>2. QED BY <1>1, <3>1, HttpFrameCells
  <2>3. QED BY <1>4, <2>1, <2>2
<1>5. QED BY <1>2, <1>3, <1>4, CodecIs

(* A whole frame in front: decode() returns its message and leaves the     *)
(* rest, whatever the rest looks like.                                     *)
LEMMA DecodesWhole ==
  ASSUME codec \in Codecs, NEW m \in Messages,
         NEW b, IsBuffer(b), PREPEND <= Len(b.mem), Begins(Content(b), Frame(m))
  PROVE  /\ Took(Decode(b, NewMessage), b, Len(Frame(m)))
         /\ Delivered(Decode(b, NewMessage).msg) = m
<1> DEFINE old == NewMessage
<1>1. m = [meta |-> m.meta, body |-> m.body]
  BY MessageCells
<1>2. CASE codec = "rpc"
  <2>1. Frame(m) = RpcFrame(m)
    BY <1>2, FrameIs
  <2>2. old.body = << >> /\ Decode(b, old) = RpcDecode(b, old)
    BY <1>2 DEF NewMessage, Decode
  <2> HIDE DEF old
  <2>3. /\ Took(RpcDecode(b, old), b, Len(RpcFrame(m)))
        /\ RpcDecode(b, old).msg.meta = m.meta
        /\ RpcDecode(b, old).msg.body = m.body
    BY <2>1, <2>2, RpcDecodesWhole
  <2>4. Delivered(Decode(b, old).msg) = m
    BY <1>1, <1>2, <2>2, <2>3 DEF Delivered
  <2>5. QED BY <2>1, <2>2, <2>3, <2>4 DEF old
<1>3. CASE codec = "modbus"
  <2> DEFINE f == ModbusFrame(m)
  <2>1. Frame(m) = f
    BY <1>3, FrameIs
  <2>2. Decode(b, old) = ModbusDecode(b, old)
    BY <1>3 DEF Decode
  <2> HIDE DEF old
  <2>3. Took(ModbusDecode(b, old), b, Len(f)) /\ ModbusDecode(b, old).msg = f
    BY <2>1, ModbusDecodesWhole
  <2>4. f[1] = m.meta /\ SubSeq(f, MBAP_LEN + 1, Len(f)) = m.body
    <3>1. /\ f \in Seq(Bytes) /\ Len(f) = MBAP_LEN + Len(m.body) /\ f[1] = m.meta
          /\ \A i \in 1..Len(m.body) : f[MBAP_LEN + i] = m.body[i]
      BY ModbusFrameCells
    <3>2. MBAP_LEN \in Nat /\ m.body \in Seq(Bytes) /\ Len(m.body) \in Nat
      BY MbapAssumption, MessageCells
    <3> HIDE DEF f
    <3>3. MBAP_LEN + Len(m.body) <= Len(f)
      BY <3>1, <3>2
    <3>4. SubSeq(f, MBAP_LEN + 1, MBAP_LEN + Len(m.body)) = m.body
      BY <3>1, <3>2, <3>3, SameString
    <3>5. QED BY <3>1, <3>4
  <2> HIDE DEF f
  <2>5. Delivered(Decode(b, old).msg) = m
    BY <1>1, <1>3, <2>2, <2>3, <2>4 DEF Delivered
  <2>6. QED BY <2>1, <2>2, <2>3, <2>5 DEF old
<1>4. CASE codec = "http"
  <2> DEFINE f == HttpRequestBytes(m)
  <2>1. Frame(m) = f
    BY <1>4, FrameIs
  <2>2. old.body = << >> /\ Decode(b, old) = HttpDecode(b, old)
    BY <1>4 DEF NewMessage, HttpRequest, Decode
  <2> HIDE DEF old
  <2>3. /\ Took(HttpDecode(b, old), b, Len(f))
        /\ HttpDecode(b, old).msg.meta = m.meta
        /\ HttpDecode(b, old).msg.body = m.body
    BY <2>1, <2>2, HttpDecodesWhole
  <2>4. Delivered(Decode(b, old).msg) = m
    BY <1>1, <1>4, <2>2, <2>3 DEF Delivered
  <2>5. QED BY <2>1, <2>2, <2>3, <2>4 DEF old
<1>5. QED BY <1>2, <1>3, <1>4, CodecIs

(* Nothing or a part of a frame: decode() returns false and takes nothing. *)
LEMMA DecodesPart ==
  ASSUME codec \in Codecs, NEW b, IsBuffer(b),
         \/ Readable(b) = 0
         \/ \E m \in Messages : IsPart(Content(b), Frame(m))
  PROVE  Waits(Decode(b, NewMessage), b)
<1>1. CASE codec = "rpc"
  <2>1. \A m \in Messages : Frame(m) = RpcFrame(m)
    BY <1>1, FrameIs
  <2>2. Waits(RpcDecode(b, NewMessage), b)
    BY <2>1, RpcDecodesPart
  <2>3. QED BY <1>1, <2>2 DEF Decode
<1>2. CASE codec = "modbus"
  <2>1. \A m \in Messages : Frame(m) = ModbusFrame(m)
    BY <1>2, FrameIs
  <2>2. Waits(ModbusDecode(b, NewMessage), b)
    BY <2>1, ModbusDecodesPart
  <2>3. QED BY <1>2, <2>2 DEF Decode
<1>3. CASE codec = "http"
  <2>1. \A m \in Messages : Frame(m) = HttpRequestBytes(m)
    BY <1>3, FrameIs
  <2>2. Waits(HttpDecode(b, NewMessage), b)
    BY <2>1, HttpDecodesPart
  <2>3. QED BY <1>3, <2>2 DEF Decode
<1>4. QED BY <1>1, <1>2, <1>3, CodecIs

-----------------------------------------------------------------------------
(* The inductive invariant.                                                *)

Pending == SubSeq(sent, Len(received) + 1, Len(sent))

(* What is on its way or waits are the frames of the pending messages: the *)
(* front of the input buffer is where a frame begins.                      *)
StreamIsFramed == Framed(Frames, Content(inbuf) \o wire, Pending)

ReceivedIsPrefix ==
  /\ received \in Seq(Messages) /\ Len(received) <= Len(sent)
  /\ \A i \in 1..Len(received) : received[i] = sent[i]

(* The callback returns only when no whole frame waits.                    *)
OnlyAPartWaits ==
  pc = "idle" => \/ Pending = << >>
                 \/ Readable(inbuf) < Len(Frame(Head(Pending)))

MessageIsNew == pc = "decoding" => msg = NewMessage

(* retrieve() may always put the indices behind the header room.           *)
RoomForHeader == PREPEND <= Len(inbuf.mem)

IInv ==
  /\ TypeOK
  /\ StreamIsFramed
  /\ ReceivedIsPrefix
  /\ OnlyAPartWaits
  /\ MessageIsNew
  /\ RoomForHeader

(* The frames as a function of the messages.                               *)
LEMMA FramesAreStrings ==
  ASSUME codec \in Codecs
  PROVE  /\ Frames \in [Messages -> Seq(Bytes)]
         /\ \A m \in Messages : Frames[m] = Frame(m)
BY FrameIs DEF Frames

(* The invariant holds at first ...                                        *)
LEMMA InitHolds == Init => IInv
<1> SUFFICES ASSUME Init PROVE IInv
  OBVIOUS
<1>1. /\ codec \in Codecs /\ wire = << >> /\ inbuf = New /\ msg = NewMessage
      /\ pc = "idle" /\ sent = << >> /\ received = << >>
  BY DEF Init
<1>2. << >> \in Seq(Bytes) /\ << >> \in Seq(Messages) /\ Len(<< >>) = 0
  BY EmptySeq
<1>3. TypeOK
  BY <1>1, <1>2, NewProperties DEF TypeOK
<1>4. Pending = << >>
  BY <1>1, <1>2, SubSeqEmpty DEF Pending
<1>5. StreamIsFramed
  <2>1. Content(inbuf) \o wire = << >>
    BY <1>1, <1>2, NewProperties, ConcatEmptySeq
  <2>2. QED BY <1>2, <1>4, <2>1, FramedEmpty DEF StreamIsFramed
<1>6. ReceivedIsPrefix
  BY <1>1, <1>2 DEF ReceivedIsPrefix
<1>7. OnlyAPartWaits /\ MessageIsNew
  BY <1>1, <1>4 DEF OnlyAPartWaits, MessageIsNew
<1>8. RoomForHeader
  <2>1. Len(New.mem) = INITIAL_SIZE + PREPEND
    BY NewProperties
  <2>2. QED BY <1>1, <2>1, SizesAssumption DEF RoomForHeader
<1>9. QED BY <1>3, <1>5, <1>6, <1>7, <1>8 DEF IInv

(* The lengths and types of what the invariant speaks about.               *)
LEMMA StateFacts ==
  ASSUME IInv
  PROVE  /\ codec \in Codecs /\ wire \in Seq(Bytes) /\ Len(wire) \in Nat
         /\ IsBuffer(inbuf) /\ Readable(inbuf) \in Nat
         /\ Content(inbuf) \in Seq(Bytes) /\ Len(Content(inbuf)) = Readable(inbuf)
         /\ sent \in Seq(Messages) /\ Len(sent) \in Nat
         /\ received \in Seq(Messages) /\ Len(received) \in Nat
         /\ Len(received) \in 0..Len(sent) /\ Pending \in Seq(Messages)
         /\ Content(inbuf) \o wire \in Seq(Bytes)
<1>1. /\ codec \in Codecs /\ wire \in Seq(Bytes) /\ IsBuffer(inbuf)
      /\ sent \in Seq(Messages) /\ received \in Seq(Messages)
      /\ Len(received) <= Len(sent)
  BY DEF IInv, TypeOK, ReceivedIsPrefix
<1>2. Len(wire) \in Nat /\ Len(sent) \in Nat /\ Len(received) \in Nat
  BY <1>1, LenProperties
<1>3. Content(inbuf) \in Seq(Bytes) /\ Len(Content(inbuf)) = Readable(inbuf)
  BY <1>1, ContentProperties
<1>4. Readable(inbuf) \in Nat
  BY <1>1, BufferNumbers
<1>5. Len(received) \in 0..Len(sent)
  BY <1>1, <1>2
<1>6. Pending \in Seq(Messages)
  BY <1>1, <1>5, Dropped DEF Pending
<1>7. Content(inbuf) \o wire \in Seq(Bytes)
  BY <1>1, <1>3, ConcatProperties
<1>8. QED BY <1>1, <1>2, <1>3, <1>4, <1>5, <1>6, <1>7

(* If nothing is pending, nothing waits or is on its way.                  *)
LEMMA NothingPending ==
  ASSUME IInv, Pending = << >>
  PROVE  Readable(inbuf) = 0
<1>1. Framed(Frames, Content(inbuf) \o wire, << >>)
  BY DEF IInv, StreamIsFramed
<1>2. Content(inbuf) \o wire = << >>
  BY <1>1, StateFacts, FramedEmpty
<1>3. Len(Content(inbuf) \o wire) = Len(Content(inbuf)) + Len(wire)
  BY StateFacts, ConcatProperties
<1>4. Len(Content(inbuf)) + Len(wire) = 0
  BY <1>2, <1>3, EmptySeq
<1>5. QED BY <1>4, StateFacts

-----------------------------------------------------------------------------
(* The actions.                                                            *)

(* The sender appends a message to those that are pending.                 *)
LEMMA SendKeeps ==
  ASSUME IInv, NEW m \in Messages, Send(m)
  PROVE  IInv' /\ Pending' = Append(Pending, m)
<1> DEFINE stream == Content(inbuf) \o wire
<1>1. /\ wire' = wire \o Frame(m) /\ sent' = Append(sent, m)
      /\ codec' = codec /\ inbuf' = inbuf /\ msg' = msg /\ pc' = pc
      /\ received' = received
  BY DEF Send, Frame
<1>2. Frame(m) \in Seq(Bytes) /\ Len(Frame(m)) \in Nat \ {0}
  BY StateFacts, FrameIs
<1>3. TypeOK'
  <2>1. wire' \in Seq(Bytes)
    BY <1>1, <1>2, StateFacts, ConcatProperties
  <2>2. sent' \in Seq(Messages)
    BY <1>1, StateFacts, AppendProperties
  <2>3. QED BY <1>1, <2>1, <2>2 DEF IInv, TypeOK
<1>4. Pending' = Append(Pending, m)
  BY <1>1, StateFacts, DroppedAppend DEF Pending
<1>5. Frames' = Frames /\ \A x : Frame(x)' = Frame(x)
  BY <1>1 DEF Frames, Frame, Encode
<1>6. StreamIsFramed'
  <2>1. Content(inbuf') \o wire' = stream \o Frame(m)
    <3>1. wire \in Seq(Bytes) /\ Content(inbuf) \in Seq(Bytes)
      BY StateFacts
    <3>2. (Content(inbuf) \o wire) \o Frame(m) = Content(inbuf) \o (wire \o Frame(m))
      BY <1>2, <3>1, ConcatAssociative
    <3>3. QED BY <1>1, <3>2
  <2>2. Framed(Frames, stream, Pending)
    BY DEF IInv, StreamIsFramed
  <2>3. Framed(Frames, stream \o Frames[m], Append(Pending, m))
    BY <2>2, StateFacts, FramesAreStrings, FramedAppend
  <2>4. Frames[m] = Frame(m)
    BY StateFacts, FramesAreStrings
  <2>5. QED BY <1>4, <1>5, <2>1, <2>3, <2>4 DEF StreamIsFramed
<1>7. ReceivedIsPrefix'
  <2>1. /\ Len(sent') = Len(sent) + 1
        /\ \A i \in 1..Len(sent) : sent'[i] = sent[i]
    BY <1>1, StateFacts, AppendProperties
  <2>2. \A i \in 1..Len(received) : i \in 1..Len(sent)
    BY StateFacts
  <2>3. Len(received) <= Len(sent) + 1
    BY StateFacts
  <2>4. QED BY <1>1, <2>1, <2>2, <2>3 DEF IInv, ReceivedIsPrefix
<1>8. OnlyAPartWaits'
  <2> SUFFICES ASSUME pc = "idle"
               PROVE  Readable(inbuf) < Len(Frame(Head(Append(Pending, m))))
    BY <1>1, <1>4, <1>5 DEF OnlyAPartWaits
  <2>1. CASE Pending = << >>
    <3>1. Head(Append(Pending, m)) = m
      BY <2>1
    <3>2. QED BY <1>2, <2>1, <3>1, NothingPending
  <2>2. CASE Pending # << >>
    <3>1. Head(Append(Pending, m)) = Head(Pending)
      BY <2>2, StateFacts, HeadTailAppend
    <3>2. QED BY <2>2, <3>1 DEF IInv, OnlyAPartWaits
  <2>3. QED BY <2>1, <2>2
<1>9. MessageIsNew' /\ RoomForHeader'
  BY <1>1 DEF IInv, MessageIsNew, RoomForHeader, NewMessage
<1>10. QED BY <1>3, <1>4, <1>6, <1>7, <1>8, <1>9 DEF IInv

(* handleRead() moves bytes from the wire to the end of the buffer.        *)
LEMMA HandleReadKeeps ==
  ASSUME IInv, NEW n \in 1..Len(wire), HandleRead(n)
  PROVE  IInv' /\ Pending' = Pending /\ received' = received
<1> DEFINE b == EnsureWritable(inbuf, READ_MIN)
           data == SubSeq(wire, 1, n)
           c == Content(inbuf)
<1>1. /\ n <= Len(wire) /\ n <= Writable(b)
      /\ inbuf' = Filled(b, data) /\ wire' = SubSeq(wire, n + 1, Len(wire))
      /\ msg' = NewMessage /\ pc' = "decoding"
      /\ codec' = codec /\ sent' = sent /\ received' = received
  BY DEF HandleRead
<1>2. /\ wire \in Seq(Bytes) /\ Len(wire) \in Nat /\ n \in 0..Len(wire)
      /\ c \in Seq(Bytes)
  BY StateFacts
<1>3. /\ IsBuffer(b) /\ Content(b) = c /\ Len(b.mem) >= Len(inbuf.mem)
  BY StateFacts, SizesAssumption, EnsureProperties
<1>4. /\ data \in Seq(Bytes) /\ Len(data) = n
  <2>1. \A i \in 1..n : wire[i] \in Bytes
    <3>1. \A i \in 1..n : i \in 1..Len(wire)
      BY <1>2
    <3>2. QED BY <1>2, <3>1, ElementOfSeq
  <2>2. data \in Seq(Bytes) /\ Len(data) = IF 1 <= n THEN n - 1 + 1 ELSE 0
    BY <1>2, <2>1, SubSeqProperties
  <2> HIDE DEF data
  <2>3. QED BY <1>2, <2>2
<1> HIDE DEF b, data, c
<1>5. /\ IsBuffer(inbuf') /\ Content(inbuf') = c \o data
      /\ Len((inbuf').mem) = Len(b.mem)
  BY <1>1, <1>3, <1>4, FilledProperties
<1>6. wire' \in Seq(Bytes)
  BY <1>1, <1>2, Dropped
<1>7. Content(inbuf') \o wire' = c \o wire
  <2>1. data \o wire' = wire
    <3>1. /\ 1 \in 1..Len(wire) + 1 /\ n \in 1 - 1 .. Len(wire)
          /\ Len(wire) \in n..Len(wire)
      BY <1>2
    <3>2. SubSeq(wire, 1, n) \o SubSeq(wire, n + 1, Len(wire))
            = SubSeq(wire, 1, Len(wire))
      BY <1>2, <3>1, ConcatAdjacentSubSeq
    <3>3. QED BY <1>1, <1>2, <3>2, SubSeqFull DEF data
  <2>2. (c \o data) \o wire' = c \o (data \o wire')
    <3> DEFINE rest == wire'
    <3>1. rest \in Seq(Bytes) /\ c \in Seq(Bytes) /\ data \in Seq(Bytes)
      BY <1>2, <1>4, <1>6
    <3> HIDE DEF rest
    <3>2. (c \o data) \o rest = c \o (data \o rest)
      BY <3>1, ConcatAssociative
    <3>3. QED BY <3>2 DEF rest
  <2>3. QED BY <1>5, <2>1, <2>2
<1>8. Pending' = Pending /\ Frames' = Frames
  BY <1>1 DEF Pending, Frames, Frame, Encode
<1>9. TypeOK'
  BY <1>1, <1>5, <1>6 DEF IInv, TypeOK
<1>10. StreamIsFramed'
  BY <1>7, <1>8 DEF IInv, StreamIsFramed, c
<1>11. ReceivedIsPrefix'
  BY <1>1 DEF IInv, ReceivedIsPrefix
<1>12. OnlyAPartWaits' /\ MessageIsNew'
  BY <1>1 DEF OnlyAPartWaits, MessageIsNew, NewMessage
<1>13. RoomForHeader'
  <2>1. /\ PREPEND <= Len(inbuf.mem) /\ Len(inbuf.mem) \in Nat
        /\ Len(b.mem) \in Nat /\ PREPEND \in Nat
    BY <1>3, StateFacts, BufferNumbers, SizesAssumption DEF IInv, RoomForHeader
  <2>2. QED BY <1>3, <1>5, <2>1 DEF RoomForHeader
<1>14. QED BY <1>1, <1>8, <1>9, <1>10, <1>11, <1>12, <1>13 DEF IInv

(* The front of the input buffer: nothing, a part of a frame, or a frame.  *)
LEMMA FrontOfBuffer ==
  ASSUME IInv
  PROVE  \/ Pending = << >> /\ Readable(inbuf) = 0
         \/ /\ Pending # << >> /\ Head(Pending) \in Messages
            /\ \/ /\ IsPart(Content(inbuf), Frame(Head(Pending)))
                  /\ Readable(inbuf) < Len(Frame(Head(Pending)))
               \/ Begins(Content(inbuf), Frame(Head(Pending)))
<1> DEFINE c == Content(inbuf)
           stream == c \o wire
           f == Frame(Head(Pending))
<1>1. CASE Pending = << >>
  BY <1>1, NothingPending
<1>2. CASE Pending # << >>
  <2>1. Head(Pending) \in Messages
    BY <1>2, StateFacts, HeadTailProperties
  <2>2. f \in Seq(Bytes) /\ Len(f) \in Nat /\ f = Frames[Head(Pending)]
    BY <2>1, StateFacts, FrameIs, FramesAreStrings
  <2>3. c \in Seq(Bytes) /\ Len(c) = Readable(inbuf) /\ Len(c) \in Nat
    BY StateFacts
  <2>4. \A k \in 1..Len(f) : stream[k] = f[k]
    <3>1. Framed(Frames, stream, Pending) /\ stream \in Seq(Bytes)
      BY StateFacts DEF IInv, StreamIsFramed
    <3>2. Frames \in [Messages -> Seq(Bytes)] /\ Pending \in Seq(Messages)
      BY StateFacts, FramesAreStrings
    <3> HIDE DEF stream, f
    <3>3. \A k \in 1..Len(Frames[Head(Pending)]) :
            stream[k] = Frames[Head(Pending)][k]
      BY <1>2, <3>1, <3>2, FramedFirst
    <3>4. QED BY <2>2, <3>3
  <2>5. \A k \in 1..Len(c) : stream[k] = c[k]
    <3>1. \A k \in 1..Len(c) + Len(wire) :
            stream[k] = IF k <= Len(c) THEN c[k] ELSE wire[k - Len(c)]
      BY StateFacts, ConcatProperties
    <3> HIDE DEF stream, c
    <3>2. \A k \in 1..Len(c) : k \in 1..Len(c) + Len(wire) /\ k <= Len(c)
      BY <2>3, StateFacts
    <3>3. QED BY <3>1, <3>2
  <2> HIDE DEF c, stream, f
  <2>6. CASE Len(c) < Len(f)
    <3>1. \A k \in 1..Len(c) : k \in 1..Len(f)
      BY <2>2, <2>3, <2>6
    <3>2. IsPart(c, f)
      BY <2>4, <2>5, <2>6, <3>1 DEF IsPart
    <3>3. QED BY <1>2, <2>1, <2>3, <2>6, <3>2 DEF c, f
  <2>7. CASE Len(f) <= Len(c)
    <3>1. \A k \in 1..Len(f) : k \in 1..Len(c)
      BY <2>2, <2>3, <2>7
    <3>2. Begins(c, f)
      BY <2>4, <2>5, <2>7, <3>1 DEF Begins
    <3>3. QED BY <1>2, <2>1, <3>2 DEF c, f
  <2>8. QED BY <2>2, <2>3, <2>6, <2>7
<1>3. QED BY <1>1, <1>2

(* decode() of a part: the callback returns, and nothing has changed.      *)
LEMMA DecodePartKeeps ==
  ASSUME IInv, DecodeNext,
         \/ Pending = << >> /\ Readable(inbuf) = 0
         \/ /\ Pending # << >> /\ Head(Pending) \in Messages
            /\ IsPart(Content(inbuf), Frame(Head(Pending)))
            /\ Readable(inbuf) < Len(Frame(Head(Pending)))
  PROVE  IInv' /\ Pending' = Pending /\ received' = received
<1> DEFINE result == Decode(inbuf, msg)
<1>1. msg = NewMessage
  BY DEF IInv, MessageIsNew, DecodeNext
<1>2. Waits(result, inbuf)
  BY <1>1, StateFacts, DecodesPart
<1>3. /\ inbuf' = inbuf /\ pc' = "idle" /\ received' = received
      /\ codec' = codec /\ wire' = wire /\ sent' = sent
  BY <1>2 DEF DecodeNext, Waits
<1>4. Pending' = Pending /\ Frames' = Frames /\ \A x : Frame(x)' = Frame(x)
  BY <1>3 DEF Pending, Frames, Frame, Encode
<1>5. TypeOK'
  BY <1>3 DEF IInv, TypeOK
<1>6. StreamIsFramed' /\ ReceivedIsPrefix' /\ RoomForHeader'
  BY <1>3, <1>4 DEF IInv, StreamIsFramed, ReceivedIsPrefix, RoomForHeader
<1>7. OnlyAPartWaits' /\ MessageIsNew'
  BY <1>3, <1>4 DEF OnlyAPartWaits, MessageIsNew
<1>8. QED BY <1>3, <1>4, <1>5, <1>6, <1>7 DEF IInv

(* decode() of a frame: the oldest pending message is received.            *)
LEMMA DecodeWholeKeeps ==
  ASSUME FreshMessage, IInv, DecodeNext, Pending # << >>,
         Head(Pending) \in Messages,
         Begins(Content(inbuf), Frame(Head(Pending)))
  PROVE  /\ IInv' /\ Pending' = Tail(Pending)
         /\ received' = Append(received, Head(Pending))
<1> DEFINE result == Decode(inbuf, msg)
           m == Head(Pending)
           l == Len(Frame(m))
           c == Content(inbuf)
           n == Len(received)
<1>1. msg = NewMessage /\ pc = "decoding"
  BY DEF IInv, MessageIsNew, DecodeNext
<1>2. Took(result, inbuf, l) /\ Delivered(result.msg) = m
  BY <1>1, StateFacts, DecodesWhole DEF IInv, RoomForHeader
<1>3. /\ inbuf' = result.buf /\ pc' = "decoding" /\ received' = Append(received, m)
      /\ msg' = NewMessage
      /\ codec' = codec /\ wire' = wire /\ sent' = sent
  <2> HIDE DEF m
  <2>1. result.ok /\ pc = "decoding"
    BY <1>1, <1>2 DEF Took
  <2>2. QED BY <1>2, <2>1 DEF DecodeNext
<1>4. /\ IsBuffer(inbuf') /\ Len((inbuf').mem) = Len(inbuf.mem)
      /\ Content(inbuf') = SubSeq(c, l + 1, Len(c))
  <2>1. Len(c) = Readable(inbuf)
    BY StateFacts
  <2>2. QED BY <1>2, <1>3, <2>1 DEF Took
<1>5. Frames' = Frames /\ NewMessage' = NewMessage
  BY <1>3 DEF Frames, Frame, Encode, NewMessage
<1>6. /\ n \in Nat /\ n + 1 \in 1..Len(sent) /\ m = sent[n + 1]
      /\ Tail(Pending) = SubSeq(sent, (n + 1) + 1, Len(sent))
  <2>1. n \in Nat /\ Len(sent) \in Nat /\ n <= Len(sent) /\ sent \in Seq(Messages)
    BY StateFacts
  <2>2. n # Len(sent)
    <3>1. SUFFICES ASSUME n = Len(sent) PROVE Pending = << >>
      OBVIOUS
    <3>2. Len(sent) < n + 1 /\ n + 1 \in Int /\ Len(sent) \in Int
      BY <2>1, <3>1
    <3>3. QED BY <3>2, SubSeqEmpty DEF Pending
  <2> HIDE DEF n
  <2>3. n + 1 \in 1..Len(sent) /\ Len(sent) \in n + 1 .. Len(sent)
    BY <2>1, <2>2
  <2>4. /\ Head(SubSeq(sent, n + 1, Len(sent))) = sent[n + 1]
        /\ Tail(SubSeq(sent, n + 1, Len(sent))) = SubSeq(sent, (n + 1) + 1, Len(sent))
    BY <2>1, <2>3, HeadTailOfSubSeq
  <2>5. QED BY <2>1, <2>3, <2>4 DEF Pending, n
<1>7. /\ received' \in Seq(Messages) /\ Len(received') = n + 1
      /\ \A i \in 1..n : received'[i] = received[i]
      /\ received'[n + 1] = m
  <2> DEFINE more == Append(received, m)
  <2> HIDE DEF m
  <2>1. m \in Messages /\ received \in Seq(Messages)
    BY StateFacts DEF m
  <2>2. /\ more \in Seq(Messages) /\ Len(more) = n + 1
        /\ \A i \in 1..n : more[i] = received[i]
        /\ more[n + 1] = m
    BY <2>1, AppendProperties
  <2> HIDE DEF more
  <2>3. received' = more
    BY <1>3 DEF more
  <2>4. QED BY <2>2, <2>3
<1>8. Pending' = Tail(Pending)
  BY <1>3, <1>6, <1>7 DEF Pending
<1>9. TypeOK'
  BY <1>3, <1>4 DEF IInv, TypeOK
<1>10. StreamIsFramed'
  <2> DEFINE stream == c \o wire
  <2>1. l \in 0..Len(c) /\ c \in Seq(Bytes) /\ wire \in Seq(Bytes)
    <3>1. l \in Nat /\ l <= Len(c)
      BY StateFacts, FrameIs DEF Begins
    <3>2. QED BY <3>1, StateFacts
  <2> HIDE DEF c, l, m
  <2>2. Content(inbuf') \o wire' = SubSeq(stream, l + 1, Len(stream))
    BY <1>3, <1>4, <2>1, DroppedConcat
  <2>3. /\ Framed(Frames, stream, Pending) /\ stream \in Seq(Bytes)
        /\ Frames \in [Messages -> Seq(Bytes)] /\ Pending \in Seq(Messages)
    BY StateFacts, FramesAreStrings DEF IInv, StreamIsFramed, c
  <2> HIDE DEF stream
  <2>4. Framed(Frames, SubSeq(stream, Len(Frames[m]) + 1, Len(stream)), Tail(Pending))
    BY <2>3, FramedFirst DEF m
  <2>5. Len(Frames[m]) = l
    BY StateFacts, FramesAreStrings DEF m, l
  <2>6. QED BY <1>5, <1>8, <2>2, <2>4, <2>5 DEF StreamIsFramed
<1>11. ReceivedIsPrefix'
  <2>1. \A i \in 1..n : received[i] = sent[i]
    BY DEF IInv, ReceivedIsPrefix
  <2> HIDE DEF m, n
  <2>2. n + 1 <= Len(sent)
    BY <1>6
  <2>3. \A i \in 1..(n + 1) : received'[i] = sent[i]
    <3>1. \A i \in 1..(n + 1) : i \in 1..n \/ i = n + 1
      BY <1>6
    <3>2. QED BY <1>6, <1>7, <2>1, <3>1
  <2>4. QED BY <1>3, <1>7, <2>2, <2>3 DEF ReceivedIsPrefix
<1>12. OnlyAPartWaits' /\ MessageIsNew' /\ RoomForHeader'
  BY <1>3, <1>4, <1>5 DEF IInv, OnlyAPartWaits, MessageIsNew, RoomForHeader
<1>13. QED BY <1>3, <1>8, <1>9, <1>10, <1>11, <1>12 DEF IInv

(* ... and is kept by every step.                                          *)
LEMMA StepKeeps ==
  ASSUME FreshMessage, IInv, [Next]_vars
  PROVE  IInv'
<1>1. CASE Next
  <2>1. ASSUME NEW m \in Messages, Send(m) PROVE IInv'
    BY <2>1, SendKeeps
  <2>2. ASSUME NEW n \in 1..Len(wire), HandleRead(n) PROVE IInv'
    BY <2>2, HandleReadKeeps
  <2>3. CASE DecodeNext
    BY <2>3, FrontOfBuffer, DecodePartKeeps, DecodeWholeKeeps
  <2>4. QED BY <1>1, <2>1, <2>2, <2>3 DEF Next
<1>2. CASE UNCHANGED vars
  <2>1. /\ codec' = codec /\ wire' = wire /\ inbuf' = inbuf /\ msg' = msg
        /\ pc' = pc /\ sent' = sent /\ received' = received
    BY <1>2 DEF vars
  <2>2. /\ Pending' = Pending /\ Frames' = Frames /\ NewMessage' = NewMessage
        /\ \A x : Frame(x)' = Frame(x)
    BY <2>1 DEF Pending, Frames, Frame, Encode, NewMessage
  <2>3. TypeOK' /\ RoomForHeader' /\ ReceivedIsPrefix'
    BY <2>1 DEF IInv, TypeOK, RoomForHeader, ReceivedIsPrefix
  <2>4. StreamIsFramed' /\ OnlyAPartWaits' /\ MessageIsNew'
    BY <2>1, <2>2 DEF IInv, StreamIsFramed, OnlyAPartWaits, MessageIsNew
  <2>5. QED BY <2>3, <2>4 DEF IInv
<1>3. QED BY <1>1, <1>2

(* The invariant holds in every reachable state.                           *)
LEMMA InvariantHolds ==
  ASSUME FreshMessage
  PROVE  Spec => []IInv
<1>1. IInv /\ [Next]_vars => IInv'
  BY StepKeeps
<1>2. QED BY <1>1, InitHolds, PTL DEF Spec

-----------------------------------------------------------------------------
(* The theorems. FreshMessage: the callback declares the message it        *)
(* decodes into in its loop; without it HttpReusedRequest is the           *)
(* counterexample.                                                         *)

(* The indices of the input buffer stay in order, whatever is decoded.     *)
THEOREM TypeCorrect ==
  ASSUME FreshMessage
  PROVE  Spec => []TypeOK
<1>1. IInv => TypeOK
  BY DEF IInv
<1>2. QED BY <1>1, InvariantHolds, PTL

(* When all bytes have been read and the callback has returned, every      *)
(* message that was sent has been received: none has to wait for bytes of  *)
(* a later one.                                                            *)
THEOREM NothingLeftBehindHolds ==
  ASSUME FreshMessage
  PROVE  Spec => []NothingLeftBehind
<1>1. IInv => NothingLeftBehind
  <2> SUFFICES ASSUME IInv, pc = "idle", wire = << >>
               PROVE  received = sent
    BY DEF NothingLeftBehind
  <2>1. Pending = << >>
    <3>1. SUFFICES ASSUME Pending # << >> PROVE FALSE
      OBVIOUS
    <3> DEFINE stream == Content(inbuf) \o wire
    <3>2. Framed(Frames, stream, Pending) /\ stream \in Seq(Bytes)
      BY StateFacts DEF IInv, StreamIsFramed
    <3>3. stream = Content(inbuf)
      BY StateFacts, ConcatEmptySeq
    <3>4. Len(stream) = Readable(inbuf)
      BY <3>3, StateFacts
    <3> HIDE DEF stream
    <3>5. Len(Frames[Head(Pending)]) <= Len(stream)
      BY <3>1, <3>2, StateFacts, FramesAreStrings, FramedFirst
    <3>6. Head(Pending) \in Messages
      BY <3>1, StateFacts, HeadTailProperties
    <3>7. /\ Frames[Head(Pending)] = Frame(Head(Pending))
          /\ Len(Frame(Head(Pending))) \in Nat
      BY <3>6, StateFacts, FramesAreStrings, FrameIs
    <3>8. Readable(inbuf) < Len(Frame(Head(Pending)))
      BY <3>1 DEF IInv, OnlyAPartWaits
    <3>9. QED BY <3>4, <3>5, <3>7, <3>8, StateFacts
  <2>2. Len(received) = Len(sent)
    <3>1. Len(Pending) = Len(sent) - Len(received)
      BY StateFacts, Dropped DEF Pending
    <3>2. Len(Pending) = 0
      BY <2>1, EmptySeq
    <3>3. QED BY <3>1, <3>2, StateFacts
  <2>3. \A i \in 1..Len(received) : received[i] = sent[i]
    BY DEF IInv, ReceivedIsPrefix
  <2>4. QED BY <2>2, <2>3, StateFacts, SeqEqual
<1>2. QED BY <1>1, InvariantHolds, PTL

(* The messages come out once each, whole and in order, however the stream *)
(* is cut: a codec over a stream of bytes is a queue of messages.          *)
THEOREM Refinement ==
  ASSUME FreshMessage
  PROVE  Spec => RefinesFunctorQueue
<1>1. Init => MQ!Init
  <2> SUFFICES ASSUME Init PROVE MQ!Init
    OBVIOUS
  <2>1. sent = << >> /\ received = << >> /\ Len(<< >>) = 0
    BY EmptySeq DEF Init
  <2>2. SubSeq(sent, Len(received) + 1, Len(sent)) = << >>
    BY <2>1, SubSeqEmpty
  <2>3. QED BY <2>1, <2>2 DEF MQ!Init
<1>2. ASSUME IInv, [Next]_vars PROVE [MQ!Next]_MQ!vars
  <2>1. ASSUME NEW m \in Messages, Send(m) PROVE MQ!Enqueue(m)
    <3>1. Pending' = Append(Pending, m) /\ received' = received
      BY <1>2, <2>1, SendKeeps DEF Send
    <3>2. QED BY <3>1 DEF MQ!Enqueue, Pending
  <2>2. ASSUME NEW n \in 1..Len(wire), HandleRead(n) PROVE UNCHANGED MQ!vars
    <3>1. Pending' = Pending /\ received' = received
      BY <1>2, <2>2, HandleReadKeeps
    <3>2. QED BY <3>1 DEF MQ!vars, Pending
  <2>3. ASSUME DecodeNext PROVE MQ!Execute \/ UNCHANGED MQ!vars
    <3>1. \/ Pending' = Pending /\ received' = received
          \/ /\ Pending # << >> /\ Pending' = Tail(Pending)
             /\ received' = Append(received, Head(Pending))
      BY <1>2, <2>3, FrontOfBuffer, DecodePartKeeps, DecodeWholeKeeps
    <3>2. QED BY <3>1 DEF MQ!Execute, MQ!vars, Pending
  <2>4. CASE UNCHANGED vars
    BY <2>4 DEF vars, MQ!vars
  <2>5. QED BY <1>2, <2>1, <2>2, <2>3, <2>4 DEF Next, MQ!Next
<1>3. QED BY <1>1, <1>2, InvariantHolds, PTL DEF Spec, RefinesFunctorQueue, MQ!Spec
=============================================================================
