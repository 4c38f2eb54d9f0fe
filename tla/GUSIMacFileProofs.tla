-------------------------- MODULE GUSIMacFileProofs --------------------------
(***************************************************************************)
(* An open file keeps the promises of PosixFile, for files, buffers,       *)
(* blocks and requests of any size.                                        *)
(*                                                                         *)
(* The invariant says how far the File Manager's mark is from fPosition:   *)
(* ahead of it by what has been read ahead, behind it by what has not been *)
(* written yet.  That what is in the buffers are the bytes between the two *)
(* makes the file with the output buffer laid over it the content that the *)
(* program has been promised.                                              *)
(***************************************************************************)
EXTENDS GUSIMacFile, SequenceTheorems, TLAPS

Bytes == Nat \cup {Zero, Byte}

-----------------------------------------------------------------------------
(***************************************************************************)
(* Pieces of a sequence, and sequences laid over one another.              *)
(***************************************************************************)
LEMMA Slice ==
  ASSUME NEW S, NEW f \in Seq(S), NEW m \in 1 .. Len(f) + 1,
         NEW n \in m - 1 .. Len(f)
  PROVE  /\ SubSeq(f, m, n) \in Seq(S) /\ Len(SubSeq(f, m, n)) = n - m + 1
         /\ \A i \in 1 .. n - m + 1 : SubSeq(f, m, n)[i] = f[m + i - 1]
<1>1. Len(f) \in Nat /\ m \in Int /\ n \in Int
  BY LenProperties
<1>2. \A i \in m .. n : f[i] \in S
  BY <1>1, ElementOfSeq
<1>3. QED
  BY <1>1, <1>2, SubSeqProperties

\* A piece of a piece.
LEMMA SliceOfSlice ==
  ASSUME NEW S, NEW f \in Seq(S), NEW p \in Nat, NEW q \in p .. Len(f),
         NEW j \in 0 .. q - p
  PROVE  /\ SubSeq(SubSeq(f, p + 1, q), 1, j) = SubSeq(f, p + 1, p + j)
         /\ SubSeq(SubSeq(f, p + 1, q), j + 1, Len(SubSeq(f, p + 1, q)))
              = SubSeq(f, p + j + 1, q)
<1> DEFINE s == SubSeq(f, p + 1, q)
<1>1. /\ Len(f) \in Nat /\ q \in Nat /\ j \in Nat
      /\ p <= q /\ q <= Len(f) /\ j <= q - p
  BY LenProperties
<1>2. /\ s \in Seq(S) /\ Len(s) = q - p
      /\ \A i \in 1 .. q - p : s[i] = f[p + i]
  <2>1. p + 1 \in 1 .. Len(f) + 1 /\ q \in (p + 1) - 1 .. Len(f)
    BY <1>1
  <2>2. /\ s \in Seq(S) /\ Len(s) = q - (p + 1) + 1
        /\ \A i \in 1 .. q - (p + 1) + 1 : s[i] = f[p + 1 + i - 1]
    BY <2>1, Slice
  <2> HIDE DEF s
  <2>3. QED
    BY <1>1, <2>2
<1>3. /\ SubSeq(f, p + 1, p + j) \in Seq(S) /\ Len(SubSeq(f, p + 1, p + j)) = j
      /\ \A i \in 1 .. j : SubSeq(f, p + 1, p + j)[i] = f[p + i]
  <2>1. p + 1 \in 1 .. Len(f) + 1 /\ p + j \in (p + 1) - 1 .. Len(f)
    BY <1>1
  <2>2. /\ SubSeq(f, p + 1, p + j) \in Seq(S)
        /\ Len(SubSeq(f, p + 1, p + j)) = p + j - (p + 1) + 1
        /\ \A i \in 1 .. p + j - (p + 1) + 1 :
             SubSeq(f, p + 1, p + j)[i] = f[p + 1 + i - 1]
    BY <2>1, Slice
  <2>3. p + j - (p + 1) + 1 = j /\ \A i \in 1 .. j : p + 1 + i - 1 = p + i
    BY <1>1
  <2>4. QED
    BY <2>2, <2>3
<1>4. /\ SubSeq(f, p + j + 1, q) \in Seq(S)
      /\ Len(SubSeq(f, p + j + 1, q)) = q - p - j
      /\ \A i \in 1 .. q - p - j : SubSeq(f, p + j + 1, q)[i] = f[p + j + i]
  <2>1. p + j + 1 \in 1 .. Len(f) + 1 /\ q \in (p + j + 1) - 1 .. Len(f)
    BY <1>1
  <2>2. /\ SubSeq(f, p + j + 1, q) \in Seq(S)
        /\ Len(SubSeq(f, p + j + 1, q)) = q - (p + j + 1) + 1
        /\ \A i \in 1 .. q - (p + j + 1) + 1 :
             SubSeq(f, p + j + 1, q)[i] = f[p + j + 1 + i - 1]
    BY <2>1, Slice
  <2>3. q - (p + j + 1) + 1 = q - p - j
        /\ \A i \in 1 .. q - p - j : p + j + 1 + i - 1 = p + j + i
    BY <1>1
  <2>4. QED
    BY <2>2, <2>3
<1> HIDE DEF s
<1>5. /\ SubSeq(s, 1, j) \in Seq(S) /\ Len(SubSeq(s, 1, j)) = j
      /\ \A i \in 1 .. j : SubSeq(s, 1, j)[i] = s[i]
  <2>1. 1 \in 1 .. Len(s) + 1 /\ j \in 1 - 1 .. Len(s)
    BY <1>1, <1>2
  <2>2. /\ SubSeq(s, 1, j) \in Seq(S) /\ Len(SubSeq(s, 1, j)) = j - 1 + 1
        /\ \A i \in 1 .. j - 1 + 1 : SubSeq(s, 1, j)[i] = s[1 + i - 1]
    BY <1>2, <2>1, Slice
  <2>3. j - 1 + 1 = j /\ \A i \in 1 .. j : 1 + i - 1 = i
    BY <1>1
  <2>4. QED
    BY <2>2, <2>3
<1>6. /\ SubSeq(s, j + 1, Len(s)) \in Seq(S)
      /\ Len(SubSeq(s, j + 1, Len(s))) = q - p - j
      /\ \A i \in 1 .. q - p - j : SubSeq(s, j + 1, Len(s))[i] = s[j + i]
  <2>1. j + 1 \in 1 .. Len(s) + 1 /\ Len(s) \in (j + 1) - 1 .. Len(s)
    BY <1>1, <1>2
  <2>2. /\ SubSeq(s, j + 1, Len(s)) \in Seq(S)
        /\ Len(SubSeq(s, j + 1, Len(s))) = Len(s) - (j + 1) + 1
        /\ \A i \in 1 .. Len(s) - (j + 1) + 1 :
             SubSeq(s, j + 1, Len(s))[i] = s[j + 1 + i - 1]
    BY <1>2, <2>1, Slice
  <2>3. Len(s) - (j + 1) + 1 = q - p - j
        /\ \A i \in 1 .. q - p - j : j + 1 + i - 1 = j + i
    BY <1>1, <1>2
  <2>4. QED
    BY <2>2, <2>3
<1>7. SubSeq(s, 1, j) = SubSeq(f, p + 1, p + j)
  <2>1. \A i \in 1 .. j : s[i] = f[p + i]
    BY <1>1, <1>2
  <2>2. QED
    BY <1>3, <1>5, <2>1, SeqEqual
<1>8. SubSeq(s, j + 1, Len(s)) = SubSeq(f, p + j + 1, q)
  <2>1. \A i \in 1 .. q - p - j : s[j + i] = f[p + (j + i)]
    <3>1. \A i \in 1 .. q - p - j : j + i \in 1 .. q - p
      BY <1>1
    <3>2. QED
      BY <1>2, <3>1
  <2>2. \A i \in 1 .. q - p - j : p + (j + i) = p + j + i
    BY <1>1
  <2> DEFINE x == SubSeq(s, j + 1, Len(s))
             y == SubSeq(f, p + j + 1, q)
  <2>3. x \in Seq(S) /\ y \in Seq(S) /\ Len(x) = Len(y) /\ Len(x) = q - p - j
    BY <1>4, <1>6
  <2>4. \A i \in 1 .. Len(x) : x[i] = y[i]
    <3>1. \A i \in 1 .. q - p - j : x[i] = y[i]
      BY <1>4, <1>6, <2>1, <2>2
    <3> HIDE DEF x, y
    <3>2. QED
      BY <2>3, <3>1
  <2> HIDE DEF x, y
  <2>5. x = y
    BY <2>3, <2>4, SeqEqual
  <2>6. QED
    BY <2>5 DEF x, y
<1>9. QED
  BY <1>7, <1>8 DEF s

\* s over f, from position at on.
Laid(f, at, s) == SubSeq(f, 1, at) \o s \o SubSeq(f, at + Len(s) + 1, Len(f))

LEMMA LaidProperties ==
  ASSUME NEW S, NEW f \in Seq(S), NEW s \in Seq(S), NEW at \in 0 .. Len(f)
  PROVE  /\ Laid(f, at, s) \in Seq(S)
         /\ Len(Laid(f, at, s)) = IF at + Len(s) > Len(f)
                                  THEN at + Len(s) ELSE Len(f)
         /\ \A i \in 1 .. Len(Laid(f, at, s)) :
              Laid(f, at, s)[i] = IF i > at /\ i <= at + Len(s)
                                  THEN s[i - at] ELSE f[i]
<1> DEFINE a == SubSeq(f, 1, at)
           c == SubSeq(f, at + Len(s) + 1, Len(f))
<1>1. Len(f) \in Nat /\ Len(s) \in Nat /\ at \in Nat /\ at <= Len(f)
  BY LenProperties
<1>2. a \in Seq(S) /\ Len(a) = at /\ \A i \in 1 .. at : a[i] = f[i]
  <2>1. 1 \in 1 .. Len(f) + 1 /\ at \in 1 - 1 .. Len(f)
    BY <1>1
  <2>2. /\ a \in Seq(S) /\ Len(a) = at - 1 + 1
        /\ \A i \in 1 .. at - 1 + 1 : a[i] = f[1 + i - 1]
    BY <2>1, Slice
  <2>3. at - 1 + 1 = at /\ \A i \in 1 .. at : 1 + i - 1 = i
    BY <1>1
  <2> HIDE DEF a
  <2>4. QED
    BY <2>2, <2>3
<1>3. /\ c \in Seq(S)
      /\ Len(c) = IF at + Len(s) > Len(f) THEN 0 ELSE Len(f) - at - Len(s)
      /\ \A i \in 1 .. Len(c) : c[i] = f[at + Len(s) + i]
  <2>1. \A i \in at + Len(s) + 1 .. Len(f) : f[i] \in S
    BY <1>1, ElementOfSeq
  <2>2. at + Len(s) + 1 \in Int /\ Len(f) \in Int
    BY <1>1
  <2>3. /\ c \in Seq(S)
        /\ Len(c) = IF at + Len(s) + 1 <= Len(f)
                    THEN Len(f) - (at + Len(s) + 1) + 1 ELSE 0
        /\ \A i \in 1 .. Len(f) - (at + Len(s) + 1) + 1 :
             c[i] = f[at + Len(s) + 1 + i - 1]
    BY <2>1, <2>2, SubSeqProperties
  <2> HIDE DEF c
  <2>4. \A i \in 1 .. Len(c) : /\ i \in 1 .. Len(f) - (at + Len(s) + 1) + 1
                               /\ at + Len(s) + 1 + i - 1 = at + Len(s) + i
    BY <1>1, <2>3
  <2>5. QED
    BY <1>1, <2>3, <2>4
<1> HIDE DEF a, c
<1>4. /\ a \o s \in Seq(S) /\ Len(a \o s) = at + Len(s)
      /\ \A i \in 1 .. at + Len(s) :
           (a \o s)[i] = IF i <= at THEN a[i] ELSE s[i - at]
  BY <1>2, ConcatProperties
<1>5. /\ (a \o s) \o c \in Seq(S)
      /\ Len((a \o s) \o c) = at + Len(s) + Len(c)
      /\ \A i \in 1 .. at + Len(s) + Len(c) :
           ((a \o s) \o c)[i] = IF i <= at + Len(s) THEN (a \o s)[i]
                                ELSE c[i - (at + Len(s))]
  <2> DEFINE b == a \o s
  <2> HIDE DEF b
  <2>1. b \in Seq(S) /\ Len(b) = at + Len(s)
    BY <1>4 DEF b
  <2>2. /\ b \o c \in Seq(S) /\ Len(b \o c) = Len(b) + Len(c)
        /\ \A i \in 1 .. Len(b) + Len(c) :
             (b \o c)[i] = IF i <= Len(b) THEN b[i] ELSE c[i - Len(b)]
    <3>1. c \in Seq(S) /\ b \in Seq(S)
      BY <1>3, <2>1
    <3>2. QED
      BY <3>1, ConcatProperties
  <2>3. QED
    BY <2>1, <2>2 DEF b
<1>6. Laid(f, at, s) = (a \o s) \o c
  BY DEF Laid, a, c
<1>7. Len(Laid(f, at, s)) = at + Len(s) + Len(c) /\ Len(c) \in Nat
  <2>1. Len(c) \in Nat
    <3>1. c \in Seq(S)
      BY <1>3
    <3>2. QED
      BY <3>1, LenProperties
  <2>2. Len((a \o s) \o c) = at + Len(s) + Len(c)
    BY <1>5
  <2>3. QED
    BY <1>6, <2>1, <2>2
<1>8. ASSUME NEW i \in 1 .. Len(Laid(f, at, s))
      PROVE  Laid(f, at, s)[i] = IF i > at /\ i <= at + Len(s)
                                 THEN s[i - at] ELSE f[i]
  <2>1. i \in Nat /\ Len(c) \in Nat /\ 1 <= i /\ i <= at + Len(s) + Len(c)
    BY <1>1, <1>7
  <2>2. Laid(f, at, s)[i] = IF i <= at + Len(s) THEN (a \o s)[i]
                            ELSE c[i - (at + Len(s))]
    BY <1>5, <1>6, <2>1
  <2>3. CASE i <= at
    <3>1. /\ i \in 1 .. at + Len(s) /\ i \in 1 .. at /\ i <= at + Len(s)
          /\ ~(i > at)
      BY <1>1, <2>1, <2>3
    <3>2. QED
      BY <1>2, <1>4, <2>2, <2>3, <3>1
  <2>4. CASE i > at /\ i <= at + Len(s)
    <3>1. i \in 1 .. at + Len(s) /\ ~(i <= at)
      BY <1>1, <2>1, <2>4
    <3>2. QED
      BY <1>4, <2>2, <2>4, <3>1
  <2>5. CASE i > at + Len(s)
    <3>1. /\ i - (at + Len(s)) \in 1 .. Len(c)
          /\ at + Len(s) + (i - (at + Len(s))) = i /\ ~(i <= at + Len(s))
      BY <1>1, <2>1, <2>5
    <3>2. QED
      BY <1>3, <2>2, <3>1
  <2>6. QED
    BY <1>1, <2>1, <2>3, <2>4, <2>5
<1>9. Len(Laid(f, at, s)) = IF at + Len(s) > Len(f) THEN at + Len(s) ELSE Len(f)
  <2>1. Len(c) = IF at + Len(s) > Len(f) THEN 0 ELSE Len(f) - at - Len(s)
    BY <1>3
  <2>2. CASE at + Len(s) > Len(f)
    BY <1>1, <1>7, <2>1, <2>2
  <2>3. CASE ~(at + Len(s) > Len(f))
    <3>1. Len(c) = Len(f) - at - Len(s)
      BY <2>1, <2>3
    <3>2. at + Len(s) + (Len(f) - at - Len(s)) = Len(f)
      BY <1>1
    <3>3. Len(Laid(f, at, s)) = Len(f)
      BY <1>7, <3>1, <3>2
    <3>4. QED
      BY <2>3, <3>3
  <2>4. QED
    BY <2>2, <2>3
<1>10. QED
  BY <1>5, <1>6, <1>8, <1>9

LEMMA LaidNothing ==
  ASSUME NEW S, NEW f \in Seq(S), NEW at \in 0 .. Len(f)
  PROVE  Laid(f, at, <<>>) = f
<1>1. <<>> \in Seq(S) /\ Len(<<>>) = 0 /\ Len(f) \in Nat
  BY LenProperties, EmptySeq
<1> DEFINE s == <<>>
           g == Laid(f, at, s)
<1>2. s \in Seq(S) /\ Len(s) = 0
  BY <1>1
<1> HIDE DEF s
<1>3. /\ g \in Seq(S)
      /\ Len(g) = IF at + Len(s) > Len(f) THEN at + Len(s) ELSE Len(f)
      /\ \A i \in 1 .. Len(g) :
           g[i] = IF i > at /\ i <= at + Len(s) THEN s[i - at] ELSE f[i]
  BY <1>2, LaidProperties
<1> HIDE DEF g
<1>4. Len(g) = Len(f)
  BY <1>1, <1>2, <1>3
<1>5. \A i \in 1 .. Len(g) : g[i] = f[i]
  BY <1>1, <1>2, <1>3, <1>4
<1>6. g = f
  BY <1>3, <1>4, <1>5, SeqEqual
<1>7. QED
  BY <1>6 DEF g, s

\* One after the other is both at once.
LEMMA LaidTwice ==
  ASSUME NEW S, NEW f \in Seq(S), NEW s \in Seq(S), NEW t \in Seq(S),
         NEW at \in 0 .. Len(f)
  PROVE  /\ at + Len(s) \in 0 .. Len(Laid(f, at, s))
         /\ Laid(Laid(f, at, s), at + Len(s), t) = Laid(f, at, s \o t)
<1> DEFINE g == Laid(f, at, s)
<1>1. /\ Len(f) \in Nat /\ Len(s) \in Nat /\ Len(t) \in Nat
      /\ at \in Nat /\ at <= Len(f)
  BY LenProperties
<1>2. /\ g \in Seq(S)
      /\ Len(g) = IF at + Len(s) > Len(f) THEN at + Len(s) ELSE Len(f)
      /\ \A i \in 1 .. Len(g) :
           g[i] = IF i > at /\ i <= at + Len(s) THEN s[i - at] ELSE f[i]
  BY LaidProperties
<1> HIDE DEF g
<1>3. at + Len(s) \in 0 .. Len(g)
  BY <1>1, <1>2
<1> DEFINE l == Laid(g, at + Len(s), t)
           r == Laid(f, at, s \o t)
<1>4. /\ l \in Seq(S)
      /\ Len(l) = IF at + Len(s) + Len(t) > Len(g)
                  THEN at + Len(s) + Len(t) ELSE Len(g)
      /\ \A i \in 1 .. Len(l) :
           l[i] = IF i > at + Len(s) /\ i <= at + Len(s) + Len(t)
                  THEN t[i - (at + Len(s))] ELSE g[i]
  BY <1>2, <1>3, LaidProperties
<1>5. /\ s \o t \in Seq(S) /\ Len(s \o t) = Len(s) + Len(t)
      /\ \A i \in 1 .. Len(s) + Len(t) :
           (s \o t)[i] = IF i <= Len(s) THEN s[i] ELSE t[i - Len(s)]
  BY ConcatProperties
<1>6. /\ r \in Seq(S)
      /\ Len(r) = IF at + (Len(s) + Len(t)) > Len(f)
                  THEN at + (Len(s) + Len(t)) ELSE Len(f)
      /\ \A i \in 1 .. Len(r) :
           r[i] = IF i > at /\ i <= at + (Len(s) + Len(t))
                  THEN (s \o t)[i - at] ELSE f[i]
  <2> DEFINE u == s \o t
  <2> HIDE DEF u
  <2>1. u \in Seq(S) /\ Len(u) = Len(s) + Len(t)
    BY <1>5 DEF u
  <2>2. /\ Laid(f, at, u) \in Seq(S)
        /\ Len(Laid(f, at, u)) = IF at + Len(u) > Len(f) THEN at + Len(u) ELSE Len(f)
        /\ \A i \in 1 .. Len(Laid(f, at, u)) :
             Laid(f, at, u)[i] = IF i > at /\ i <= at + Len(u)
                                 THEN u[i - at] ELSE f[i]
    BY <2>1, LaidProperties
  <2>3. QED
    BY <2>1, <2>2 DEF u
<1> HIDE DEF l, r
<1>7. Len(l) = Len(r) /\ Len(l) \in Nat
  BY <1>1, <1>2, <1>4, <1>6
<1>8. ASSUME NEW i \in 1 .. Len(l)
      PROVE  l[i] = r[i]
  <2>1. i \in Nat /\ i \in 1 .. Len(r) /\ 1 <= i
    BY <1>7
  <2>2. CASE i <= at
    <3>1. i \in 1 .. Len(g)
      BY <1>1, <1>2, <2>1, <2>2
    <3>2. l[i] = f[i]
      BY <1>1, <1>2, <1>4, <2>1, <2>2, <3>1
    <3>3. r[i] = f[i]
      <4>1. ~(i > at)
        BY <1>1, <2>1, <2>2
      <4>2. QED
        BY <1>6, <2>1, <4>1
    <3>4. QED
      BY <3>2, <3>3
  <2>3. CASE i > at /\ i <= at + Len(s)
    <3>1. i \in 1 .. Len(g) /\ i - at \in 1 .. Len(s) + Len(t) /\ i - at <= Len(s)
      BY <1>1, <1>2, <2>1, <2>3
    <3>2. l[i] = s[i - at]
      BY <1>1, <1>2, <1>4, <2>1, <2>3, <3>1
    <3>3. r[i] = (s \o t)[i - at]
      BY <1>1, <1>6, <2>1, <2>3
    <3>4. QED
      BY <1>5, <3>1, <3>2, <3>3
  <2>4. CASE i > at + Len(s) /\ i <= at + Len(s) + Len(t)
    <3>1. /\ i - at \in 1 .. Len(s) + Len(t) /\ ~(i - at <= Len(s))
          /\ i - at - Len(s) = i - (at + Len(s)) /\ i > at
          /\ i <= at + (Len(s) + Len(t))
      BY <1>1, <2>1, <2>4
    <3>2. l[i] = t[i - (at + Len(s))]
      BY <1>4, <2>4
    <3>3. r[i] = (s \o t)[i - at]
      BY <1>6, <2>1, <3>1
    <3>4. QED
      BY <1>5, <3>1, <3>2, <3>3
  <2>5. CASE i > at + Len(s) + Len(t)
    <3>1. /\ ~(i <= at + Len(s) + Len(t)) /\ ~(i <= at + (Len(s) + Len(t)))
          /\ ~(i <= at + Len(s)) /\ i \in 1 .. Len(g)
      BY <1>1, <1>2, <1>4, <2>1, <2>5
    <3>2. l[i] = f[i]
      BY <1>2, <1>4, <3>1
    <3>3. r[i] = f[i]
      BY <1>6, <2>1, <3>1
    <3>4. QED
      BY <3>2, <3>3
  <2>6. QED
    BY <1>1, <2>1, <2>2, <2>3, <2>4, <2>5
<1>9. l = r
  BY <1>4, <1>6, <1>7, <1>8, SeqEqual
<1>10. QED
  BY <1>3, <1>9 DEF g, l, r

LEMMA LaidAtEnd ==
  ASSUME NEW S, NEW f \in Seq(S), NEW s \in Seq(S)
  PROVE  Laid(f, Len(f), s) = f \o s
<1>1. Len(f) \in Nat /\ Len(s) \in Nat
  BY LenProperties
<1>2. SubSeq(f, 1, Len(f)) = f
  BY SubSeqFull
<1>3. SubSeq(f, Len(f) + Len(s) + 1, Len(f)) = <<>>
  BY <1>1, SubSeqEmpty
<1>4. (f \o s) \o <<>> = f \o s
  BY ConcatProperties, ConcatEmptySeq
<1>5. QED
  BY <1>2, <1>3, <1>4 DEF Laid

-----------------------------------------------------------------------------
(***************************************************************************)
(* The invariant.                                                          *)
(***************************************************************************)
Labels == {"idle", "syncRead", "sync", "synced", "seek", "fill", "put", "read",
           "awaitInput", "direct", "truncate"}

FileTypes ==
  /\ file \in Seq(Bytes) /\ Len(file) <= MaxLength /\ mark \in 0 .. Len(file)
  /\ mode \in {"rdonly", "wronly", "rdwr"}
  /\ fAppend \in BOOLEAN /\ fReadShutdown \in BOOLEAN /\ fWriteShutdown \in BOOLEAN
  /\ fReadAhead \in BOOLEAN /\ fBeyondEOF \in BOOLEAN /\ fAsyncError \in BOOLEAN
  /\ deferRead \in BOOLEAN /\ dropped \in BOOLEAN /\ astray \in BOOLEAN
  /\ fPosition \in Nat
  /\ input \in Seq(Bytes) /\ output \in Seq(Bytes) /\ Len(output) <= OutSize
  /\ readPB \in [state : {"idle", "ahead", "direct", "done"}, count : Nat,
                 got : Seq(Bytes), error : BOOLEAN]
  /\ writePB \in 0 .. Len(output)
  /\ pc \in Labels
  /\ op \in [name : {"none", "read", "write", "fsync", "lseek", "ftruncate"},
             to : 0 .. MaxLength, count : Nat]
  /\ rest \in 0 .. op.count

\* Which call is where.
CallPlaces ==
  /\ pc = "idle" <=> op.name = "none"
  /\ pc \in {"read", "awaitInput", "direct"} => op.name = "read"
  /\ pc \in {"fill", "put"} => op.name = "write"
  /\ pc = "synced" => op.name = "fsync"
  /\ pc = "seek" => op.name \in {"lseek", "ftruncate", "write"}
  /\ pc = "truncate" => op.name = "ftruncate"
  /\ pc = "syncRead" => op.name \in {"lseek", "ftruncate"} /\ mode = "rdonly"
  /\ op.name = "write" => mode # "rdonly" /\ pc \in {"sync", "seek", "fill", "put"}
  /\ pc = "fill" => ~fAppend
  /\ pc \in {"awaitInput", "direct"} => ~fBeyondEOF
  /\ pc \in {"fill", "put"} => ~fBeyondEOF \/ astray

\* Only a file that is only read is read ahead, and not any more when the mark
\* has been set, or is about to be.
Reading ==
  /\ mode # "rdonly" =>
       /\ fReadShutdown /\ ~fReadAhead /\ input = <<>> /\ ~deferRead
       /\ readPB.state # "ahead"
  /\ Len(input) + (IF readPB.state = "ahead" THEN readPB.count ELSE 0) <= InSize
  /\ readPB.state \in {"direct", "done"} <=> pc = "direct"
  /\ fReadAhead => /\ ~fReadShutdown /\ input = <<>> /\ ~deferRead
                   /\ readPB.state # "ahead"
  /\ deferRead => readPB = Idle
  /\ fReadShutdown /\ pc # "syncRead" => ~deferRead /\ readPB.state # "ahead"
  /\ pc = "syncRead" => fReadShutdown
  /\ pc = "direct" => input = <<>> /\ ~deferRead
  /\ \/ pc \in {"seek", "truncate"} \/ fBeyondEOF
     \/ pc = "sync" /\ op.name \in {"lseek", "ftruncate"}
     => fReadShutdown /\ input = <<>> /\ readPB.state # "ahead" /\ ~deferRead

\* The write buffer is emptied before anything but a write.
Writing ==
  /\ mode = "rdonly" => fWriteShutdown /\ output = <<>> /\ ~dropped
  /\ mode # "rdonly" => (fWriteShutdown <=> dropped)
  /\ \/ fWriteShutdown \/ (fBeyondEOF /\ ~astray)
     \/ pc \in {"read", "awaitInput", "direct", "synced", "seek", "truncate"}
     => output = <<>>

\* What has been read from the file, but not by the program.
Ahead == Len(input) + (IF readPB.state = "done" THEN Len(readPB.got) ELSE 0)

\* The mark and the position.
Positions ==
  /\ fBeyondEOF => /\ Len(file) < fPosition /\ fPosition <= MaxLength
                   /\ mark + Len(output) < fPosition
  /\ mode = "rdonly" /\ ~fBeyondEOF =>
       /\ fPosition + Ahead <= mark
       /\ fPosition + Ahead < mark => astray
  /\ mode # "rdonly" /\ ~fBeyondEOF =>
       /\ astray \/ mark + Len(output) <= fPosition + Ahead
       /\ fPosition + Ahead <= mark + OutSize
       /\ mark + Len(output) < fPosition + Ahead => dropped

\* What has been read are the bytes before the mark.
Contents ==
  /\ input = SubSeq(file, mark - Len(input) + 1, mark)
  /\ readPB.state = "done" =>
       /\ Len(readPB.got) <= mark
       /\ readPB.got = SubSeq(file, mark - Len(readPB.got) + 1, mark)

\* A write keeps to the room that it has found; while the gap before it is
\* filled, the file has no bytes behind fPosition.
Room ==
  /\ mark + Len(output) <= MaxLength
  /\ op.name = "write" /\ pc \in {"sync", "seek"} =>
       /\ op.to = fPosition /\ op.to + rest <= MaxLength
       /\ Len(file) + rest <= MaxLength /\ mark + Len(output) + rest <= MaxLength
       /\ ~fAppend => fBeyondEOF
  /\ pc = "fill" => /\ fPosition <= op.to /\ op.to + rest <= MaxLength
                    /\ mark + Len(output) <= fPosition
                    /\ ~dropped => Len(file) <= fPosition
  /\ pc = "put" => /\ fPosition + rest <= MaxLength
                   /\ mark + Len(output) + rest <= MaxLength
  /\ pc = "truncate" => fPosition = op.to

FileInv ==
  /\ FileTypes /\ CallPlaces /\ Reading /\ Writing
  /\ Positions /\ Contents /\ Room

-----------------------------------------------------------------------------
LEMMA ConstantFacts ==
  /\ InSize \in Nat /\ OutSize \in Nat /\ MaxLength \in Nat
  /\ fBlockSize \in Nat /\ fBlockSize > 0 /\ InSize >= 4 /\ OutSize >= 2
  /\ Zero \in Bytes /\ Byte \in Bytes
  /\ Start \in Seq(Bytes) /\ Len(Start) <= MaxLength /\ Len(Start) \in Nat
<1>1. Len(Start) \in Nat
  BY LenProperties, MacFileAssumption
<1>2. QED
  BY <1>1, MacFileAssumption DEF Bytes

LEMMA EmptyFacts ==
  /\ <<>> \in Seq(Bytes) /\ Len(<<>>) = 0
  /\ \A s \in Seq(Bytes) : Len(s) \in Nat /\ (Len(s) = 0 <=> s = <<>>)
<1>1. <<>> \in Seq(Bytes) /\ Len(<<>>) = 0
  BY EmptySeq
<1>2. ASSUME NEW s \in Seq(Bytes)
      PROVE  Len(s) \in Nat /\ (Len(s) = 0 <=> s = <<>>)
  BY LenProperties, EmptySeq
<1>3. QED
  BY <1>1, <1>2

LEMMA FileFacts ==
  ASSUME FileTypes
  PROVE  /\ Len(file) \in Nat /\ mark \in Nat /\ mark <= Len(file)
         /\ Len(input) \in Nat /\ Len(output) \in Nat
         /\ readPB.count \in Nat /\ readPB.got \in Seq(Bytes)
         /\ Len(readPB.got) \in Nat
         /\ op.to \in Nat /\ op.to <= MaxLength /\ op.count \in Nat
         /\ rest \in Nat /\ rest <= op.count /\ writePB \in Nat
         /\ Len(input) = 0 <=> input = <<>>
         /\ Len(output) = 0 <=> output = <<>>
         /\ Ahead \in Nat /\ Len(input) <= Ahead
<1>1. /\ Len(file) \in Nat /\ Len(input) \in Nat /\ Len(output) \in Nat
      /\ Len(readPB.got) \in Nat /\ readPB.got \in Seq(Bytes)
      /\ Len(input) = 0 <=> input = <<>>
      /\ Len(output) = 0 <=> output = <<>>
  BY EmptyFacts DEF FileTypes
<1>2. /\ readPB.count \in Nat /\ op.to \in 0 .. MaxLength /\ op.count \in Nat
      /\ rest \in 0 .. op.count /\ writePB \in 0 .. Len(output)
      /\ mark \in 0 .. Len(file)
  BY DEF FileTypes
<1>3. QED
  BY <1>1, <1>2, ConstantFacts DEF Ahead

\* Requests are cut at block boundaries.
LEMMA AlignedProperties ==
  ASSUME NEW pos \in Int, NEW n \in Nat
  PROVE  Aligned(pos, n) \in 0 .. n
<1>1. fBlockSize \in Nat /\ fBlockSize > 0
  BY ConstantFacts
<1>2. /\ pos % fBlockSize \in 0 .. fBlockSize - 1
      /\ n % fBlockSize \in 0 .. fBlockSize - 1
  BY <1>1
<1> DEFINE p == pos % fBlockSize
           q == n % fBlockSize
<1> HIDE DEF p, q
<1>3. /\ p \in 0 .. fBlockSize - 1 /\ q \in 0 .. fBlockSize - 1
      /\ Aligned(pos, n) = IF p # 0 THEN Smaller(n, fBlockSize - p)
                           ELSE IF n > fBlockSize THEN n - q ELSE n
  BY <1>2 DEF Aligned, p, q
<1>4. QED
  BY <1>1, <1>3 DEF Smaller

LEMMA StartReadProperties ==
  ASSUME NEW pos \in Nat, NEW buffered \in Seq(Bytes), Len(buffered) <= InSize,
         NEW shutdown \in BOOLEAN, StartRead(pos, buffered, shutdown)
  PROVE  /\ readPB' \in [state : {"idle", "ahead", "direct", "done"}, count : Nat,
                         got : Seq(Bytes), error : BOOLEAN]
         /\ readPB'.state \in {"idle", "ahead"}
         /\ readPB'.state = "ahead" => Len(buffered) + readPB'.count <= InSize
         /\ deferRead' \in BOOLEAN
         /\ deferRead' => readPB' = Idle /\ ~shutdown
<1> DEFINE free == InSize - Len(buffered)
           n == Smaller(free, InSize \div 2)
           count == Aligned(pos + Len(buffered), n)
<1>1. /\ Len(buffered) \in Nat /\ InSize \in Nat /\ free \in Nat
      /\ InSize \div 2 \in Nat /\ <<>> \in Seq(Bytes)
  BY EmptyFacts, ConstantFacts
<1>2. n \in Nat /\ n <= free
  BY <1>1 DEF Smaller
<1> HIDE DEF n
<1>3. count \in 0 .. n
  <2>1. pos + Len(buffered) \in Int
    BY <1>1
  <2>2. QED
    BY <1>2, <2>1, AlignedProperties
<1>4. count \in Nat /\ Len(buffered) + count <= InSize
  BY <1>1, <1>2, <1>3
<1>5. CASE free < InSize \div 4
  <2>1. deferRead' = ~shutdown /\ readPB' = Idle
    BY <1>5 DEF StartRead
  <2>2. /\ Idle \in [state : {"idle", "ahead", "direct", "done"}, count : Nat,
                     got : Seq(Bytes), error : BOOLEAN]
        /\ Idle.state = "idle"
    BY <1>1 DEF Idle
  <2>3. QED
    BY <2>1, <2>2
<1>6. CASE ~(free < InSize \div 4)
  <2>1. /\ deferRead' = FALSE
        /\ readPB' = [Idle EXCEPT !.state = "ahead", !.count = count]
    BY <1>6 DEF StartRead, n
  <2>2. readPB' = [state |-> "ahead", count |-> count, got |-> <<>>, error |-> FALSE]
    BY <2>1 DEF Idle
  <2>3. /\ readPB'.state = "ahead" /\ readPB'.count = count
        /\ readPB' \in [state : {"idle", "ahead", "direct", "done"}, count : Nat,
                        got : Seq(Bytes), error : BOOLEAN]
    <3> HIDE DEF count
    <3>1. QED
      BY <1>1, <1>4, <2>2
  <2> HIDE DEF count
  <2>4. QED
    BY <1>4, <2>1, <2>3
<1>7. QED
  BY <1>5, <1>6

-----------------------------------------------------------------------------
(***************************************************************************)
(* Steps of a call that leave the file and the buffers alone.              *)
(***************************************************************************)
Ops == [name : {"none", "read", "write", "fsync", "lseek", "ftruncate"},
        to : 0 .. MaxLength, count : Nat]

Still ==
  UNCHANGED <<file, mark, mode, fAppend, fReadShutdown, fReadAhead, input, readPB,
              deferRead, fWriteShutdown, output, writePB, dropped, fBeyondEOF,
              fPosition, astray>>

\* When a call may go on without touching anything.
MayGoOn ==
  /\ pc' \in Labels /\ op' \in Ops /\ rest' \in 0 .. op'.count
  /\ fAsyncError' \in BOOLEAN
  /\ CallPlaces' /\ Room'
  /\ pc \notin {"syncRead", "direct"} /\ pc' \notin {"syncRead", "direct"}
  /\ pc' \in {"read", "awaitInput", "synced", "seek", "truncate"} => output = <<>>
  /\ \/ pc' \in {"seek", "truncate"}
     \/ pc' = "sync" /\ op'.name \in {"lseek", "ftruncate"}
     => fReadShutdown /\ input = <<>>

LEMMA CallStep ==
  ASSUME FileInv, Still, MayGoOn
  PROVE  FileInv'
<1>1. /\ file' = file /\ mark' = mark /\ mode' = mode /\ fAppend' = fAppend
      /\ fReadShutdown' = fReadShutdown /\ fReadAhead' = fReadAhead
      /\ input' = input /\ readPB' = readPB /\ deferRead' = deferRead
      /\ fWriteShutdown' = fWriteShutdown /\ output' = output
      /\ writePB' = writePB /\ dropped' = dropped /\ fBeyondEOF' = fBeyondEOF
      /\ fPosition' = fPosition /\ astray' = astray
  BY DEF Still
<1>2. FileTypes'
  BY <1>1 DEF FileInv, FileTypes, MayGoOn, Ops
<1>3. Reading'
  BY <1>1 DEF FileInv, Reading, MayGoOn
<1>4. Writing'
  BY <1>1 DEF FileInv, Writing, MayGoOn
<1>5. Positions' /\ Contents'
  <2>1. Ahead' = Ahead
    BY <1>1 DEF Ahead
  <2>2. QED
    BY <1>1, <2>1 DEF FileInv, Positions, Contents, MayGoOn
<1>6. QED
  BY <1>2, <1>3, <1>4, <1>5 DEF FileInv, MayGoOn

LEMMA NoCallTyped == NoCall \in Ops /\ NoCall.name = "none" /\ NoCall.count = 0
BY ConstantFacts DEF NoCall, Ops

\* A call returns and leaves everything as it was.
LEMMA ReturnStep ==
  ASSUME FileInv, Still, NEW s, Return(s), fAsyncError' \in BOOLEAN,
         pc \notin {"syncRead", "direct"}
  PROVE  FileInv'
<1>1. pc' = "idle" /\ op' = NoCall /\ rest' = 0
  BY DEF Return
<1>2. op' \in Ops /\ op'.name = "none" /\ rest' \in 0 .. op'.count
  BY <1>1, NoCallTyped
<1>3. CallPlaces'
  BY <1>1, <1>2 DEF CallPlaces
<1>4. Room'
  BY <1>1, <1>2 DEF Room, FileInv, Still
<1>5. MayGoOn
  BY <1>1, <1>2, <1>3, <1>4 DEF MayGoOn, Labels
<1>6. QED
  BY <1>5, CallStep

LEMMA QuietStill == Quiet => Still /\ fAsyncError' = fAsyncError
BY DEF Quiet, Still, fileVars, readVars, writeVars

LEMMA ReturnsKeep ==
  ASSUME FileInv,
         \/ Fsync \/ WouldBlock \/ Written \/ ReadBeyond \/ ReadEmpty \/ ReadFull
         \/ SeekFails \/ TruncateFails
  PROVE  FileInv'
<1>1. fAsyncError \in BOOLEAN
  BY DEF FileInv, FileTypes
<1>2. CASE Fsync \/ WouldBlock \/ Written \/ ReadFull \/ SeekFails \/ TruncateFails
  <2>1. /\ Quiet /\ pc \in {"synced", "put", "read", "seek", "truncate"}
        /\ \E s : Return(s)
    BY <1>2 DEF Fsync, WouldBlock, Written, ReadFull, SeekFails, TruncateFails, At
  <2>2. QED
    BY <1>1, <2>1, QuietStill, ReturnStep
<1>3. CASE ReadBeyond \/ ReadEmpty
  <2>1. /\ Still /\ fAsyncError' = FALSE /\ pc = "read" /\ \E s : Return(s)
    BY <1>3 DEF ReadBeyond, ReadEmpty, At, Still, fileVars, readVars, writeVars
  <2>2. QED
    BY <2>1, ReturnStep
<1>4. QED
  BY <1>2, <1>3

LEMMA BeginReadKeeps ==
  ASSUME FileInv, (\E n \in 1 .. MaxLength : BeginRead(n)) \/ BeginFsync
  PROVE  FileInv'
<1>1. PICK n \in 0 .. MaxLength, name \in {"read", "fsync"} :
        Begin(name, n, 0, "sync") /\ Quiet
  BY ConstantFacts DEF BeginRead, BeginFsync
<1>2. /\ pc = "idle" /\ pc' = "sync" /\ rest' = n
      /\ op' = [name |-> name, to |-> 0, count |-> n]
  BY <1>1 DEF Begin, At, Goto
<1>3. /\ op' \in Ops /\ op'.name \in {"read", "fsync"} /\ rest' \in 0 .. op'.count
  BY <1>2, ConstantFacts DEF Ops
<1>4. Still /\ fAsyncError' \in BOOLEAN
  BY <1>1, QuietStill DEF FileInv, FileTypes
<1>5. CallPlaces'
  BY <1>2, <1>3 DEF CallPlaces
<1>6. Room'
  BY <1>2, <1>3, <1>4 DEF Room, FileInv, Still
<1>7. MayGoOn
  BY <1>2, <1>3, <1>4, <1>5, <1>6 DEF MayGoOn, Labels
<1>8. QED
  BY <1>4, <1>7, CallStep

LEMMA BeginWriteKeeps ==
  ASSUME FileInv, NEW n \in 1 .. MaxLength, BeginWrite(n),
         (IF fPosition > Len(file) + Len(output) THEN fPosition
          ELSE Len(file) + Len(output)) + n <= MaxLength
  PROVE  FileInv'
<1>1. Still /\ fAsyncError' = FALSE /\ pc = "idle"
  BY DEF BeginWrite, Still, fileVars, readVars, writeVars, Begin, At
<1>2. CASE fAsyncError \/ fWriteShutdown
  BY <1>1, <1>2, ReturnStep DEF BeginWrite
<1>3. CASE ~(fAsyncError \/ fWriteShutdown)
  <2>1. /\ pc' = IF fAppend \/ fBeyondEOF THEN "sync" ELSE "put"
        /\ op' = [name |-> "write", to |-> fPosition, count |-> n] /\ rest' = n
    BY <1>3 DEF BeginWrite, Begin, Goto
  <2>2. /\ Len(file) \in Nat /\ Len(output) \in Nat /\ mark \in Nat
        /\ mark <= Len(file) /\ fPosition \in Nat /\ MaxLength \in Nat /\ n \in Nat
    BY FileFacts, ConstantFacts DEF FileInv, FileTypes
  <2>3. /\ fPosition + n <= MaxLength /\ Len(file) + n <= MaxLength
        /\ mark + Len(output) + n <= MaxLength
    BY <2>2
  <2>4. /\ op' \in Ops /\ rest' \in 0 .. op'.count /\ op'.name = "write"
        /\ op'.to = fPosition
    BY <2>1, <2>2, <2>3 DEF Ops
  <2>5. mode # "rdonly"
    BY <1>3 DEF FileInv, Writing
  <2>6. CallPlaces'
    BY <1>1, <2>1, <2>4, <2>5 DEF CallPlaces, Still
  <2>7. Room'
    BY <1>1, <2>1, <2>2, <2>3, <2>4 DEF Room, FileInv, Still
  <2>8. MayGoOn
    BY <1>1, <2>1, <2>4, <2>6, <2>7 DEF MayGoOn, Labels
  <2>9. QED
    BY <1>1, <2>8, CallStep
<1>4. QED
  BY <1>2, <1>3

LEMMA SyncWriteKeeps ==
  ASSUME FileInv, SyncWrite
  PROVE  FileInv'
<1>1. /\ Still /\ fAsyncError' = fAsyncError /\ pc = "sync" /\ op' = op
      /\ rest' = rest /\ pc' = AfterSync /\ (fWriteShutdown \/ output = <<>>)
  BY QuietStill DEF SyncWrite, At, Goto
<1>2. output = <<>>
  BY <1>1 DEF FileInv, Writing
<1>3. op \in Ops /\ rest \in 0 .. op.count /\ fAsyncError \in BOOLEAN
  BY DEF FileInv, FileTypes, Ops
<1>4. /\ op.name = "fsync" => pc' = "synced"
      /\ op.name = "read" => pc' = "read"
      /\ op.name \notin {"fsync", "read"} => pc' = "seek"
      /\ op.name \in {"read", "write", "fsync", "lseek", "ftruncate"}
  BY <1>1, <1>3 DEF AfterSync, FileInv, CallPlaces, Ops
<1>5. CallPlaces'
  BY <1>1, <1>4 DEF FileInv, CallPlaces, Still
<1>6. Room'
  BY <1>1, <1>4 DEF FileInv, Room, Still
<1>7. pc' = "seek" => fReadShutdown /\ input = <<>>
  BY <1>1, <1>4 DEF FileInv, Reading, CallPlaces
<1>8. MayGoOn
  BY <1>1, <1>2, <1>3, <1>4, <1>5, <1>6, <1>7 DEF MayGoOn, Labels
<1>9. QED
  BY <1>1, <1>8, CallStep

LEMMA WaitsKeep ==
  ASSUME FileInv, Filled \/ AwaitInput \/ InputArrives
  PROVE  FileInv'
<1>1. /\ Still /\ fAsyncError' = fAsyncError /\ op' = op /\ rest' = rest
      /\ \/ pc = "fill" /\ pc' = "put" /\ fPosition >= op.to
         \/ pc = "read" /\ pc' = "awaitInput" /\ ~fBeyondEOF
         \/ pc = "awaitInput" /\ pc' = "read"
  BY QuietStill DEF Filled, AwaitInput, InputArrives, At, Goto
<1>2. op \in Ops /\ rest \in 0 .. op.count /\ fAsyncError \in BOOLEAN
  BY DEF FileInv, FileTypes, Ops
<1>3. /\ op.to \in Nat /\ rest \in Nat /\ fPosition \in Nat /\ MaxLength \in Nat
      /\ mark \in Nat /\ Len(output) \in Nat
  BY FileFacts, ConstantFacts DEF FileInv, FileTypes
<1>4. CallPlaces'
  BY <1>1 DEF FileInv, CallPlaces, Still
<1>5. Room'
  BY <1>1, <1>3 DEF FileInv, Room, CallPlaces, Still
<1>6. pc' \in {"read", "awaitInput"} => output = <<>>
  BY <1>1 DEF FileInv, Writing
<1>7. MayGoOn
  BY <1>1, <1>2, <1>4, <1>5, <1>6 DEF MayGoOn, Labels
<1>8. QED
  BY <1>1, <1>7, CallStep

LEMMA BeginSeekKeeps ==
  ASSUME FileInv, NEW name \in {"lseek", "ftruncate"}, NEW to \in 0 .. MaxLength,
         BeginSeek(name, to)
  PROVE  FileInv'
<1>1. /\ pc = "idle" /\ op' = [name |-> name, to |-> to, count |-> 0] /\ rest' = 0
      /\ UNCHANGED <<fileVars, writeVars, fBeyondEOF, fPosition, fAsyncError, astray>>
      /\ UNCHANGED <<input, readPB, deferRead>>
  BY DEF BeginSeek, Begin, At, readVars
<1>2. /\ op' \in Ops /\ op'.name \in {"lseek", "ftruncate"} /\ rest' \in 0 .. op'.count
  BY <1>1 DEF Ops
<1>3. fAsyncError \in BOOLEAN
  BY DEF FileInv, FileTypes
<1>4. Room'
  BY <1>1, <1>2 DEF FileInv, Room, BeginSeek, Begin, Goto, fileVars, writeVars
<1>5. CASE ~fReadShutdown \/ input # <<>>
  <2>1. /\ pc' = "syncRead" /\ fReadAhead' = FALSE /\ fReadShutdown' = TRUE
        /\ mode = "rdonly"
    BY <1>5 DEF BeginSeek, Begin, Goto, FileInv, Reading
  <2>2. FileTypes'
    <3>1. /\ file' = file /\ mark' = mark /\ mode' = mode /\ fAppend' = fAppend
          /\ fWriteShutdown' = fWriteShutdown /\ output' = output
          /\ writePB' = writePB /\ dropped' = dropped /\ fBeyondEOF' = fBeyondEOF
          /\ fPosition' = fPosition /\ fAsyncError' = fAsyncError
          /\ astray' = astray /\ input' = input /\ readPB' = readPB
          /\ deferRead' = deferRead
      BY <1>1 DEF fileVars, writeVars
    <3>2. /\ pc' \in Labels /\ fReadAhead' \in BOOLEAN /\ fReadShutdown' \in BOOLEAN
      BY <2>1 DEF Labels
    <3>3. QED
      BY <1>2, <3>1, <3>2 DEF FileInv, FileTypes, Ops
  <2>3. CallPlaces'
    BY <1>1, <1>2, <2>1 DEF FileInv, CallPlaces, fileVars
  <2>4. Reading'
    BY <1>1, <1>5, <2>1 DEF FileInv, Reading, fileVars
  <2>5. Writing'
    BY <1>1, <2>1 DEF FileInv, Writing, fileVars, writeVars
  <2>6. Positions' /\ Contents'
    <3>1. Ahead' = Ahead
      BY <1>1 DEF Ahead
    <3>2. QED
      BY <1>1, <2>1, <3>1 DEF FileInv, Positions, Contents, fileVars, writeVars
  <2>7. QED
    BY <1>4, <2>2, <2>3, <2>4, <2>5, <2>6 DEF FileInv
<1>6. CASE fReadShutdown /\ input = <<>>
  <2>1. pc' = "sync" /\ UNCHANGED readVars
    BY <1>6 DEF BeginSeek, Begin, Goto
  <2>2. Still
    BY <1>1, <2>1 DEF Still, fileVars, readVars, writeVars
  <2>3. CallPlaces'
    BY <1>1, <1>2, <2>1 DEF CallPlaces
  <2>4. MayGoOn
    BY <1>1, <1>2, <1>3, <1>4, <1>6, <2>1, <2>3 DEF MayGoOn, Labels
  <2>5. QED
    BY <2>2, <2>4, CallStep
<1>7. QED
  BY <1>5, <1>6 DEF FileInv, FileTypes

-----------------------------------------------------------------------------
(***************************************************************************)
(* The mark and the position are set.                                      *)
(***************************************************************************)
LEMMA EmptyContents ==
  ASSUME input' = <<>>, mark' \in Nat, readPB'.state # "done"
  PROVE  Contents'
<1>1. Len(input') = 0
  BY EmptyFacts
<1>2. ASSUME NEW f, NEW m \in Nat
      PROVE  SubSeq(f, m - 0 + 1, m) = <<>>
  <2>1. m - 0 + 1 \in Int /\ m \in Int /\ m < m - 0 + 1
    OBVIOUS
  <2>2. QED
    BY <2>1, SubSeqEmpty
<1>3. SubSeq(file', mark' - 0 + 1, mark') = <<>>
  BY <1>2
<1>4. QED
  BY <1>1, <1>3 DEF Contents

LEMMA SyncReadKeeps ==
  ASSUME FileInv, SyncRead
  PROVE  FileInv'
<1>1. /\ pc = "syncRead" /\ pc' = "seek" /\ readPB.state # "ahead"
      /\ input' = <<>> /\ deferRead' = FALSE
      /\ astray' = (astray \/ input # <<>>)
      /\ UNCHANGED <<file, mark, mode, fAppend, fReadShutdown, fReadAhead, readPB,
                     fWriteShutdown, output, writePB, dropped, op, rest,
                     fBeyondEOF, fPosition, fAsyncError>>
  BY DEF SyncRead, At, Goto, fileVars, writeVars
<1>2. /\ mode = "rdonly" /\ op.name \in {"lseek", "ftruncate"} /\ fReadShutdown
      /\ output = <<>> /\ readPB.state # "done" /\ readPB.state # "direct"
  BY <1>1 DEF FileInv, CallPlaces, Reading, Writing
<1>3. FileTypes'
  <2>1. astray' \in BOOLEAN
    BY <1>1 DEF FileInv, FileTypes
  <2>2. /\ input' \in Seq(Bytes) /\ deferRead' \in BOOLEAN /\ pc' \in Labels
    BY <1>1, EmptyFacts DEF Labels
  <2>3. QED
    BY <1>1, <2>1, <2>2 DEF FileInv, FileTypes
<1>4. CallPlaces'
  BY <1>1, <1>2 DEF FileInv, CallPlaces
<1>5. Reading'
  <2>1. /\ readPB.state = "idle" /\ ~fReadAhead /\ Len(<<>>) = 0 /\ InSize \in Nat
    BY <1>1, <1>2, ConstantFacts, EmptyFacts DEF FileInv, FileTypes, Reading
  <2>2. QED
    BY <1>1, <1>2, <2>1 DEF Reading
<1>6. Writing'
  BY <1>1, <1>2 DEF FileInv, Writing
<1>7. Positions'
  <2>1. Ahead' = 0 /\ Ahead = Len(input)
    BY <1>1, <1>2, EmptyFacts, FileFacts DEF Ahead, FileInv
  <2>2. /\ Len(input) \in Nat /\ fPosition \in Nat /\ mark \in Nat
        /\ Len(input) = 0 <=> input = <<>>
    BY FileFacts DEF FileInv, FileTypes
  <2>3. fBeyondEOF => /\ Len(file) < fPosition /\ fPosition <= MaxLength
                      /\ mark + Len(output) < fPosition
    BY DEF FileInv, Positions
  <2>4. ~fBeyondEOF => /\ fPosition + Len(input) <= mark
                       /\ fPosition + Len(input) < mark => astray
    BY <1>1, <1>2, <2>1 DEF FileInv, Positions
  <2>5. ASSUME ~fBeyondEOF
        PROVE  fPosition <= mark /\ (fPosition < mark => astray')
    <3>1. fPosition <= mark /\ (input = <<>> /\ fPosition < mark => astray)
      BY <2>2, <2>4, <2>5
    <3>2. QED
      BY <1>1, <3>1
  <2>6. fPosition + 0 = fPosition
    BY <2>2
  <2>7. QED
    BY <1>1, <1>2, <2>1, <2>2, <2>3, <2>5, <2>6 DEF Positions
<1>8. Contents'
  BY <1>1, <1>2, FileFacts, EmptyContents DEF FileInv
<1>9. Room'
  BY <1>1, <1>2 DEF FileInv, Room
<1>10. QED
  BY <1>3, <1>4, <1>5, <1>6, <1>7, <1>8, <1>9 DEF FileInv

\* What is known when a position is about to be set.
LEMMA BeforeSeek ==
  ASSUME FileInv, pc \in {"seek", "truncate"}
  PROVE  /\ output = <<>> /\ input = <<>> /\ Len(output) = 0 /\ Len(input) = 0
         /\ fReadShutdown /\ ~fReadAhead /\ ~deferRead /\ writePB = 0
         /\ readPB.state = "idle" /\ Ahead = 0
         /\ mark \in Nat /\ Len(file) \in Nat /\ mark <= Len(file)
         /\ Len(file) <= MaxLength /\ MaxLength \in Nat /\ OutSize \in Nat
         /\ fPosition \in Nat /\ op.to \in Nat /\ op.to <= MaxLength
         /\ fBeyondEOF => /\ Len(file) < fPosition /\ mark < fPosition
                          /\ fPosition <= MaxLength
         /\ mode = "rdonly" /\ ~fBeyondEOF =>
              fPosition <= mark /\ (fPosition < mark => astray)
         /\ mode # "rdonly" /\ ~fBeyondEOF =>
              /\ astray \/ mark <= fPosition
              /\ fPosition <= mark + OutSize
              /\ mark < fPosition => dropped
<1>1. /\ output = <<>> /\ input = <<>> /\ fReadShutdown /\ ~fReadAhead /\ ~deferRead
      /\ readPB.state \notin {"ahead", "direct", "done"}
  BY DEF FileInv, Writing, Reading, FileTypes
<1>2. /\ readPB.state \in {"idle", "ahead", "direct", "done"} /\ fPosition \in Nat
      /\ writePB \in 0 .. Len(output) /\ Len(file) <= MaxLength
  BY DEF FileInv, FileTypes
<1>3. /\ mark \in Nat /\ Len(file) \in Nat /\ mark <= Len(file)
      /\ op.to \in Nat /\ op.to <= MaxLength
  BY FileFacts DEF FileInv
<1>4. Len(output) = 0 /\ Len(input) = 0 /\ writePB = 0 /\ Ahead = 0
  BY <1>1, <1>2, EmptyFacts DEF Ahead
<1>5. /\ fBeyondEOF => /\ Len(file) < fPosition /\ mark < fPosition
                       /\ fPosition <= MaxLength
      /\ mode = "rdonly" /\ ~fBeyondEOF =>
           fPosition <= mark /\ (fPosition < mark => astray)
      /\ mode # "rdonly" /\ ~fBeyondEOF =>
           /\ astray \/ mark <= fPosition
           /\ fPosition <= mark + OutSize
           /\ mark < fPosition => dropped
  BY <1>2, <1>3, <1>4 DEF FileInv, Positions
<1>6. QED
  BY <1>1, <1>2, <1>3, <1>4, <1>5, ConstantFacts

\* A position that has been set.
Sought ==
  /\ fPosition' \in 0 .. MaxLength /\ mark' \in 0 .. Len(file')
  /\ file' \in Seq(Bytes) /\ Len(file') <= MaxLength
  /\ fBeyondEOF' \in BOOLEAN /\ astray' \in BOOLEAN
  /\ fBeyondEOF' => Len(file') < fPosition' /\ mark' < fPosition'
  /\ mode = "rdonly" /\ ~fBeyondEOF' =>
       fPosition' <= mark' /\ (fPosition' < mark' => astray')
  /\ mode # "rdonly" /\ ~fBeyondEOF' =>
       /\ astray' \/ mark' <= fPosition'
       /\ fPosition' <= mark' + OutSize
       /\ mark' < fPosition' => dropped

\* A seek ends the wait: the buffers are empty and nothing is under way.
LEMMA AfterSeek ==
  ASSUME FileInv, pc \in {"seek", "truncate"}, Sought,
         UNCHANGED <<mode, fAppend, readVars, writeVars, fAsyncError>>
  PROVE  /\ FileTypes' <=> pc' \in Labels /\ op' \in Ops /\ rest' \in 0 .. op'.count
         /\ pc' \in {"idle", "fill", "put", "truncate"} =>
              Reading' /\ Writing' /\ Positions' /\ Contents'
<1>1. /\ output = <<>> /\ input = <<>> /\ Len(output) = 0 /\ Len(input) = 0
      /\ fReadShutdown /\ ~fReadAhead /\ ~deferRead /\ readPB.state = "idle"
      /\ Ahead = 0
  BY BeforeSeek
<1>2. /\ UNCHANGED <<fReadShutdown, fReadAhead, input, readPB, deferRead>>
      /\ UNCHANGED <<fWriteShutdown, output, writePB, dropped, mode, fAppend,
                     fAsyncError>>
  BY DEF readVars, writeVars
<1>3. /\ fPosition' \in Nat /\ fPosition' <= MaxLength /\ mark' \in Nat /\ MaxLength \in Nat
      /\ OutSize \in Nat
  BY ConstantFacts, LenProperties DEF Sought
<1>4. FileTypes' <=> pc' \in Labels /\ op' \in Ops /\ rest' \in 0 .. op'.count
  BY <1>2, <1>3 DEF FileInv, FileTypes, Ops, Sought
<1>5. ASSUME pc' \in {"idle", "fill", "put", "truncate"}
      PROVE  Reading' /\ Writing' /\ Positions' /\ Contents'
  <2>1. Reading'
    BY <1>1, <1>2, <1>5, ConstantFacts, EmptyFacts DEF FileInv, Reading, Sought
  <2>2. Writing'
    BY <1>1, <1>2, <1>5 DEF FileInv, Writing
  <2>3. Ahead' = 0
    BY <1>1, <1>2 DEF Ahead
  <2>4. Positions'
    <3>1. Len(output') = 0 /\ mode' = mode /\ dropped' = dropped
      BY <1>1, <1>2
    <3>2. fPosition' + 0 = fPosition' /\ mark' + 0 = mark'
      <4>1. \A n \in Nat : n + 0 = n
        OBVIOUS
      <4>2. QED
        BY <1>3, <4>1, Zenon
    <3>3. QED
      BY <1>3, <2>3, <3>1, <3>2 DEF Positions, Sought
  <2>5. Contents'
    BY <1>1, <1>2, <1>3, EmptyContents
  <2>6. QED
    BY <2>1, <2>2, <2>4, <2>5
<1>6. QED
  BY <1>4, <1>5

\* The mark is where the position is.
LEMMA SoughtAt ==
  ASSUME NEW n \in 0 .. MaxLength, fPosition' = n, mark' = n, n \in 0 .. Len(file'),
         file' \in Seq(Bytes), Len(file') <= MaxLength, fBeyondEOF' = FALSE,
         astray' \in BOOLEAN
  PROVE  Sought
<1>1. n <= n /\ ~(n < n) /\ n <= n + OutSize
  BY ConstantFacts
<1>2. /\ mark' <= fPosition' /\ fPosition' <= mark' + OutSize
      /\ ~(mark' < fPosition') /\ ~(fPosition' < mark') /\ fPosition' <= mark'
  BY <1>1
<1>3. QED
  BY <1>2 DEF Sought

\* The room that a set mark leaves.
LEMMA SoughtRoom ==
  ASSUME FileInv, pc \in {"seek", "truncate"}, Sought, output' = output
  PROVE  mark' + Len(output') <= MaxLength
<1>1. Len(output) = 0
  BY BeforeSeek
<1>2. Len(file') \in Nat /\ Len(file') <= MaxLength /\ mark' \in 0 .. Len(file')
  BY LenProperties DEF Sought
<1>3. MaxLength \in Nat
  BY ConstantFacts
<1>4. ASSUME NEW m, NEW l \in Nat, m \in 0 .. l, l <= MaxLength
      PROVE  m + 0 <= MaxLength
  BY <1>3, <1>4
<1>5. mark' + 0 <= MaxLength
  BY <1>2, <1>4
<1>6. QED
  BY <1>1, <1>5

LEMMA SeekSeeks ==
  ASSUME FileInv, pc \in {"seek", "truncate"}, NEW to \in 0 .. MaxLength, Seek(to),
         file' = file
  PROVE  Sought
<1>1. /\ file \in Seq(Bytes) /\ Len(file) <= MaxLength
      /\ fBeyondEOF \in BOOLEAN /\ astray \in BOOLEAN /\ mark \in 0 .. Len(file)
  BY DEF FileInv, FileTypes
<1>2. /\ fPosition' = to /\ to \in Nat /\ Len(file) \in Nat /\ OutSize \in Nat
      /\ mark \in Nat /\ mark <= Len(file)
  BY BeforeSeek DEF Seek
<1>3. CASE to = fPosition
  <2>1. mark' = mark /\ fBeyondEOF' = fBeyondEOF /\ astray' = astray
    BY <1>3 DEF Seek
  <2>2. /\ fBeyondEOF => Len(file) < fPosition /\ mark < fPosition
        /\ mode = "rdonly" /\ ~fBeyondEOF =>
             fPosition <= mark /\ (fPosition < mark => astray)
        /\ mode # "rdonly" /\ ~fBeyondEOF =>
             /\ astray \/ mark <= fPosition
             /\ fPosition <= mark + OutSize
             /\ mark < fPosition => dropped
    BY BeforeSeek
  <2>3. QED
    BY <1>1, <1>2, <1>3, <2>1, <2>2 DEF Sought
<1>4. CASE to # fPosition
  <2>1. /\ fBeyondEOF' = (to > Len(file)) /\ astray' = FALSE
        /\ mark' = IF to > Len(file) THEN mark ELSE to
    BY <1>4 DEF Seek
  <2>2. CASE to > Len(file)
    <3>1. mark < to
      BY <1>2, <2>2
    <3>2. QED
      BY <1>1, <1>2, <2>1, <2>2, <3>1 DEF Sought
  <2>3. CASE ~(to > Len(file))
    <3>1. mark' = to
      BY <2>1, <2>3
    <3>2. fBeyondEOF' = FALSE
      <4>1. (to > Len(file)) = FALSE
        BY <2>3
      <4>2. QED
        BY <2>1, <4>1
    <3>3. to \in 0 .. Len(file)
      BY <1>2, <2>3
    <3>4. QED
      BY <1>1, <1>2, <2>1, <3>1, <3>2, <3>3, SoughtAt
  <2>4. QED
    BY <2>2, <2>3
<1>5. QED
  BY <1>3, <1>4

\* What follows when a position has been set and the call returns.
LEMMA SoughtReturns ==
  ASSUME FileInv, pc \in {"seek", "truncate"}, Sought, NEW s, Return(s),
         UNCHANGED <<mode, fAppend, readVars, writeVars, fAsyncError>>
  PROVE  FileInv'
<1>1. pc' = "idle" /\ op' = NoCall /\ rest' = 0
  BY DEF Return
<1>2. pc' \in Labels /\ op' \in Ops /\ rest' \in 0 .. op'.count
  BY <1>1, NoCallTyped DEF Labels
<1>3. FileTypes' /\ Reading' /\ Writing' /\ Positions' /\ Contents'
  BY <1>1, <1>2, AfterSeek
<1>4. CallPlaces'
  BY <1>1, NoCallTyped DEF CallPlaces
<1>5. Room'
  <2>1. mark' + Len(output') <= MaxLength
    BY SoughtRoom DEF writeVars
  <2>2. QED
    BY <1>1, <2>1, NoCallTyped DEF Room
<1>6. QED
  BY <1>3, <1>4, <1>5 DEF FileInv

LEMMA LseekKeeps ==
  ASSUME FileInv, Lseek
  PROVE  FileInv'
<1>1. /\ pc = "seek" /\ Seek(op.to) /\ Return("ok") /\ file' = file
      /\ UNCHANGED <<mode, fAppend, readVars, writeVars, fAsyncError>>
  BY DEF Lseek, At
<1>2. op.to \in 0 .. MaxLength
  BY DEF FileInv, FileTypes
<1>3. Sought
  BY <1>1, <1>2, SeekSeeks
<1>4. QED
  BY <1>1, <1>3, SoughtReturns

LEMMA SeekEndKeeps ==
  ASSUME FileInv, SeekEnd
  PROVE  FileInv'
<1>1. /\ pc = "seek" /\ op.name = "write" /\ Seek(Len(file)) /\ file' = file
      /\ pc' = (IF fAppend THEN "put" ELSE "fill") /\ op' = op /\ rest' = rest
      /\ UNCHANGED <<mode, fAppend, readVars, writeVars, fAsyncError>>
  BY DEF SeekEnd, At, Goto
<1>2. /\ mode # "rdonly" /\ op \in Ops /\ rest \in 0 .. op.count
      /\ fAppend \in BOOLEAN
  BY <1>1 DEF FileInv, CallPlaces, FileTypes, Ops
<1>3. Len(file) \in 0 .. MaxLength /\ Len(file) \in Nat
  BY <1>1, BeforeSeek
<1>4. Sought
  BY <1>1, <1>2, <1>3, SeekSeeks
<1>5. fPosition' = Len(file) /\ fBeyondEOF' = FALSE
  <2>1. fPosition' = Len(file)
    BY <1>1 DEF Seek
  <2>2. CASE Len(file) = fPosition
    <3>1. ~fBeyondEOF
      BY <1>1, <2>2, BeforeSeek
    <3>2. fBeyondEOF = FALSE /\ fBeyondEOF' = fBeyondEOF
      BY <1>1, <2>2, <3>1 DEF Seek, FileInv, FileTypes
    <3>3. QED
      BY <2>1, <3>2
  <2>3. CASE Len(file) # fPosition
    <3>1. fBeyondEOF' = (Len(file) > Len(file))
      BY <1>1, <2>3 DEF Seek
    <3>2. (Len(file) > Len(file)) = FALSE
      BY <1>3
    <3>3. QED
      BY <2>1, <3>1, <3>2
  <2>4. QED
    BY <2>2, <2>3
<1>6. pc' \in {"put", "fill"} /\ (pc' = "fill" <=> ~fAppend)
  BY <1>1, <1>2
<1>7. pc' \in Labels /\ op' \in Ops /\ rest' \in 0 .. op'.count
  BY <1>1, <1>2, <1>6 DEF Labels
<1>8. FileTypes' /\ Reading' /\ Writing' /\ Positions' /\ Contents'
  BY <1>1, <1>4, <1>6, <1>7, AfterSeek
<1>9. fAppend' = fAppend /\ mode' = mode /\ output' = output
  BY <1>1 DEF writeVars
<1>10. CallPlaces'
  BY <1>1, <1>2, <1>5, <1>6, <1>9 DEF CallPlaces
<1>11. Room'
  <2>1. /\ op.to = fPosition /\ op.to + rest <= MaxLength
        /\ Len(file) + rest <= MaxLength /\ (~fAppend => fBeyondEOF)
    BY <1>1 DEF FileInv, Room
  <2>2. ~fAppend => Len(file) <= op.to
    BY <1>1, <1>3, <2>1, BeforeSeek
  <2>3. Len(file) <= Len(file)
    BY <1>3
  <2>4. mark' + Len(output') <= MaxLength
    BY <1>1, <1>4, <1>9, SoughtRoom
  <2>5. /\ mark' \in Nat /\ mark' <= Len(file) /\ Len(output') = 0 /\ rest \in Nat
        /\ MaxLength \in Nat
    BY <1>1, <1>3, <1>4, <1>9, BeforeSeek, FileFacts DEF Sought, FileInv
  <2>6. /\ mark' + Len(output') <= Len(file)
        /\ mark' + Len(output') + rest <= MaxLength
    <3>1. ASSUME NEW m \in Nat, NEW l \in Nat, m <= l, l + rest <= MaxLength
          PROVE  m + 0 <= l /\ m + 0 + rest <= MaxLength
      BY <2>5, <3>1
    <3>2. mark' + 0 <= Len(file) /\ mark' + 0 + rest <= MaxLength
      BY <1>3, <2>1, <2>5, <3>1
    <3>3. QED
      BY <2>5, <3>2
  <2>7. QED
    BY <1>1, <1>5, <1>6, <2>1, <2>2, <2>3, <2>4, <2>6 DEF Room
<1>12. QED
  BY <1>8, <1>10, <1>11 DEF FileInv

LEMMA FunctionIsSeq ==
  ASSUME NEW S, NEW n \in Nat, NEW f \in [1 .. n -> S]
  PROVE  f \in Seq(S) /\ Len(f) = n
<1>1. f \in Seq(S)
  BY SeqDef
<1>2. Len(f) \in Nat /\ DOMAIN f = 1 .. Len(f) /\ DOMAIN f = 1 .. n
  BY <1>1, LenProperties
<1> DEFINE m == Len(f)
<1> HIDE DEF m
<1>3. m \in Nat /\ 1 .. m = 1 .. n
  BY <1>2 DEF m
<1>4. m = n
  <2>1. CASE m < n
    <3>1. n \in 1 .. n /\ n \notin 1 .. m
      BY <1>3, <2>1
    <3>2. QED
      BY <1>3, <3>1
  <2>2. CASE n < m
    <3>1. m \in 1 .. m /\ m \notin 1 .. n
      BY <1>3, <2>2
    <3>2. QED
      BY <1>3, <3>1
  <2>3. QED
    BY <1>3, <2>1, <2>2
<1>5. QED
  BY <1>1, <1>4 DEF m

LEMMA ResizedProperties ==
  ASSUME NEW f \in Seq(Bytes), NEW n \in Nat
  PROVE  /\ Resized(f, n) \in Seq(Bytes) /\ Len(Resized(f, n)) = n
         /\ \A i \in 1 .. n :
              Resized(f, n)[i] = IF i <= Len(f) THEN f[i] ELSE Zero
<1>1. \A i \in 1 .. n : (IF i <= Len(f) THEN f[i] ELSE Zero) \in Bytes
  <2>1. Len(f) \in Nat /\ \A i \in 1 .. Len(f) : f[i] \in Bytes
    BY LenProperties, ElementOfSeq
  <2>2. ASSUME NEW i \in 1 .. n
        PROVE  (IF i <= Len(f) THEN f[i] ELSE Zero) \in Bytes
    <3>1. CASE i <= Len(f)
      <4>1. i \in 1 .. Len(f)
        BY <2>1, <3>1
      <4>2. QED
        BY <2>1, <3>1, <4>1
    <3>2. CASE ~(i <= Len(f))
      BY <3>2, ConstantFacts
    <3>3. QED
      BY <3>1, <3>2
  <2>3. QED
    BY <2>2
<1>2. Resized(f, n) \in [1 .. n -> Bytes]
  BY <1>1 DEF Resized
<1>3. QED
  BY <1>2, FunctionIsSeq DEF Resized

LEMMA SeekEndFailsKeeps ==
  ASSUME FileInv, SeekEndFails
  PROVE  FileInv'
<1>1. /\ pc = "seek" /\ op.name = "write" /\ op' = op /\ rest' = rest
      /\ pc' = (IF fAppend THEN "put" ELSE "fill")
      /\ astray' = (astray \/ fBeyondEOF)
      /\ UNCHANGED <<file, mark, mode, fAppend, fReadShutdown, fReadAhead, input,
                     readPB, deferRead, fWriteShutdown, output, writePB, dropped,
                     fBeyondEOF, fPosition, fAsyncError>>
  BY DEF SeekEndFails, At, Goto, fileVars, readVars, writeVars
<1>2. /\ mode # "rdonly" /\ op \in Ops /\ rest \in 0 .. op.count
      /\ fAppend \in BOOLEAN /\ astray' \in BOOLEAN
  BY <1>1 DEF FileInv, CallPlaces, FileTypes, Ops
<1>3. pc' \in {"put", "fill"} /\ (pc' = "fill" <=> ~fAppend) /\ pc' \in Labels
  BY <1>1, <1>2 DEF Labels
<1>4. FileTypes'
  BY <1>1, <1>2, <1>3 DEF FileInv, FileTypes, Ops
<1>5. CallPlaces'
  BY <1>1, <1>2, <1>3 DEF CallPlaces
<1>6. Reading'
  BY <1>1, <1>3 DEF FileInv, Reading
<1>7. Writing'
  BY <1>1, <1>3 DEF FileInv, Writing
<1>8. Positions'
  <2>1. Ahead' = Ahead
    BY <1>1 DEF Ahead
  <2>2. QED
    BY <1>1, <1>2, <2>1 DEF FileInv, Positions
<1>9. Contents'
  BY <1>1 DEF FileInv, Contents
<1>10. Room'
  <2>1. /\ op.to = fPosition /\ op.to + rest <= MaxLength
        /\ mark + Len(output) + rest <= MaxLength
        /\ mark + Len(output) <= MaxLength /\ (~fAppend => fBeyondEOF)
    BY <1>1 DEF FileInv, Room
  <2>2. fPosition \in Nat /\ mark \in Nat /\ Len(file) \in Nat
    BY FileFacts DEF FileInv, FileTypes
  <2>3. ~fAppend => Len(file) <= fPosition /\ mark + Len(output) <= fPosition
    BY <2>1, <2>2, FileFacts DEF FileInv, Positions
  <2>4. fPosition <= op.to
    BY <2>1, <2>2
  <2>5. QED
    BY <1>1, <1>3, <2>1, <2>3, <2>4 DEF Room
<1>11. QED
  BY <1>4, <1>5, <1>6, <1>7, <1>8, <1>9, <1>10 DEF FileInv

LEMMA FtruncateKeeps ==
  ASSUME FileInv, Ftruncate
  PROVE  FileInv'
<1>1. /\ pc = "seek" /\ op.name = "ftruncate" /\ Seek(op.to) /\ file' = file
      /\ pc' = "truncate" /\ op' = op /\ rest' = rest
      /\ UNCHANGED <<mode, fAppend, readVars, writeVars, fAsyncError>>
  BY DEF Ftruncate, At, Goto
<1>2. /\ op.to \in 0 .. MaxLength /\ op \in Ops /\ rest \in 0 .. op.count
  BY DEF FileInv, FileTypes, Ops
<1>3. Sought
  BY <1>1, <1>2, SeekSeeks
<1>4. pc' \in Labels /\ op' \in Ops /\ rest' \in 0 .. op'.count
  BY <1>1, <1>2 DEF Labels
<1>5. FileTypes' /\ Reading' /\ Writing' /\ Positions' /\ Contents'
  BY <1>1, <1>3, <1>4, AfterSeek
<1>6. CallPlaces'
  BY <1>1 DEF CallPlaces
<1>7. Room'
  <2>1. mark' + Len(output') <= MaxLength
    BY <1>1, <1>3, SoughtRoom DEF writeVars
  <2>2. fPosition' = op.to
    BY <1>1 DEF Seek
  <2>3. QED
    BY <1>1, <2>1, <2>2 DEF Room
<1>8. QED
  BY <1>5, <1>6, <1>7 DEF FileInv

LEMMA TruncateAtEndKeeps ==
  ASSUME FileInv, TruncateAtEnd
  PROVE  FileInv'
<1>1. /\ pc = "truncate" /\ Seek(Len(file)) /\ file' = file /\ Return("ok")
      /\ UNCHANGED <<mode, fAppend, readVars, writeVars, fAsyncError>>
  BY DEF TruncateAtEnd, At
<1>2. Len(file) \in 0 .. MaxLength
  BY <1>1, BeforeSeek
<1>3. Sought
  BY <1>1, <1>2, SeekSeeks
<1>4. QED
  BY <1>1, <1>3, SoughtReturns

LEMMA SetEOFKeeps ==
  ASSUME FileInv, SetEOF
  PROVE  FileInv'
<1>1. /\ pc = "truncate" /\ ~fBeyondEOF /\ mode # "rdonly" /\ Return("ok")
      /\ file' = Resized(file, fPosition) /\ mark' = Smaller(mark, fPosition)
      /\ UNCHANGED <<mode, fAppend, readVars, writeVars, fBeyondEOF, fPosition,
                     fAsyncError, astray>>
  BY DEF SetEOF, At
<1>2. /\ fPosition \in Nat /\ fPosition = op.to /\ op.to <= MaxLength
      /\ mark \in Nat /\ OutSize \in Nat /\ MaxLength \in Nat
      /\ astray \/ mark <= fPosition
      /\ fPosition <= mark + OutSize /\ (mark < fPosition => dropped)
  BY <1>1, BeforeSeek DEF FileInv, Room
<1>3. file \in Seq(Bytes) /\ fBeyondEOF = FALSE /\ astray \in BOOLEAN
  BY <1>1 DEF FileInv, FileTypes
<1>4. file' \in Seq(Bytes) /\ Len(file') = fPosition
  BY <1>1, <1>2, <1>3, ResizedProperties
<1>5. Sought
  <2>1. CASE mark <= fPosition
    <3>1. mark' = mark
      BY <1>1, <1>2, <2>1 DEF Smaller
    <3>2. mark \in 0 .. fPosition /\ fPosition \in 0 .. MaxLength
      BY <1>2, <2>1
    <3>3. fPosition' = fPosition /\ fBeyondEOF' = FALSE /\ astray' = astray
      BY <1>1, <1>3
    <3>4. QED
      BY <1>1, <1>2, <1>3, <1>4, <2>1, <3>1, <3>2, <3>3 DEF Sought
  <2>2. CASE ~(mark <= fPosition)
    <3>1. mark' = fPosition
      BY <1>1, <1>2, <2>2 DEF Smaller
    <3>2. fPosition \in 0 .. MaxLength /\ fPosition \in 0 .. Len(file')
      BY <1>2, <1>4
    <3>3. /\ fPosition' = fPosition /\ fBeyondEOF' = FALSE /\ astray' \in BOOLEAN
          /\ Len(file') <= MaxLength
      BY <1>1, <1>2, <1>3, <1>4
    <3>4. QED
      BY <1>4, <3>1, <3>2, <3>3, SoughtAt
  <2>3. QED
    BY <2>1, <2>2
<1>6. QED
  BY <1>1, <1>5, SoughtReturns

-----------------------------------------------------------------------------
(***************************************************************************)
(* The program writes.                                                     *)
(***************************************************************************)
LEMMA StartWriteProperties ==
  ASSUME NEW pos \in Nat, NEW s \in Seq(Bytes), StartWrite(pos, s)
  PROVE  writePB' \in 0 .. Len(s)
<1>1. /\ Len(s) \in Nat /\ (s = <<>> => Len(s) = 0)
      /\ OutSize \in Nat /\ OutSize \div 2 \in Nat
  BY EmptyFacts, ConstantFacts
<1>2. CASE s = <<>>
  <2>1. writePB' = 0
    BY <1>2 DEF StartWrite
  <2>2. QED
    BY <1>1, <2>1
<1>3. CASE s # <<>>
  <2> DEFINE n == Smaller(Len(s), OutSize \div 2)
  <2>1. writePB' = Aligned(pos - Len(s), n)
    BY <1>3 DEF StartWrite
  <2>2. n \in Nat /\ n <= Len(s)
    BY <1>1 DEF Smaller
  <2> HIDE DEF n
  <2>3. pos - Len(s) \in Int
    BY <1>1
  <2>4. writePB' \in 0 .. n
    BY <2>1, <2>2, <2>3, AlignedProperties
  <2>5. \A k \in 0 .. n : k \in 0 .. Len(s)
    BY <1>1, <2>2
  <2>6. QED
    BY <2>4, <2>5
<1>4. QED
  BY <1>2, <1>3

LEMMA Repeated ==
  ASSUME NEW b \in Bytes, NEW n \in Nat
  PROVE  [i \in 1 .. n |-> b] \in Seq(Bytes) /\ Len([i \in 1 .. n |-> b]) = n
<1>1. [i \in 1 .. n |-> b] \in [1 .. n -> Bytes]
  OBVIOUS
<1>2. QED
  BY <1>1, FunctionIsSeq

LEMMA PutKeeps ==
  ASSUME FileInv, pc \in {"fill", "put"}, ~fWriteShutdown,
         NEW bytes \in Seq(Bytes), NEW n \in Nat, Len(bytes) = n,
         n <= OutSize - Len(output), Put(bytes, fPosition + n),
         UNCHANGED <<file, mark, mode, fAppend, fReadShutdown, fReadAhead, input,
                     readPB, deferRead, fBeyondEOF, fAsyncError, astray, pc, op>>,
         rest' \in Nat, rest' <= rest,
         pc = "fill" => n <= op.to - fPosition /\ rest' = rest,
         pc = "put" => rest' + n = rest
  PROVE  FileInv'
<1>1. /\ Len(file) \in Nat /\ mark \in Nat /\ Len(output) \in Nat /\ OutSize \in Nat
      /\ op.to \in Nat /\ op.to <= MaxLength /\ rest \in Nat /\ rest <= op.count
      /\ fPosition \in Nat /\ MaxLength \in Nat /\ op.count \in Nat
      /\ output \in Seq(Bytes) /\ writePB \in 0 .. Len(output)
  BY FileFacts, ConstantFacts DEF FileInv, FileTypes
<1>2. /\ mode # "rdonly" /\ op.name = "write" /\ (~fBeyondEOF \/ astray)
      /\ input = <<>> /\ readPB.state \notin {"direct", "done"} /\ ~dropped
      /\ pc = "fill" => ~fAppend
  BY DEF FileInv, CallPlaces, Reading, Writing
<1>3. /\ fPosition' = fPosition + n /\ output' = output \o bytes
      /\ fWriteShutdown' = fWriteShutdown /\ dropped' = dropped
  BY DEF Put
<1>4. output' \in Seq(Bytes) /\ Len(output') = Len(output) + n
  BY <1>1, <1>3, ConcatProperties
<1>5. Len(output') <= OutSize /\ Len(output) <= Len(output')
  BY <1>1, <1>4
<1>6. writePB' \in 0 .. Len(output')
  <2>1. CASE writePB = 0
    <3>1. StartWrite(fPosition + n, output \o bytes)
      BY <2>1 DEF Put
    <3>2. fPosition + n \in Nat /\ output \o bytes \in Seq(Bytes)
      BY <1>1, <1>3, <1>4
    <3>3. writePB' \in 0 .. Len(output \o bytes)
      BY <3>1, <3>2, StartWriteProperties
    <3>4. QED
      BY <1>3, <3>3
  <2>2. CASE writePB # 0
    <3>1. writePB' = writePB
      BY <2>2 DEF Put
    <3>2. QED
      BY <1>1, <1>4, <3>1
  <2>3. QED
    BY <2>1, <2>2
<1>7. Ahead = 0 /\ Ahead' = 0
  BY <1>2, EmptyFacts DEF Ahead
<1> DEFINE len == Len(output)
<1>8. /\ len \in Nat /\ len + n <= OutSize /\ Len(output') = len + n
      /\ fBeyondEOF => Len(file) < fPosition /\ mark + len < fPosition
      /\ ~fBeyondEOF => /\ astray \/ mark + len <= fPosition
                        /\ ~(mark + len < fPosition)
  <2>1. fPosition + 0 = fPosition
    BY <1>1
  <2>2. QED
    BY <1>1, <1>2, <1>4, <1>5, <1>7, <2>1 DEF FileInv, Positions
<1>9. /\ pc = "fill" => /\ fPosition + n <= op.to /\ op.to + rest <= MaxLength
                        /\ mark + len <= fPosition /\ Len(file) <= fPosition
      /\ pc = "put" => /\ fPosition + rest <= MaxLength /\ rest' + n = rest
                       /\ mark + len + rest <= MaxLength
  <2>1. CASE pc = "fill"
    <3>1. fPosition <= op.to /\ n <= op.to - fPosition
      BY <2>1 DEF FileInv, Room
    <3>2. fPosition + n <= op.to
      BY <1>1, <3>1
    <3>3. QED
      BY <1>2, <2>1, <3>2 DEF FileInv, Room
  <2>2. CASE pc = "put"
    BY <2>2 DEF FileInv, Room
  <2>3. QED
    BY <2>1, <2>2
<1> HIDE DEF len
<1>10. FileTypes'
  <2>1. fPosition' \in Nat /\ rest' \in 0 .. op'.count
    BY <1>1, <1>3
  <2>2. QED
    BY <1>3, <1>4, <1>5, <1>6, <2>1 DEF FileInv, FileTypes
<1>11. CallPlaces' /\ Reading' /\ Writing'
  BY <1>2, <1>3 DEF FileInv, CallPlaces, Reading, Writing
<1>16. fPosition + n <= MaxLength /\ mark + (len + n) <= MaxLength
  <2>1. CASE pc = "fill"
    BY <1>1, <1>8, <1>9, <2>1
  <2>2. CASE pc = "put"
    <3>1. PICK r \in Nat : r + n = rest
      BY <1>9, <2>2
    <3>2. fPosition + rest <= MaxLength /\ mark + len + rest <= MaxLength
      BY <1>9, <2>2
    <3>3. QED
      BY <1>1, <1>8, <3>1, <3>2
  <2>3. QED
    BY <2>1, <2>2
<1>12. Positions'
  <2>1. fBeyondEOF => /\ Len(file) < fPosition + n
                      /\ mark + (len + n) < fPosition + n
    BY <1>1, <1>8
  <2>2. ~fBeyondEOF => /\ astray \/ mark + (len + n) <= fPosition + n + 0
                       /\ fPosition + n + 0 <= mark + OutSize
                       /\ ~(mark + (len + n) < fPosition + n + 0)
    BY <1>1, <1>8
  <2>3. QED
    BY <1>2, <1>3, <1>7, <1>8, <1>16, <2>1, <2>2 DEF Positions
<1>13. Contents'
  BY <1>2 DEF FileInv, Contents
<1>14. Room'
  <2>1. mark + Len(output') <= MaxLength
    BY <1>8, <1>16
  <2>2. pc = "fill" => /\ fPosition + n <= op.to /\ op.to + rest' <= MaxLength
                       /\ mark + (len + n) <= fPosition + n
                       /\ Len(file) <= fPosition + n
    BY <1>1, <1>8, <1>9
  <2>3. pc = "put" => /\ fPosition + n + rest' <= MaxLength
                      /\ mark + (len + n) + rest' <= MaxLength
    <3>1. ASSUME NEW r \in Nat, r + n = rest, pc = "put"
          PROVE  /\ fPosition + n + r <= MaxLength
                 /\ mark + (len + n) + r <= MaxLength
      BY <1>1, <1>8, <1>9, <3>1
    <3>2. QED
      BY <3>1
  <2>4. QED
    BY <1>2, <1>3, <1>8, <2>1, <2>2, <2>3 DEF Room
<1>15. QED
  BY <1>10, <1>11, <1>12, <1>13, <1>14 DEF FileInv

LEMMA FillKeeps ==
  ASSUME FileInv, Fill
  PROVE  FileInv'
<1>1. /\ pc = "fill" /\ fPosition < op.to
      /\ UNCHANGED <<file, mark, mode, fAppend, fReadShutdown, fReadAhead, input,
                     readPB, deferRead, fBeyondEOF, fAsyncError, astray>>
  BY DEF Fill, At, fileVars, readVars
<1>2. CASE fWriteShutdown
  <2>1. Still /\ Return("error")
    BY <1>1, <1>2 DEF Fill, Still
  <2>2. fAsyncError' \in BOOLEAN
    BY <1>1 DEF FileInv, FileTypes
  <2>3. QED
    BY <1>1, <2>1, <2>2, ReturnStep
<1>3. CASE ~fWriteShutdown
  <2>1. PICK n \in 1 .. Smaller(op.to - fPosition, OutSize - Len(output)) :
          /\ Put([i \in 1 .. n |-> Zero], fPosition + n)
          /\ pc' = pc /\ op' = op /\ rest' = rest
    BY <1>3 DEF Fill
  <2>2. /\ op.to \in Nat /\ fPosition \in Nat /\ OutSize \in Nat
        /\ Len(output) \in Nat /\ rest \in Nat
    BY FileFacts, ConstantFacts DEF FileInv, FileTypes
  <2>3. n \in Nat /\ n <= op.to - fPosition /\ n <= OutSize - Len(output)
    BY <2>2 DEF Smaller
  <2>4. [i \in 1 .. n |-> Zero] \in Seq(Bytes) /\ Len([i \in 1 .. n |-> Zero]) = n
    BY <2>3, ConstantFacts, Repeated
  <2>5. rest' \in Nat /\ rest' <= rest
    BY <2>1, <2>2
  <2>6. QED
    BY <1>1, <1>3, <2>1, <2>3, <2>4, <2>5, PutKeeps
<1>4. QED
  BY <1>2, <1>3

LEMMA WriteKeeps ==
  ASSUME FileInv, Write
  PROVE  FileInv'
<1>1. /\ pc = "put" /\ rest > 0
      /\ UNCHANGED <<file, mark, mode, fAppend, fReadShutdown, fReadAhead, input,
                     readPB, deferRead, fBeyondEOF, fAsyncError, astray>>
  BY DEF Write, At, fileVars, readVars
<1>2. CASE fWriteShutdown
  <2>1. Still /\ Return("error")
    BY <1>1, <1>2 DEF Write, Still
  <2>2. fAsyncError' \in BOOLEAN
    BY <1>1 DEF FileInv, FileTypes
  <2>3. QED
    BY <1>1, <2>1, <2>2, ReturnStep
<1>3. CASE ~fWriteShutdown
  <2> DEFINE n == Smaller(rest, OutSize - Len(output))
  <2>1. /\ n > 0 /\ Put([i \in 1 .. n |-> Byte], fPosition + n)
        /\ pc' = pc /\ op' = op /\ rest' = rest - n
    BY <1>3 DEF Write
  <2>2. /\ OutSize \in Nat /\ Len(output) \in Nat /\ rest \in Nat
    BY FileFacts, ConstantFacts DEF FileInv, FileTypes
  <2>3. n \in Int /\ n <= rest /\ n <= OutSize - Len(output)
    BY <2>2 DEF Smaller
  <2> HIDE DEF n
  <2>4. n \in Nat /\ rest - n \in Nat /\ rest - n <= rest /\ rest - n + n = rest
    BY <2>1, <2>2, <2>3
  <2>5. [i \in 1 .. n |-> Byte] \in Seq(Bytes) /\ Len([i \in 1 .. n |-> Byte]) = n
    BY <2>4, ConstantFacts, Repeated
  <2>6. rest' \in Nat /\ rest' <= rest /\ rest' + n = rest
    BY <2>1, <2>4
  <2>7. QED
    BY <1>1, <1>3, <2>1, <2>3, <2>4, <2>5, <2>6, PutKeeps
<1>4. QED
  BY <1>2, <1>3

-----------------------------------------------------------------------------
(***************************************************************************)
(* The program reads.                                                      *)
(***************************************************************************)
LEMMA AtMarkProperties ==
  ASSUME FileTypes, NEW n \in Nat
  PROVE  /\ AtMark(n) \in Seq(Bytes) /\ Len(AtMark(n)) \in Nat
         /\ Len(AtMark(n)) <= n /\ mark + Len(AtMark(n)) <= Len(file)
         /\ AtMark(n) = SubSeq(file, mark + 1, mark + Len(AtMark(n)))
<1> DEFINE end == Smaller(mark + n, Len(file))
<1>1. mark \in Nat /\ Len(file) \in Nat /\ mark <= Len(file) /\ file \in Seq(Bytes)
  BY FileFacts DEF FileTypes
<1>2. /\ end \in Nat /\ mark <= end /\ end <= Len(file) /\ end - mark <= n
      /\ end - (mark + 1) + 1 = end - mark /\ end - mark \in Nat
      /\ mark + (end - mark) = end
  BY <1>1 DEF Smaller
<1>3. AtMark(n) = SubSeq(file, mark + 1, end)
  BY DEF AtMark
<1> HIDE DEF end
<1>4. mark + 1 \in 1 .. Len(file) + 1 /\ end \in (mark + 1) - 1 .. Len(file)
  BY <1>1, <1>2
<1>5. AtMark(n) \in Seq(Bytes) /\ Len(AtMark(n)) = end - mark
  BY <1>1, <1>2, <1>3, <1>4, Slice
<1>6. QED
  BY <1>2, <1>3, <1>5

\* What a request for the program, or ahead of it, finds.
LEMMA TriedAtMark ==
  ASSUME FileTypes, NEW fails, NEW n \in Tried(fails)
  PROVE  /\ n \in Nat /\ n <= readPB.count
         /\ AtMark(n) \in Seq(Bytes) /\ Len(AtMark(n)) \in Nat
         /\ Len(AtMark(n)) <= n /\ mark + Len(AtMark(n)) <= Len(file)
         /\ AtMark(n) = SubSeq(file, mark + 1, mark + Len(AtMark(n)))
<1>1. n \in Nat /\ n <= readPB.count
  BY FileFacts DEF Tried
<1>2. QED
  BY <1>1, AtMarkProperties

\* What there is when the program reads from the input buffer.
LEMMA InputFacts ==
  ASSUME FileInv, pc = "read", ~fBeyondEOF, input # <<>>
  PROVE  /\ mode = "rdonly" /\ readPB.state \in {"idle", "ahead"}
         /\ fPosition \in Nat /\ fPosition + Len(input) <= mark
         /\ fPosition + Len(input) < mark => astray
         /\ Len(input) \in Nat /\ Len(input) > 0 /\ Ahead = Len(input)
         /\ input = SubSeq(file, mark - Len(input) + 1, mark)
<1>1. /\ mode = "rdonly" /\ readPB.state \notin {"direct", "done"}
      /\ op.name = "read"
  BY DEF FileInv, Reading, CallPlaces
<1>2. /\ fPosition \in Nat /\ mark \in Nat /\ Len(input) \in Nat /\ Len(input) > 0
      /\ readPB.state \in {"idle", "ahead", "direct", "done"}
  <2>1. Len(input) \in Nat /\ Len(input) # 0
    BY FileFacts DEF FileInv
  <2>2. QED
    BY <2>1, FileFacts DEF FileInv, FileTypes
<1>3. Ahead = Len(input)
  BY <1>1, <1>2 DEF Ahead
<1>4. /\ fPosition + Len(input) <= mark
      /\ fPosition + Len(input) < mark => astray
  BY <1>1, <1>3 DEF FileInv, Positions
<1>5. input = SubSeq(file, mark - Len(input) + 1, mark)
  BY DEF FileInv, Contents
<1>6. QED
  BY <1>1, <1>2, <1>3, <1>4, <1>5

LEMMA ReadInputKeeps ==
  ASSUME FileInv, ReadInput
  PROVE  FileInv'
<1> DEFINE n == Smaller(rest, Len(input))
           later == SubSeq(input, n + 1, Len(input))
<1>1. /\ pc = "read" /\ ~fBeyondEOF /\ ~fReadAhead /\ rest > 0 /\ input # <<>>
      /\ input' = later /\ fPosition' = fPosition + n /\ rest' = rest - n
      /\ UNCHANGED <<file, mark, mode, fAppend, fReadShutdown, fReadAhead,
                     fWriteShutdown, output, writePB, dropped, pc, op, fBeyondEOF,
                     fAsyncError, astray>>
  BY DEF ReadInput, At, UsesInput, fileVars, writeVars
<1>2. IF deferRead THEN StartRead(fPosition + n, later, fReadShutdown)
                   ELSE readPB' = readPB /\ deferRead' = deferRead
  BY DEF ReadInput
<1>3. /\ mode = "rdonly" /\ readPB.state \in {"idle", "ahead"}
      /\ fPosition \in Nat /\ fPosition + Len(input) <= mark
      /\ fPosition + Len(input) < mark => astray
      /\ Len(input) \in Nat /\ Len(input) > 0 /\ Ahead = Len(input)
  BY <1>1, InputFacts
<1> DEFINE start == mark - Len(input)
<1>3b. input = SubSeq(file, start + 1, mark)
  BY <1>1, InputFacts
<1>3a. start \in Nat /\ start + Len(input) = mark
  BY <1>3, FileFacts DEF FileInv
<1> HIDE DEF start
<1>4. /\ rest \in Nat /\ op.count \in Nat /\ rest <= op.count /\ op.name = "read"
      /\ Len(file) \in Nat /\ mark \in Nat /\ mark <= Len(file) /\ InSize \in Nat
      /\ file \in Seq(Bytes) /\ input \in Seq(Bytes) /\ fReadShutdown \in BOOLEAN
  BY <1>1, FileFacts, ConstantFacts DEF FileInv, FileTypes, CallPlaces
<1>5. n \in Nat /\ n <= rest /\ n <= Len(input)
  BY <1>3, <1>4 DEF Smaller
<1> HIDE DEF n
<1>6. later \in Seq(Bytes) /\ Len(later) = Len(input) - n
  <2>1. n + 1 \in 1 .. Len(input) + 1 /\ Len(input) \in (n + 1) - 1 .. Len(input)
    BY <1>3, <1>5
  <2>2. later \in Seq(Bytes) /\ Len(later) = Len(input) - (n + 1) + 1
    BY <1>4, <2>1, Slice
  <2>3. Len(input) - (n + 1) + 1 = Len(input) - n
    BY <1>3, <1>5
  <2> HIDE DEF later
  <2>4. QED
    BY <2>2, <2>3
<1>7. later = SubSeq(file, mark - Len(later) + 1, mark)
  <2>1. mark \in start .. Len(file) /\ n \in 0 .. mark - start
    BY <1>3, <1>3a, <1>4, <1>5
  <2>2. later = SubSeq(file, start + n + 1, mark)
    BY <1>3a, <1>3b, <1>4, <2>1, SliceOfSlice
  <2>3. mark - Len(later) + 1 = start + n + 1
    <3> HIDE DEF later
    <3> DEFINE whole == Len(input)
               left  == Len(later)
    <3>1. /\ whole \in Nat /\ n \in Nat /\ n <= whole /\ left = whole - n
          /\ mark \in Nat /\ start \in Nat /\ start + whole = mark
      BY <1>3, <1>3a, <1>4, <1>5, <1>6
    <3> HIDE DEF whole, left
    <3>2. mark - left + 1 = start + n + 1
      BY ONLY <3>1
    <3>3. QED
      BY <3>2 DEF left
  <2> HIDE DEF later
  <2>4. QED
    BY <2>2, <2>3
<1>8. deferRead => ~fReadShutdown /\ readPB = Idle
  BY <1>1 DEF FileInv, Reading
<1>9. Len(input) + (IF readPB.state = "ahead" THEN readPB.count ELSE 0) <= InSize
  BY DEF FileInv, Reading
<1> HIDE DEF later
<1>10. /\ readPB' \in [state : {"idle", "ahead", "direct", "done"}, count : Nat,
                       got : Seq(Bytes), error : BOOLEAN]
       /\ readPB'.state \in {"idle", "ahead"} /\ deferRead' \in BOOLEAN
       /\ deferRead' => readPB' = Idle
       /\ fReadShutdown => ~deferRead' /\ readPB'.state # "ahead"
       /\ Len(later) + (IF readPB'.state = "ahead" THEN readPB'.count ELSE 0)
            <= InSize
  <2>1. CASE deferRead
    <3>1. StartRead(fPosition + n, later, fReadShutdown)
      BY <1>2, <2>1
    <3>2. /\ Len(later) \in Nat /\ Len(later) <= InSize /\ fPosition + n \in Nat
      <4>1. Len(input) + 0 <= InSize
        BY <1>8, <1>9, <2>1 DEF Idle
      <4>2. QED
        BY <1>3, <1>4, <1>5, <1>6, <4>1
    <3>3. /\ readPB' \in [state : {"idle", "ahead", "direct", "done"}, count : Nat,
                          got : Seq(Bytes), error : BOOLEAN]
          /\ readPB'.state \in {"idle", "ahead"}
          /\ readPB'.state = "ahead" => Len(later) + readPB'.count <= InSize
          /\ deferRead' \in BOOLEAN
          /\ deferRead' => readPB' = Idle /\ ~fReadShutdown
      BY <1>4, <1>6, <3>1, <3>2, StartReadProperties
    <3>4. Len(later) + 0 <= InSize
      BY <3>2
    <3>5. QED
      BY <1>8, <2>1, <3>3, <3>4
  <2>2. CASE ~deferRead
    <3>1. readPB' = readPB /\ deferRead' = deferRead
      BY <1>2, <2>2
    <3>2. fReadShutdown => readPB.state # "ahead"
      BY <1>1 DEF FileInv, Reading
    <3>3. Len(later) + (IF readPB.state = "ahead" THEN readPB.count ELSE 0) <= InSize
      <4> DEFINE k == IF readPB.state = "ahead" THEN readPB.count ELSE 0
      <4>1. k \in Nat /\ Len(input) + k <= InSize
        BY <1>9, FileFacts DEF FileInv
      <4> HIDE DEF k
      <4>2. Len(later) + k <= InSize
        BY <1>3, <1>4, <1>5, <1>6, <4>1
      <4>3. QED
        BY <4>2 DEF k
    <3>4. readPB \in [state : {"idle", "ahead", "direct", "done"}, count : Nat,
                      got : Seq(Bytes), error : BOOLEAN]
      BY DEF FileInv, FileTypes
    <3>5. /\ Len(later) + (IF readPB'.state = "ahead" THEN readPB'.count ELSE 0)
               <= InSize
          /\ fReadShutdown => readPB'.state # "ahead"
      BY <3>1, <3>2, <3>3
    <3>6. readPB'.state \in {"idle", "ahead"} /\ deferRead' = FALSE
      BY <1>3, <2>2, <3>1 DEF FileInv, FileTypes
    <3>7. QED
      BY <3>1, <3>4, <3>5, <3>6
  <2>3. QED
    BY <2>1, <2>2
<1>11. FileTypes'
  <2>1. fPosition' \in Nat /\ rest' \in 0 .. op'.count
    <3>1. fPosition + n \in Nat /\ rest - n \in 0 .. op.count
      BY <1>3, <1>4, <1>5
    <3>2. QED
      BY <1>1, <3>1
  <2>2. QED
    BY <1>1, <1>6, <1>10, <2>1 DEF FileInv, FileTypes
<1>12. CallPlaces' /\ Writing'
  BY <1>1 DEF FileInv, CallPlaces, Writing
<1>13. Reading'
  BY <1>1, <1>3, <1>10 DEF Reading
<1>14. Positions'
  <2>1. Ahead' = Len(later)
    BY <1>1, <1>6, <1>10, EmptyFacts DEF Ahead
  <2>2. fPosition + n + Len(later) = fPosition + Len(input)
    BY <1>3, <1>5, <1>6
  <2>3. QED
    BY <1>1, <1>3, <2>1, <2>2 DEF Positions
<1>15. Contents'
  BY <1>1, <1>7, <1>10 DEF Contents
<1>16. Room'
  BY <1>1, <1>4 DEF FileInv, Room
<1>17. QED
  BY <1>11, <1>12, <1>13, <1>14, <1>15, <1>16 DEF FileInv

LEMMA DirectReadKeeps ==
  ASSUME FileInv, DirectRead
  PROVE  FileInv'
<1>1. /\ pc = "read" /\ ~fBeyondEOF /\ rest > 0 /\ pc' = "direct"
      /\ readPB' = [Idle EXCEPT !.state = "direct", !.count = rest]
      /\ UNCHANGED <<file, mark, mode, fAppend, fReadShutdown, fReadAhead, input,
                     deferRead, fWriteShutdown, output, writePB, dropped, op, rest,
                     fBeyondEOF, fPosition, fAsyncError, astray>>
  BY DEF DirectRead, At, Goto, fileVars, writeVars
<1>2. input = <<>> /\ ~deferRead
  BY <1>1 DEF DirectRead, UsesInput, FileInv, Reading
<1>3. /\ op.name = "read" /\ output = <<>> /\ readPB.state \notin {"direct", "done"}
  BY <1>1 DEF FileInv, CallPlaces, Writing, Reading
<1>4. readPB' = [state |-> "direct", count |-> rest, got |-> <<>>,
                error |-> FALSE]
  BY <1>1 DEF Idle
<1>5. /\ readPB' \in [state : {"idle", "ahead", "direct", "done"}, count : Nat,
                      got : Seq(Bytes), error : BOOLEAN]
      /\ readPB'.state = "direct"
  BY <1>4, EmptyFacts, FileFacts DEF FileInv
<1>6. FileTypes'
  BY <1>1, <1>5 DEF FileInv, FileTypes, Labels
<1>7. CallPlaces' /\ Writing'
  BY <1>1, <1>3 DEF FileInv, CallPlaces, Writing
<1>8. Reading'
  <2>1. Len(input') + 0 <= InSize
    BY <1>1, <1>2, EmptyFacts, ConstantFacts
  <2>2. fReadAhead => ~fReadShutdown
    BY DEF FileInv, Reading
  <2>3. mode # "rdonly" => fReadShutdown /\ ~fReadAhead
    BY DEF FileInv, Reading
  <2>5. QED
    BY <1>1, <1>2, <1>3, <1>5, <2>1, <2>2, <2>3 DEF Reading
<1>9. Positions'
  <2>1. Ahead = 0 /\ Ahead' = 0
    BY <1>1, <1>2, <1>3, <1>5, EmptyFacts DEF Ahead
  <2>2. QED
    BY <1>1, <2>1 DEF FileInv, Positions
<1>10. Contents'
  BY <1>1, <1>5 DEF FileInv, Contents
<1>11. Room'
  BY <1>1, <1>3 DEF FileInv, Room
<1>12. QED
  BY <1>6, <1>7, <1>8, <1>9, <1>10, <1>11 DEF FileInv

LEMMA DirectReadDoneKeeps ==
  ASSUME FileInv, NEW fails \in BOOLEAN, DirectReadDone(fails)
  PROVE  FileInv'
<1>0. PICK n \in Tried(fails) :
        /\ readPB' = [readPB EXCEPT !.state = "done", !.got = AtMark(n),
                                    !.error = fails]
        /\ mark' = mark + Len(AtMark(n))
  BY DEF DirectReadDone
<1> DEFINE got == AtMark(n)
<1>1. /\ readPB.state = "direct" /\ mark' = mark + Len(got)
      /\ readPB' = [readPB EXCEPT !.state = "done", !.got = got, !.error = fails]
      /\ UNCHANGED <<file, mode, fAppend, fReadShutdown, fReadAhead, input,
                     deferRead, fWriteShutdown, output, writePB, dropped, pc, op,
                     rest, fBeyondEOF, fPosition, fAsyncError, astray>>
  BY <1>0 DEF DirectReadDone, writeVars, callVars
<1>2. pc = "direct" /\ input = <<>> /\ ~deferRead
  BY <1>1 DEF FileInv, Reading
<1>3. op.name = "read" /\ output = <<>> /\ ~fBeyondEOF
  BY <1>2 DEF FileInv, CallPlaces, Writing
<1>4. /\ got \in Seq(Bytes) /\ Len(got) \in Nat /\ mark + Len(got) <= Len(file)
      /\ got = SubSeq(file, mark + 1, mark + Len(got))
  BY TriedAtMark DEF FileInv
<1> HIDE DEF got
<1>4a. got \in Seq(Bytes) /\ Len(got) \in Nat /\ mark + Len(got) <= Len(file)
  BY <1>4
<1>5. /\ mark \in Nat /\ Len(file) \in Nat /\ fPosition \in Nat /\ OutSize \in Nat
      /\ Len(file) <= MaxLength /\ MaxLength \in Nat
      /\ Len(input) = 0 /\ Len(output) = 0
  BY <1>2, <1>3, FileFacts, EmptyFacts, ConstantFacts DEF FileInv, FileTypes
<1>6. /\ readPB' \in [state : {"idle", "ahead", "direct", "done"}, count : Nat,
                      got : Seq(Bytes), error : BOOLEAN]
      /\ readPB'.state = "done" /\ readPB'.got = got
  <2>1. readPB \in [state : {"idle", "ahead", "direct", "done"}, count : Nat,
                    got : Seq(Bytes), error : BOOLEAN]
    BY DEF FileInv, FileTypes
  <2> DEFINE a == [readPB EXCEPT !.state = "done"]
             b == [a EXCEPT !.got = got]
  <2>2. /\ a \in [state : {"idle", "ahead", "direct", "done"}, count : Nat,
                   got : Seq(Bytes), error : BOOLEAN]
        /\ a.state = "done"
    BY <2>1
  <2> HIDE DEF a
  <2>3. /\ b \in [state : {"idle", "ahead", "direct", "done"}, count : Nat,
                   got : Seq(Bytes), error : BOOLEAN]
        /\ b.state = "done" /\ b.got = got
    BY <1>4a, <2>2
  <2>4. readPB' = [b EXCEPT !.error = fails]
    BY <1>1 DEF a
  <2> HIDE DEF b
  <2>5. QED
    BY <2>3, <2>4
<1>7. mark' \in 0 .. Len(file)
  BY <1>1, <1>4a, <1>5
<1>8. FileTypes'
  BY <1>1, <1>6, <1>7 DEF FileInv, FileTypes
<1>9. CallPlaces' /\ Writing'
  BY <1>1 DEF FileInv, CallPlaces, Writing
<1>10. Reading'
  <2>1. Len(input') + 0 <= InSize
    BY <1>1, <1>5, ConstantFacts
  <2>2. fReadAhead => ~fReadShutdown
    BY DEF FileInv, Reading
  <2>3. mode # "rdonly" => fReadShutdown /\ ~fReadAhead
    BY DEF FileInv, Reading
  <2>5. QED
    BY <1>1, <1>2, <1>3, <1>6, <2>1, <2>2, <2>3 DEF Reading
<1>11. Positions'
  <2>1. Ahead = 0 /\ Ahead' = Len(got)
    BY <1>1, <1>4a, <1>5, <1>6 DEF Ahead
  <2>2. mode = "rdonly" => /\ fPosition <= mark
                           /\ fPosition < mark => astray
    BY <1>2, <1>3, <1>5, <2>1 DEF FileInv, Positions
  <2>3. mode # "rdonly" => /\ astray \/ mark <= fPosition
                           /\ fPosition <= mark + OutSize
                           /\ mark < fPosition => dropped
    BY <1>3, <1>5, <2>1 DEF FileInv, Positions
  <2>4. mode = "rdonly" =>
          /\ fPosition + Len(got) <= mark + Len(got)
          /\ fPosition + Len(got) < mark + Len(got) => astray
    BY <1>4a, <1>5, <2>2
  <2>5. mode # "rdonly" =>
          /\ astray \/ mark + Len(got) + 0 <= fPosition + Len(got)
          /\ fPosition + Len(got) <= mark + Len(got) + OutSize
          /\ mark + Len(got) + 0 < fPosition + Len(got) => dropped
    BY <1>4a, <1>5, <2>3
  <2>6. QED
    BY <1>1, <1>3, <1>5, <2>1, <2>4, <2>5 DEF Positions
<1>12. Contents'
  <2>1. input' = SubSeq(file', mark' - Len(input') + 1, mark')
    <3>1. \A f : \A m \in Nat : SubSeq(f, m - 0 + 1, m) = <<>>
      <4>1. \A m \in Nat : m - 0 + 1 \in Int /\ m \in Int /\ m < m - 0 + 1
        OBVIOUS
      <4>2. QED
        BY <4>1, SubSeqEmpty
    <3>2. mark' \in Nat
      BY <1>1, <1>4a, <1>5
    <3>3. QED
      BY <1>1, <1>2, <1>5, <3>1, <3>2
  <2>2. mark' - Len(got) + 1 = mark + 1 /\ Len(got) <= mark'
    BY <1>1, <1>4a, <1>5
  <2>3. got = SubSeq(file', mark' - Len(got) + 1, mark')
    BY <1>1, <1>4, <2>2
  <2>4. QED
    BY <1>6, <2>1, <2>2, <2>3 DEF Contents
<1>13. Room'
  <2>1. mark' + Len(output') <= MaxLength
    BY <1>1, <1>4a, <1>5
  <2>2. QED
    BY <1>1, <1>2, <1>3, <2>1 DEF Room
<1>14. QED
  BY <1>8, <1>9, <1>10, <1>11, <1>12, <1>13 DEF FileInv

LEMMA DirectReadReturnsKeeps ==
  ASSUME FileInv, DirectReadReturns
  PROVE  FileInv'
<1> DEFINE got == readPB.got
<1>1. /\ pc = "direct" /\ readPB.state = "done" /\ fPosition' = fPosition + Len(got)
      /\ fReadAhead' = FALSE /\ pc' = "idle" /\ op' = NoCall /\ rest' = 0
      /\ UNCHANGED <<file, mark, mode, fAppend, fReadShutdown, input,
                     fWriteShutdown, output, writePB, dropped, fBeyondEOF,
                     fAsyncError, astray>>
  BY DEF DirectReadReturns, At, Return, fileVars, writeVars
<1>2. IF fReadAhead /\ ~fReadShutdown
      THEN StartRead(fPosition', input, fReadShutdown)
      ELSE readPB' = Idle /\ deferRead' = deferRead
  BY DEF DirectReadReturns
<1>3. /\ op.name = "read" /\ output = <<>> /\ ~fBeyondEOF
      /\ input = <<>> /\ deferRead = FALSE
  BY <1>1 DEF FileInv, FileTypes, CallPlaces, Writing, Reading
<1>4. /\ mark \in Nat /\ fPosition \in Nat /\ Len(got) \in Nat /\ OutSize \in Nat
      /\ Len(input) = 0 /\ Len(output) = 0 /\ input \in Seq(Bytes)
      /\ fReadShutdown \in BOOLEAN /\ InSize \in Nat
  BY <1>3, FileFacts, EmptyFacts, ConstantFacts DEF FileInv, FileTypes
<1>5. fPosition' \in Nat
  BY <1>1, <1>4
<1> HIDE DEF got
<1>6. /\ readPB' \in [state : {"idle", "ahead", "direct", "done"}, count : Nat,
                      got : Seq(Bytes), error : BOOLEAN]
      /\ readPB'.state \in {"idle", "ahead"} /\ deferRead' \in BOOLEAN
      /\ deferRead' => readPB' = Idle
      /\ fReadShutdown \/ mode # "rdonly" => ~deferRead' /\ readPB'.state # "ahead"
      /\ 0 + (IF readPB'.state = "ahead" THEN readPB'.count ELSE 0) <= InSize
  <2>1. CASE fReadAhead /\ ~fReadShutdown
    <3>1. StartRead(fPosition', input, fReadShutdown) /\ mode = "rdonly"
      BY <1>2, <2>1 DEF FileInv, Reading
    <3>2. Len(input) <= InSize /\ 0 + 0 <= InSize
      BY <1>4
    <3>3. /\ readPB' \in [state : {"idle", "ahead", "direct", "done"}, count : Nat,
                          got : Seq(Bytes), error : BOOLEAN]
          /\ readPB'.state \in {"idle", "ahead"}
          /\ readPB'.state = "ahead" => Len(input) + readPB'.count <= InSize
          /\ deferRead' \in BOOLEAN
          /\ deferRead' => readPB' = Idle /\ ~fReadShutdown
      BY <1>4, <1>5, <3>1, <3>2, StartReadProperties
    <3>4. QED
      BY <1>4, <2>1, <3>1, <3>2, <3>3
  <2>2. CASE ~(fReadAhead /\ ~fReadShutdown)
    <3>1. readPB' = Idle /\ deferRead' = FALSE
      BY <1>2, <1>3, <2>2
    <3>2. /\ Idle \in [state : {"idle", "ahead", "direct", "done"}, count : Nat,
                       got : Seq(Bytes), error : BOOLEAN]
          /\ Idle.state = "idle" /\ 0 + 0 <= InSize
      BY <1>4, EmptyFacts DEF Idle
    <3>3. QED
      BY <3>1, <3>2
  <2>3. QED
    BY <2>1, <2>2
<1>7. op' \in Ops /\ op'.name = "none" /\ rest' \in 0 .. op'.count
  BY <1>1, NoCallTyped
<1>8. FileTypes'
  BY <1>1, <1>5, <1>6, <1>7 DEF FileInv, FileTypes, Labels, Ops
<1>9. CallPlaces' /\ Writing' /\ Room'
  <2>1. CallPlaces'
    BY <1>1, <1>7 DEF CallPlaces
  <2>2. Writing'
    BY <1>1, <1>3 DEF FileInv, Writing
  <2>3. Room'
    BY <1>1, <1>7 DEF FileInv, Room
  <2>4. QED
    BY <2>1, <2>2, <2>3
<1>10. Reading'
  <2>1. mode # "rdonly" => fReadShutdown
    BY DEF FileInv, Reading
  <2>2. QED
    BY <1>1, <1>3, <1>4, <1>6, <1>7, <2>1 DEF Reading
<1>11. Positions'
  <2>1. Ahead = Len(got) /\ Ahead' = 0
    BY <1>1, <1>4, <1>6 DEF Ahead, got
  <2>2. /\ mode = "rdonly" => /\ fPosition + Len(got) <= mark
                              /\ fPosition + Len(got) < mark => astray
        /\ mode # "rdonly" =>
             /\ astray \/ mark + 0 <= fPosition + Len(got)
             /\ fPosition + Len(got) <= mark + OutSize
             /\ mark + 0 < fPosition + Len(got) => dropped
    BY <1>1, <1>3, <1>4, <2>1 DEF FileInv, Positions
  <2>3. fPosition + Len(got) + 0 = fPosition + Len(got)
    BY <1>4
  <2>4. QED
    BY <1>1, <1>3, <1>4, <2>1, <2>2, <2>3 DEF Positions
<1>12. Contents'
  BY <1>1, <1>3, <1>4, <1>6, EmptyContents
<1>13. QED
  BY <1>8, <1>9, <1>10, <1>11, <1>12 DEF FileInv

LEMMA DirectReadFailsKeeps ==
  ASSUME FileInv, DirectReadFails
  PROVE  FileInv'
<1> DEFINE got == readPB.got
<1>1. /\ pc = "direct" /\ readPB.state = "done" /\ readPB' = Idle
      /\ astray' = (astray \/ got # <<>>)
      /\ pc' = "idle" /\ op' = NoCall /\ rest' = 0
      /\ UNCHANGED <<file, mark, mode, fAppend, fReadShutdown, fReadAhead, input,
                     deferRead, fWriteShutdown, output, writePB, dropped,
                     fBeyondEOF, fPosition, fAsyncError>>
  BY DEF DirectReadFails, At, Return, fileVars, writeVars
<1>2. /\ output = <<>> /\ ~fBeyondEOF /\ input = <<>> /\ ~deferRead
  BY <1>1 DEF FileInv, CallPlaces, Writing, Reading
<1>3. /\ mark \in Nat /\ fPosition \in Nat /\ Len(got) \in Nat /\ OutSize \in Nat
      /\ Len(input) = 0 /\ Len(output) = 0 /\ (Len(got) = 0 <=> got = <<>>)
      /\ astray \in BOOLEAN /\ InSize \in Nat
  BY <1>2, FileFacts, EmptyFacts, ConstantFacts DEF FileInv, FileTypes
<1> HIDE DEF got
<1>4. /\ readPB' \in [state : {"idle", "ahead", "direct", "done"}, count : Nat,
                      got : Seq(Bytes), error : BOOLEAN]
      /\ readPB'.state = "idle"
  BY <1>1, EmptyFacts DEF Idle
<1>5. op' \in Ops /\ op'.name = "none" /\ rest' \in 0 .. op'.count
  BY <1>1, NoCallTyped
<1>6. FileTypes'
  <2>1. astray' \in BOOLEAN
    BY <1>1, <1>3
  <2>2. QED
    BY <1>1, <1>4, <1>5, <2>1 DEF FileInv, FileTypes, Labels, Ops
<1>7. CallPlaces'
  BY <1>1, <1>5 DEF CallPlaces
<1>8. Writing'
  BY <1>1, <1>2 DEF FileInv, Writing
<1>9. Room'
  BY <1>1, <1>5 DEF FileInv, Room
<1>10. Reading'
  <2>1. 0 + 0 <= InSize
    BY <1>3
  <2>2. /\ mode # "rdonly" => fReadShutdown /\ ~fReadAhead
        /\ fReadAhead => ~fReadShutdown
    BY DEF FileInv, Reading
  <2>3. QED
    BY <1>1, <1>2, <1>3, <1>4, <1>5, <2>1, <2>2 DEF Reading
<1>11. Positions'
  <2>1. Ahead = Len(got) /\ Ahead' = 0
    BY <1>1, <1>3, <1>4 DEF Ahead, got
  <2>2. /\ mode = "rdonly" => /\ fPosition + Len(got) <= mark
                              /\ fPosition + Len(got) < mark => astray
        /\ mode # "rdonly" =>
             /\ astray \/ mark + 0 <= fPosition + Len(got)
             /\ fPosition + Len(got) <= mark + OutSize
             /\ mark + 0 < fPosition + Len(got) => dropped
    BY <1>1, <1>2, <1>3, <2>1 DEF FileInv, Positions
  <2>3. /\ mode = "rdonly" => /\ fPosition <= mark
                              /\ fPosition < mark => astray'
        /\ mode # "rdonly" =>
             /\ astray' \/ mark <= fPosition
             /\ fPosition <= mark + OutSize
             /\ mark < fPosition => dropped
    <3>1. CASE got = <<>>
      BY <1>1, <1>3, <2>2, <3>1
    <3>2. CASE got # <<>>
      <4>1. astray'
        BY <1>1, <3>2
      <4>2. fPosition <= fPosition + Len(got)
        BY <1>3
      <4>3. /\ mode = "rdonly" => fPosition <= mark
            /\ mode # "rdonly" => fPosition <= mark + OutSize
        BY <1>3, <2>2, <4>2
      <4>4. mark < fPosition => mark + 0 < fPosition + Len(got)
        BY <1>3
      <4>5. QED
        BY <2>2, <4>1, <4>3, <4>4
    <3>3. QED
      BY <3>1, <3>2
  <2>4. fPosition + 0 = fPosition /\ mark + 0 = mark
    BY <1>3
  <2>5. QED
    BY <1>1, <1>2, <1>3, <2>1, <2>3, <2>4 DEF Positions
<1>12. Contents'
  BY <1>1, <1>2, <1>3, <1>4, EmptyContents
<1>13. QED
  BY <1>6, <1>7, <1>8, <1>9, <1>10, <1>11, <1>12 DEF FileInv

-----------------------------------------------------------------------------
(***************************************************************************)
(* The volume answers.                                                     *)
(***************************************************************************)
\* What there is while the file is read ahead.
LEMMA AheadFacts ==
  ASSUME FileInv, readPB.state = "ahead"
  PROVE  /\ mode = "rdonly" /\ ~fBeyondEOF /\ ~fReadAhead
         /\ pc \notin {"seek", "truncate", "direct"} /\ deferRead = FALSE
         /\ ~(pc = "sync" /\ op.name \in {"lseek", "ftruncate"})
         /\ fReadShutdown => pc = "syncRead"
         /\ fPosition + Len(input) <= mark /\ Ahead = Len(input)
         /\ fPosition + Len(input) < mark => astray
<1>1. /\ mode = "rdonly" /\ ~fBeyondEOF /\ ~fReadAhead
      /\ pc \notin {"seek", "truncate", "direct"}
      /\ ~(pc = "sync" /\ op.name \in {"lseek", "ftruncate"})
      /\ fReadShutdown => pc = "syncRead"
  BY DEF FileInv, Reading
<1>2. deferRead = FALSE
  BY DEF FileInv, FileTypes, Reading, Idle
<1>3. Ahead = Len(input)
  BY FileFacts DEF FileInv, Ahead
<1>4. fPosition + Len(input) <= mark /\ (fPosition + Len(input) < mark => astray)
  BY <1>1, <1>3 DEF FileInv, Positions
<1>5. QED
  BY <1>1, <1>2, <1>3, <1>4

LEMMA ReadAheadDoneKeeps ==
  ASSUME FileInv, NEW fails \in BOOLEAN, ReadAheadDone(fails)
  PROVE  FileInv'
<1>0. PICK n \in Tried(fails) :
        /\ mark' = mark + Len(AtMark(n)) /\ input' = input \o AtMark(n)
        /\ EndsReading(fails \/ Len(AtMark(n)) < readPB.count)
        /\ IF fReadShutdown' THEN readPB' = Idle /\ deferRead' = FALSE
           ELSE StartRead(fPosition, input \o AtMark(n), fReadShutdown)
  BY DEF ReadAheadDone
<1> DEFINE got == AtMark(n)
           error == fails \/ Len(got) < readPB.count
           buffered == input \o got
<1>1. /\ readPB.state = "ahead" /\ mark' = mark + Len(got)
      /\ input' = buffered /\ EndsReading(error)
      /\ UNCHANGED <<file, mode, fAppend, fReadAhead, fWriteShutdown, output, writePB,
                     dropped, pc, op, rest, fBeyondEOF, fPosition, astray>>
  BY <1>0 DEF ReadAheadDone, writeVars, callVars
<1>2. IF fReadShutdown' THEN readPB' = Idle /\ deferRead' = FALSE
      ELSE StartRead(fPosition, buffered, fReadShutdown)
  BY <1>0
<1>3. /\ mode = "rdonly" /\ ~fBeyondEOF /\ ~fReadAhead
      /\ pc \notin {"seek", "truncate", "direct"}
      /\ ~(pc = "sync" /\ op.name \in {"lseek", "ftruncate"})
      /\ fReadShutdown => pc = "syncRead"
      /\ fPosition + Len(input) <= mark /\ Ahead = Len(input)
      /\ fPosition + Len(input) < mark => astray
  BY <1>1, AheadFacts
<1>4. /\ got \in Seq(Bytes) /\ Len(got) \in Nat /\ Len(got) <= readPB.count
      /\ mark + Len(got) <= Len(file)
      /\ got = SubSeq(file, mark + 1, mark + Len(got))
  <2>1. /\ n \in Nat /\ n <= readPB.count /\ Len(got) <= n /\ readPB.count \in Nat
        /\ got \in Seq(Bytes) /\ Len(got) \in Nat /\ mark + Len(got) <= Len(file)
        /\ got = SubSeq(file, mark + 1, mark + Len(got))
    BY TriedAtMark, FileFacts DEF FileInv
  <2> HIDE DEF got
  <2>2. QED
    BY <2>1
<1>5. fAsyncError' \in BOOLEAN /\ fReadShutdown' \in BOOLEAN
      /\ (fReadShutdown => fReadShutdown') /\ (~fReadShutdown' => ~fReadShutdown)
  BY <1>1 DEF EndsReading, FileInv, FileTypes
<1> HIDE DEF got, error
<1>4a. /\ got \in Seq(Bytes) /\ Len(got) \in Nat /\ Len(got) <= readPB.count
       /\ mark + Len(got) <= Len(file)
  BY <1>4
<1>6. /\ mark \in Nat /\ Len(file) \in Nat /\ fPosition \in Nat /\ InSize \in Nat
      /\ Len(file) <= MaxLength /\ MaxLength \in Nat /\ mark <= Len(file)
      /\ Len(input) \in Nat /\ readPB.count \in Nat
      /\ input \in Seq(Bytes) /\ file \in Seq(Bytes) /\ fReadShutdown \in BOOLEAN
  BY FileFacts, ConstantFacts DEF FileInv, FileTypes
<1> DEFINE start == mark - Len(input)
<1>3a. start \in Nat /\ start + Len(input) = mark
  BY <1>3, <1>6
<1>7. buffered \in Seq(Bytes) /\ Len(buffered) = Len(input) + Len(got)
  BY <1>4a, <1>6, ConcatProperties
<1>8. Len(buffered) <= InSize /\ Len(buffered) \in Nat
  <2>1. Len(input) + readPB.count <= InSize
    BY <1>1 DEF FileInv, Reading
  <2>2. QED
    BY <1>4a, <1>6, <1>7, <2>1
<1>9. mark + Len(got) - Len(buffered) + 1 = start + 1
  <2> HIDE DEF buffered
  <2>1. Len(buffered) = Len(input) + Len(got)
    BY <1>7
  <2>2. QED
    BY <1>4a, <1>6, <2>1
<1>10. buffered = SubSeq(file, start + 1, mark + Len(got))
  <2>2. input = SubSeq(file, start + 1, mark)
    BY DEF FileInv, Contents
  <2> HIDE DEF start
  <2>3. /\ start + 1 \in 1 .. Len(file) + 1 /\ mark \in (start + 1) - 1 .. Len(file)
        /\ mark + Len(got) \in mark .. Len(file)
    BY <1>3a, <1>4a, <1>6
  <2>4. SubSeq(file, start + 1, mark) \o SubSeq(file, mark + 1, mark + Len(got))
          = SubSeq(file, start + 1, mark + Len(got))
    BY <1>6, <2>3, ConcatAdjacentSubSeq
  <2>5. QED
    BY <1>4, <2>2, <2>4
<1> HIDE DEF start
<1> HIDE DEF buffered
<1>11. /\ readPB' \in [state : {"idle", "ahead", "direct", "done"}, count : Nat,
                       got : Seq(Bytes), error : BOOLEAN]
       /\ readPB'.state \in {"idle", "ahead"} /\ deferRead' \in BOOLEAN
       /\ deferRead' => readPB' = Idle
       /\ fReadShutdown' => ~deferRead' /\ readPB'.state # "ahead"
       /\ Len(buffered) + (IF readPB'.state = "ahead" THEN readPB'.count ELSE 0)
            <= InSize
  <2>1. Len(buffered) + 0 <= InSize
    BY <1>8
  <2>2. CASE fReadShutdown'
    <3>1. readPB' = Idle /\ deferRead' = FALSE
      BY <1>2, <2>2
    <3>2. /\ Idle \in [state : {"idle", "ahead", "direct", "done"}, count : Nat,
                       got : Seq(Bytes), error : BOOLEAN]
          /\ Idle.state = "idle"
      BY EmptyFacts DEF Idle
    <3>3. QED
      BY <2>1, <3>1, <3>2
  <2>3. CASE ~fReadShutdown'
    <3>1. StartRead(fPosition, buffered, fReadShutdown)
      BY <1>2, <2>3
    <3>2. /\ readPB' \in [state : {"idle", "ahead", "direct", "done"}, count : Nat,
                          got : Seq(Bytes), error : BOOLEAN]
          /\ readPB'.state \in {"idle", "ahead"}
          /\ readPB'.state = "ahead" => Len(buffered) + readPB'.count <= InSize
          /\ deferRead' \in BOOLEAN
          /\ deferRead' => readPB' = Idle /\ ~fReadShutdown
      BY <1>6, <1>7, <1>8, <3>1, StartReadProperties
    <3>3. QED
      BY <2>1, <2>3, <3>2
  <2>4. QED
    BY <2>2, <2>3
<1>12. FileTypes'
  <2>1. mark' \in 0 .. Len(file') /\ input' \in Seq(Bytes)
    BY <1>1, <1>4a, <1>6, <1>7
  <2>2. QED
    BY <1>1, <1>5, <1>11, <2>1 DEF FileInv, FileTypes
<1>13. CallPlaces' /\ Writing'
  <2>1. CallPlaces'
    BY <1>1 DEF FileInv, CallPlaces
  <2>2. Writing'
    BY <1>1 DEF FileInv, Writing
  <2>3. QED
    BY <2>1, <2>2
<1>14. Reading'
  <2>1. pc = "syncRead" => fReadShutdown'
    BY <1>5 DEF FileInv, Reading
  <2>2. QED
    BY <1>1, <1>3, <1>11, <2>1 DEF Reading
<1>15. Positions'
  <2>1. Ahead' = Len(buffered)
    <3>1. Len(input') + 0 = Len(buffered)
      BY <1>1, <1>8
    <3>2. QED
      BY <1>11, <3>1 DEF Ahead
  <2>2. /\ fPosition + Len(buffered) <= mark + Len(got)
        /\ fPosition + Len(buffered) < mark + Len(got) => astray
    BY <1>3, <1>4a, <1>6, <1>7
  <2>3. QED
    BY <1>1, <1>3, <2>1, <2>2 DEF Positions
<1>16. Contents'
  <2>1. mark' - Len(input') + 1 = start + 1
    <3>1. mark' = mark + Len(got) /\ input' = buffered
      BY <1>1
    <3>2. /\ mark + Len(got) - Len(buffered) + 1 = start + 1
          /\ mark + Len(got) \in Nat /\ Len(buffered) \in Nat
      BY <1>4a, <1>6, <1>8, <1>9
    <3>3. \A m \in Nat, l \in Nat :
            m = mark + Len(got) /\ l = Len(buffered) => m - l + 1 = start + 1
      BY <1>3a, <1>4a, <1>6, <3>2
    <3>4. QED
      BY <3>1, <3>2, <3>3
  <2>2. input' = SubSeq(file', mark' - Len(input') + 1, mark')
    BY <1>1, <1>10, <2>1
  <2>3. readPB'.state # "done"
    BY <1>11
  <2>4. QED
    BY <2>2, <2>3 DEF Contents
<1>17. Room'
  <2>1. op.name # "write" /\ pc \notin {"fill", "put"} /\ Len(output) = 0
    BY <1>3, EmptyFacts DEF FileInv, CallPlaces, Writing
  <2>2. mark + Len(got) + 0 <= MaxLength
    BY <1>4a, <1>6
  <2>3. mark' + Len(output') <= MaxLength
    BY <1>1, <2>1, <2>2
  <2>4. pc = "truncate" => fPosition = op.to
    BY DEF FileInv, Room
  <2>5. QED
    BY <1>1, <2>1, <2>3, <2>4 DEF Room
<1>18. QED
  BY <1>12, <1>13, <1>14, <1>15, <1>16, <1>17 DEF FileInv

\* What there is while a write is under way.
LEMMA BehindFacts ==
  ASSUME FileInv, writePB > 0
  PROVE  /\ mode # "rdonly" /\ ~fWriteShutdown /\ ~dropped
         /\ pc \notin {"read", "awaitInput", "direct", "synced", "seek", "truncate",
                       "syncRead"}
         /\ input = <<>> /\ readPB.state \notin {"ahead", "direct", "done"}
         /\ fBeyondEOF => /\ Len(file) < fPosition /\ fPosition <= MaxLength
                          /\ mark + Len(output) < fPosition /\ astray
         /\ ~fBeyondEOF => /\ astray \/ mark + Len(output) <= fPosition
                           /\ ~(mark + Len(output) < fPosition)
                           /\ fPosition <= mark + OutSize
         /\ Ahead = 0
         /\ writePB \in Nat /\ writePB <= Len(output) /\ Len(output) \in Nat
<1>1. writePB \in Nat /\ writePB <= Len(output) /\ Len(output) \in Nat
  BY FileFacts DEF FileInv, FileTypes
<1>2. output # <<>>
  BY <1>1, EmptyFacts
<1>3. /\ ~fWriteShutdown /\ (fBeyondEOF => astray)
      /\ pc \notin {"read", "awaitInput", "direct", "synced", "seek", "truncate"}
  BY <1>2 DEF FileInv, Writing
<1>4. mode # "rdonly" /\ ~dropped
  BY <1>3 DEF FileInv, Writing
<1>5. /\ input = <<>> /\ readPB.state \notin {"ahead", "direct", "done"}
      /\ pc # "syncRead"
  BY <1>3, <1>4 DEF FileInv, Reading, CallPlaces
<1>6. Ahead = 0
  BY <1>5, EmptyFacts DEF Ahead
<1>7. fPosition + 0 = fPosition
  BY DEF FileInv, FileTypes
<1>8. /\ fBeyondEOF => /\ Len(file) < fPosition /\ fPosition <= MaxLength
                       /\ mark + Len(output) < fPosition
      /\ ~fBeyondEOF => /\ astray \/ mark + Len(output) <= fPosition
                        /\ ~(mark + Len(output) < fPosition)
                        /\ fPosition <= mark + OutSize
  BY <1>4, <1>6, <1>7 DEF FileInv, Positions
<1>9. QED
  BY <1>1, <1>3, <1>4, <1>5, <1>6, <1>8

LEMMA WriteFailsKeeps ==
  ASSUME FileInv, writePB > 0, WriteFails,
         UNCHANGED <<mode, fAppend, readVars, callVars, fBeyondEOF, fPosition, astray>>
  PROVE  FileInv'
<1>1. /\ output' = <<>> /\ writePB' = 0 /\ dropped' = TRUE /\ fAsyncError' = TRUE
      /\ fWriteShutdown' = TRUE
      /\ UNCHANGED <<file, mark, mode, fAppend, fReadShutdown, fReadAhead, input,
                     readPB, deferRead, pc, op, rest, fBeyondEOF, fPosition, astray>>
  BY DEF WriteFails, readVars, callVars
<1>2. /\ mode # "rdonly" /\ Ahead = 0 /\ Len(output) \in Nat
      /\ pc \notin {"read", "awaitInput", "direct", "synced", "seek", "truncate",
                    "syncRead"}
      /\ fBeyondEOF => /\ Len(file) < fPosition /\ fPosition <= MaxLength
                       /\ mark + Len(output) < fPosition
      /\ ~fBeyondEOF => /\ astray \/ mark + Len(output) <= fPosition
                        /\ fPosition <= mark + OutSize
  BY BehindFacts
<1>3. /\ mark \in Nat /\ fPosition \in Nat /\ MaxLength \in Nat /\ rest \in Nat
      /\ OutSize \in Nat
  BY FileFacts, ConstantFacts DEF FileInv, FileTypes
<1>4. Len(output') = 0 /\ output' \in Seq(Bytes) /\ 0 <= OutSize /\ writePB' \in 0 .. 0
  BY <1>1, <1>3, EmptyFacts
<1>5. FileTypes'
  BY <1>1, <1>4 DEF FileInv, FileTypes
<1>6. CallPlaces' /\ Reading' /\ Contents'
  BY <1>1 DEF FileInv, CallPlaces, Reading, Contents
<1>7. Writing'
  BY <1>1, <1>2 DEF Writing
<1>8. Positions'
  <2>1. Ahead' = 0
    BY <1>1, <1>2 DEF Ahead
  <2>2. /\ fBeyondEOF => mark + 0 < fPosition
        /\ ~fBeyondEOF => /\ astray \/ mark + 0 <= fPosition + 0
                          /\ fPosition + 0 <= mark + OutSize
    BY <1>2, <1>3
  <2>3. QED
    BY <1>1, <1>2, <1>4, <2>1, <2>2 DEF Positions
<1>9. Room'
  <2>1. mark + Len(output) <= MaxLength
    BY DEF FileInv, Room
  <2>2. mark + 0 <= MaxLength
    BY <1>2, <1>3, <2>1
  <2>3. op.name = "write" /\ pc = "sync" => mark + Len(output) + rest <= MaxLength
    BY DEF FileInv, Room
  <2>4. op.name = "write" /\ pc = "sync" => mark + 0 + rest <= MaxLength
    BY <1>2, <1>3, <2>3
  <2>5. /\ pc = "fill" => /\ fPosition <= op.to /\ op.to + rest <= MaxLength
                          /\ mark + Len(output) <= fPosition
        /\ pc = "put" => /\ fPosition + rest <= MaxLength
                         /\ mark + Len(output) + rest <= MaxLength
    BY DEF FileInv, Room
  <2>6. /\ pc = "fill" => mark + 0 <= fPosition
        /\ pc = "put" => mark + 0 + rest <= MaxLength
    BY <1>2, <1>3, <2>5
  <2>7. op.name = "write" /\ pc = "sync" =>
          /\ op.to = fPosition /\ op.to + rest <= MaxLength
          /\ Len(file) + rest <= MaxLength /\ (~fAppend => fBeyondEOF)
    BY DEF FileInv, Room
  <2>8. QED
    BY <1>1, <1>2, <1>4, <2>2, <2>4, <2>5, <2>6, <2>7 DEF Room
<1>10. QED
  BY <1>5, <1>6, <1>7, <1>8, <1>9 DEF FileInv

LEMMA StoredIsLaid ==
  ASSUME NEW at, NEW s
  PROVE  Stored(at, s) = Laid(file, at, s)
BY DEF Stored, Laid

LEMMA WriteStoresKeeps ==
  ASSUME FileInv, writePB > 0,
         file' = Stored(mark, SubSeq(output, 1, writePB)), mark' = mark + writePB,
         output' = SubSeq(output, writePB + 1, Len(output)),
         StartWrite(fPosition, SubSeq(output, writePB + 1, Len(output))),
         UNCHANGED <<fWriteShutdown, fAsyncError, dropped, mode, fAppend, readVars,
                     callVars, fBeyondEOF, fPosition, astray>>
  PROVE  FileInv'
<1> DEFINE first == SubSeq(output, 1, writePB)
           later == SubSeq(output, writePB + 1, Len(output))
<1>1. /\ file' = Stored(mark, first) /\ mark' = mark + writePB /\ output' = later
      /\ StartWrite(fPosition, later)
      /\ UNCHANGED <<fWriteShutdown, fAsyncError, dropped, mode, fAppend, fReadShutdown,
                     fReadAhead, input, readPB, deferRead, pc, op, rest, fBeyondEOF,
                     fPosition, astray>>
  BY DEF readVars, callVars
<1>2. /\ mode # "rdonly" /\ ~fWriteShutdown /\ ~dropped /\ Ahead = 0
      /\ pc \notin {"read", "awaitInput", "direct", "synced", "seek", "truncate",
                    "syncRead"}
      /\ input = <<>> /\ readPB.state \notin {"ahead", "direct", "done"}
      /\ fBeyondEOF => /\ Len(file) < fPosition /\ fPosition <= MaxLength
                       /\ mark + Len(output) < fPosition /\ astray
      /\ ~fBeyondEOF => /\ astray \/ mark + Len(output) <= fPosition
                        /\ ~(mark + Len(output) < fPosition)
                        /\ fPosition <= mark + OutSize
      /\ writePB \in Nat /\ writePB <= Len(output) /\ Len(output) \in Nat
  BY BehindFacts
<1>3. /\ mark \in Nat /\ fPosition \in Nat /\ MaxLength \in Nat /\ rest \in Nat
      /\ OutSize \in Nat /\ Len(file) \in Nat /\ mark <= Len(file)
      /\ Len(file) <= MaxLength /\ Len(output) <= OutSize
      /\ file \in Seq(Bytes) /\ output \in Seq(Bytes) /\ op.to \in Nat
  BY FileFacts, ConstantFacts DEF FileInv, FileTypes
<1>4. first \in Seq(Bytes) /\ Len(first) = writePB
  <2>1. 1 \in 1 .. Len(output) + 1 /\ writePB \in 1 - 1 .. Len(output)
    BY <1>2
  <2>2. first \in Seq(Bytes) /\ Len(first) = writePB - 1 + 1
    BY <1>3, <2>1, Slice
  <2> HIDE DEF first
  <2>3. QED
    BY <1>2, <2>2
<1>5. later \in Seq(Bytes) /\ Len(later) = Len(output) - writePB
  <2>1. /\ writePB + 1 \in 1 .. Len(output) + 1
        /\ Len(output) \in (writePB + 1) - 1 .. Len(output)
    BY <1>2
  <2>2. later \in Seq(Bytes) /\ Len(later) = Len(output) - (writePB + 1) + 1
    BY <1>3, <2>1, Slice
  <2> HIDE DEF later
  <2>3. QED
    BY <1>2, <2>2
<1> HIDE DEF first, later
<1>6. /\ file' \in Seq(Bytes)
      /\ Len(file') = IF mark + writePB > Len(file) THEN mark + writePB ELSE Len(file)
  <2>1. file' = Laid(file, mark, first)
    BY <1>1, StoredIsLaid
  <2>2. mark \in 0 .. Len(file)
    BY <1>3
  <2>3. /\ Laid(file, mark, first) \in Seq(Bytes)
        /\ Len(Laid(file, mark, first)) =
             IF mark + Len(first) > Len(file) THEN mark + Len(first) ELSE Len(file)
    BY <1>3, <1>4, <2>2, LaidProperties
  <2>4. QED
    BY <1>4, <2>1, <2>3
<1>7. mark + Len(output) <= MaxLength
  BY DEF FileInv, Room
<1>8. /\ Len(file') <= MaxLength /\ mark + writePB \in 0 .. Len(file')
      /\ mark + writePB + Len(later) = mark + Len(output)
      /\ Len(file) <= fPosition /\ mark + Len(output) <= fPosition
         => Len(file') <= fPosition
      /\ Len(file) < fPosition /\ mark + Len(output) < fPosition
         => Len(file') < fPosition
      /\ \/ Len(file') <= mark + Len(output)
         \/ Len(file') = Len(file)
      /\ Len(later) <= OutSize
      /\ fPosition <= mark + OutSize => fPosition <= mark + writePB + OutSize
  BY <1>2, <1>3, <1>5, <1>6, <1>7
<1>9. writePB' \in 0 .. Len(later)
  BY <1>1, <1>3, <1>5, StartWriteProperties
<1>10. FileTypes'
  <2>1. /\ file' \in Seq(Bytes) /\ Len(file') <= MaxLength /\ mark' \in 0 .. Len(file')
        /\ output' \in Seq(Bytes) /\ Len(output') <= OutSize
        /\ writePB' \in 0 .. Len(output')
    BY <1>1, <1>5, <1>6, <1>8, <1>9
  <2>2. UNCHANGED <<mode, fAppend, fReadShutdown, fWriteShutdown, fReadAhead,
                    fBeyondEOF, fAsyncError, deferRead, dropped, astray, fPosition,
                    input, readPB, pc, op, rest>>
    BY <1>1
  <2>3. QED
    BY <2>1, <2>2 DEF FileInv, FileTypes
<1>11. CallPlaces' /\ Reading'
  BY <1>1 DEF FileInv, CallPlaces, Reading
<1>12. Writing'
  BY <1>1, <1>2 DEF Writing
<1>13. Positions'
  <2>1. Ahead' = 0
    BY <1>1, <1>2 DEF Ahead
  <2>2. /\ fBeyondEOF => Len(file') < fPosition /\ mark + Len(output) < fPosition
        /\ ~fBeyondEOF => /\ astray \/ mark + Len(output) <= fPosition + 0
                          /\ ~(mark + Len(output) < fPosition + 0)
                          /\ fPosition + 0 <= mark + writePB + OutSize
    BY <1>2, <1>3, <1>8
  <2>3. QED
    BY <1>1, <1>2, <1>8, <2>1, <2>2 DEF Positions
<1>14. Contents'
  <2>1. mark' \in Nat
    BY <1>1, <1>2, <1>3
  <2>2. QED
    BY <1>1, <1>2, <2>1, EmptyContents
<1>15. Room'
  <2>1. op.name = "write" /\ pc = "sync" =>
          /\ op.to = fPosition /\ op.to + rest <= MaxLength
          /\ Len(file) + rest <= MaxLength /\ mark + Len(output) + rest <= MaxLength
          /\ ~fAppend => fBeyondEOF
    BY DEF FileInv, Room
  <2>2. op.name = "write" /\ pc = "sync" => Len(file') + rest <= MaxLength
    <3>1. ASSUME NEW l \in Nat, l <= mark + Len(output) \/ l = Len(file),
                 Len(file) + rest <= MaxLength, mark + Len(output) + rest <= MaxLength
          PROVE  l + rest <= MaxLength
      BY <1>2, <1>3, <3>1
    <3>2. Len(file') \in Nat
      BY <1>6, LenProperties
    <3>3. QED
      BY <1>8, <2>1, <3>1, <3>2
  <2>3. /\ pc = "fill" => /\ fPosition <= op.to /\ op.to + rest <= MaxLength
                          /\ Len(file) <= fPosition /\ mark + Len(output) <= fPosition
        /\ pc = "put" => /\ fPosition + rest <= MaxLength
                         /\ mark + Len(output) + rest <= MaxLength
    BY <1>2 DEF FileInv, Room
  <2>4. QED
    BY <1>1, <1>2, <1>7, <1>8, <2>1, <2>2, <2>3 DEF Room
<1>16. QED
  BY <1>10, <1>11, <1>12, <1>13, <1>14, <1>15 DEF FileInv

LEMMA WriteDoneKeeps ==
  ASSUME FileInv, NEW fails, WriteDone(fails)
  PROVE  FileInv'
<1>1. /\ writePB > 0
      /\ UNCHANGED <<mode, fAppend, readVars, callVars, fBeyondEOF, fPosition, astray>>
  BY DEF WriteDone
<1>2. CASE fails
  BY <1>1, <1>2, WriteFailsKeeps DEF WriteDone
<1>3. CASE ~fails
  BY <1>1, <1>3, WriteStoresKeeps DEF WriteDone
<1>4. QED
  BY <1>2, <1>3

-----------------------------------------------------------------------------
(***************************************************************************)
(* The invariant.                                                          *)
(***************************************************************************)
LEMMA FileInitially ==
  ASSUME Init
  PROVE  FileInv
<1>1. /\ file = Start /\ mark = 0 /\ mode \in {"rdonly", "wronly", "rdwr"}
      /\ fAppend \in BOOLEAN /\ fReadShutdown = (mode # "rdonly")
      /\ fReadAhead = (mode = "rdonly") /\ fWriteShutdown = (mode = "rdonly")
      /\ fBeyondEOF = FALSE /\ fPosition = 0 /\ fAsyncError = FALSE
      /\ input = <<>> /\ readPB = Idle /\ deferRead = FALSE
      /\ output = <<>> /\ writePB = 0
      /\ pc = "idle" /\ op = NoCall /\ rest = 0
      /\ dropped = FALSE /\ astray = FALSE
  BY DEF Init
<1>2. /\ Idle \in [state : {"idle", "ahead", "direct", "done"}, count : Nat,
                   got : Seq(Bytes), error : BOOLEAN]
      /\ Idle.state = "idle"
  BY EmptyFacts DEF Idle
<1>3. op \in Ops /\ op.name = "none" /\ rest \in 0 .. op.count
  BY <1>1, NoCallTyped
<1>4. /\ Len(input) = 0 /\ Len(output) = 0 /\ 0 <= OutSize /\ 0 <= InSize
      /\ input \in Seq(Bytes) /\ output \in Seq(Bytes) /\ 0 <= MaxLength
      /\ writePB \in 0 .. Len(output) /\ 0 + 0 <= InSize
  BY <1>1, EmptyFacts, ConstantFacts
<1>5. FileTypes
  <2>1. /\ fReadShutdown \in BOOLEAN /\ fReadAhead \in BOOLEAN
        /\ fWriteShutdown \in BOOLEAN
    BY <1>1
  <2>2. file \in Seq(Bytes) /\ Len(file) <= MaxLength /\ mark \in 0 .. Len(file)
    BY <1>1, ConstantFacts
  <2>3. QED
    BY <1>1, <1>2, <1>3, <1>4, <2>1, <2>2 DEF FileTypes, Labels, Ops
<1>6. CallPlaces
  BY <1>1, <1>3 DEF CallPlaces
<1>7. Reading
  BY <1>1, <1>2, <1>4 DEF Reading
<1>8. Writing
  BY <1>1 DEF Writing
<1>9. Positions
  <2>1. Ahead = 0
    BY <1>1, <1>2, <1>4 DEF Ahead
  <2>2. QED
    BY <1>1, <1>4, <2>1, ConstantFacts DEF Positions
<1>10. Contents
  <2>1. SubSeq(file, 0 - 0 + 1, 0) = <<>>
    BY SubSeqEmpty
  <2>2. QED
    BY <1>1, <1>2, <1>4, <2>1 DEF Contents
<1>11. Room
  BY <1>1, <1>3, <1>4, ConstantFacts DEF Room
<1>12. QED
  BY <1>5, <1>6, <1>7, <1>8, <1>9, <1>10, <1>11 DEF FileInv

LEMMA FileStuttering ==
  ASSUME FileInv, UNCHANGED vars
  PROVE  FileInv'
<1>1. UNCHANGED <<file, mark, mode, fAppend, fReadShutdown, fReadAhead, input, readPB,
                  deferRead, fWriteShutdown, output, writePB, dropped, pc, op, rest,
                  fBeyondEOF, fPosition, fAsyncError, astray>>
  BY DEF vars, fileVars, readVars, writeVars, callVars
<1>2. Ahead' = Ahead
  BY <1>1 DEF Ahead
<1>3. QED
  BY <1>1, <1>2 DEF FileInv, FileTypes, CallPlaces, Reading, Writing, Positions,
                    Contents, Room

LEMMA FileStep ==
  ASSUME FileInv, [Next]_vars
  PROVE  FileInv'
<1>1. CASE Calls
  <2>1. CASE \E n \in 1 .. MaxLength : mode # "wronly" /\ BeginRead(n)
    BY <2>1, BeginReadKeeps
  <2>2. CASE \E n \in 1 .. MaxLength :
               /\ (IF fPosition > Len(file) + Len(output) THEN fPosition
                   ELSE Len(file) + Len(output)) + n <= MaxLength
               /\ BeginWrite(n)
    BY <2>2, BeginWriteKeeps
  <2>3. CASE \E name \in {"lseek", "ftruncate"}, to \in 0 .. MaxLength :
               BeginSeek(name, to)
    BY <2>3, BeginSeekKeeps
  <2>4. CASE BeginFsync
    BY <2>4, BeginReadKeeps
  <2>5. QED
    BY <1>1, <2>1, <2>2, <2>3, <2>4 DEF Calls
<1>2. CASE CallCode
  <2>1. CASE \/ SyncRead \/ SyncWrite \/ Lseek \/ Ftruncate \/ TruncateAtEnd
             \/ SetEOF \/ SeekEnd \/ SeekEndFails
    BY <2>1, SyncReadKeeps, SyncWriteKeeps, LseekKeeps, FtruncateKeeps,
       TruncateAtEndKeeps, SetEOFKeeps, SeekEndKeeps, SeekEndFailsKeeps
  <2>2. CASE \/ Fsync \/ WouldBlock \/ Written \/ ReadBeyond \/ ReadEmpty
             \/ ReadFull \/ SeekFails \/ TruncateFails
    BY <2>2, ReturnsKeep
  <2>3. CASE Filled \/ AwaitInput \/ InputArrives
    BY <2>3, WaitsKeep
  <2>4. CASE \/ Fill \/ Write \/ ReadInput \/ DirectRead \/ DirectReadReturns
             \/ DirectReadFails
    BY <2>4, FillKeeps, WriteKeeps, ReadInputKeeps, DirectReadKeeps,
       DirectReadReturnsKeeps, DirectReadFailsKeeps
  <2>5. QED
    BY <1>2, <2>1, <2>2, <2>3, <2>4 DEF CallCode
<1>3. CASE Volume
  <2>1. PICK fails \in BOOLEAN :
          ReadAheadDone(fails) \/ DirectReadDone(fails) \/ WriteDone(fails)
    BY <1>3, MacFileAssumption DEF Volume
  <2>2. QED
    BY <2>1, ReadAheadDoneKeeps, DirectReadDoneKeeps, WriteDoneKeeps
<1>4. CASE UNCHANGED vars
  BY <1>4, FileStuttering
<1>5. QED
  BY <1>1, <1>2, <1>3, <1>4 DEF Next

\* What all the others rest on: how position, mark, buffers, requests and the
\* place in the call fit together at every step of read, write, lseek, ftruncate
\* and fsync (GUSIMacFile.cpp, GUSIMacFile.nw:1183).
THEOREM FileInvariant == Spec => []FileInv
<1>1. Init => FileInv
  BY FileInitially
<1>2. FileInv /\ [Next]_vars => FileInv'
  BY FileStep
<1>3. QED
  BY <1>1, <1>2, PTL DEF Spec

\* The values of the variables: the buffers, and what is requested for them,
\* keep within their sizes, and the mark within the file.
THEOREM FileTyped == Spec => []TypeOK
<1>1. FileInv => TypeOK
  <2> SUFFICES ASSUME FileInv PROVE TypeOK
    OBVIOUS
  <2>1. /\ mark \in Nat /\ mark <= Len(file) /\ Len(file) \in Nat /\ fPosition \in Nat
        /\ Len(file) <= MaxLength /\ MaxLength \in Nat /\ OutSize \in Nat
        /\ Len(output) \in Nat /\ Ahead \in Nat
    BY FileFacts, ConstantFacts DEF FileInv, FileTypes
  <2>2. fPosition \in 0 .. MaxLength + OutSize
    <3>1. CASE fBeyondEOF
      BY <2>1, <3>1 DEF FileInv, Positions
    <3>2. CASE ~fBeyondEOF /\ mode = "rdonly"
      <4>1. fPosition + Ahead <= mark
        BY <3>2 DEF FileInv, Positions
      <4>2. QED
        BY <2>1, <4>1
    <3>3. CASE ~fBeyondEOF /\ mode # "rdonly"
      <4>1. fPosition + Ahead <= mark + OutSize
        BY <3>3 DEF FileInv, Positions
      <4>2. QED
        BY <2>1, <4>1
    <3>4. QED
      BY <3>1, <3>2, <3>3
  <2>3. Len(input) + (IF readPB.state = "ahead" THEN readPB.count ELSE 0) <= InSize
    BY DEF FileInv, Reading
  <2>4. /\ file \in Seq(Nat \cup {Zero, Byte}) /\ mark \in 0 .. Len(file)
        /\ mode \in {"rdonly", "wronly", "rdwr"} /\ rest \in 0 .. op.count
        /\ readPB.state \in {"idle", "ahead", "direct", "done"}
        /\ Len(output) <= OutSize
    BY DEF FileInv, FileTypes, Bytes
  <2>5. writePB <= Len(output)
    BY <2>1 DEF FileInv, FileTypes
  <2>6. {fAppend, fReadShutdown, fWriteShutdown, fReadAhead, fBeyondEOF,
         fAsyncError, deferRead, dropped, astray} \subseteq BOOLEAN
    BY DEF FileInv, FileTypes
  <2>7. QED
    BY <2>1, <2>2, <2>3, <2>4, <2>5, <2>6 DEF TypeOK
<1>2. QED
  BY <1>1, FileInvariant, PTL

\* fsync does not answer ok when bytes that a write has accepted are not on the
\* volume: what GUSIMFWriteDone gives up shuts the socket down for good.
THEOREM SyncHears == Spec => SyncReportsLoss
<1>1. FileInv /\ [Next]_vars
        => [At("synced") /\ status' = "ok" /\ pc' = "idle"
            => output = <<>> /\ ~dropped]_vars
  <2> SUFFICES ASSUME FileInv, [Next]_vars, pc = "synced", status' = "ok", pc' = "idle"
               PROVE  output = <<>> /\ ~dropped
    BY DEF At
  <2>1. op.name = "fsync" /\ output = <<>>
    BY DEF FileInv, CallPlaces, Writing
  <2>2. Fsync
    <3>1. CASE Calls
      BY <3>1 DEF Calls, BeginRead, BeginFsync, BeginSeek, BeginWrite, Begin, At
    <3>2. CASE CallCode
      BY <3>2 DEF CallCode, SyncRead, SyncWrite, Lseek, Ftruncate, TruncateAtEnd,
                  SetEOF, TruncateFails, SeekEnd, SeekFails, SeekEndFails, Fill,
                  Filled, WouldBlock, Write, Written, ReadBeyond, ReadInput, ReadEmpty,
                  AwaitInput, InputArrives, DirectRead, DirectReadReturns,
                  DirectReadFails, ReadFull, At
    <3>3. CASE Volume \/ UNCHANGED vars
      <4>1. pc' = pc
        BY <3>3 DEF Volume, ReadAheadDone, DirectReadDone, WriteDone, callVars, vars
      <4>2. QED
        BY <4>1
    <3>4. QED
      BY <3>1, <3>2, <3>3 DEF Next
  <2>3. ~fWriteShutdown
    BY <2>2 DEF Fsync, Return
  <2>4. ~dropped
    BY <2>3 DEF FileInv, Writing
  <2>5. QED
    BY <2>1, <2>4
<1>2. QED
  BY <1>1, FileInvariant, PTL DEF Spec, SyncReportsLoss

-----------------------------------------------------------------------------
(***************************************************************************)
(* The file keeps the promises of PosixFile.                               *)
(***************************************************************************)
Content == Stored(mark, output)
Lost == dropped \/ astray

LEMMA ContentIsLaid ==
  /\ Content = Laid(file, mark, output)
  /\ Content' = Laid(file', mark', output')
BY DEF Content, Stored, Laid

\* What a step does, as PosixFile puts it.
Promised == [File!Next(Chunks)]_(File!vars)

LEMMA Stutters ==
  ASSUME Content' = Content, Offset' = Offset, data' = data, Lost' = Lost
  PROVE  Promised
BY DEF Promised, File!vars, Content, Lost

LEMMA Loses ==
  ASSUME Lost'
  PROVE  Promised
BY DEF Promised, File!Next, File!Lose, Lost

LEMMA Forgets ==
  ASSUME Content' = Content, Offset' = Offset, data' = <<>>, Lost' = Lost
  PROVE  Promised
BY DEF Promised, File!Next, File!Forget, Content, Lost

LEMMA Seeks ==
  ASSUME Content' = Content, Offset' \in Nat, data' = data, Lost' \in {Lost, FALSE}
  PROVE  Promised
BY DEF Promised, File!Next, File!Lseek, Content, Lost

LEMMA Truncates ==
  ASSUME NEW n \in 0 .. Len(Content), Content' = SubSeq(Content, 1, n), Offset' = n,
         data' = data, Lost' \in {Lost, FALSE}
  PROVE  Promised
BY DEF Promised, File!Next, File!Truncate, Content, Lost

LEMMA Extends ==
  ASSUME Offset > Len(Content), NEW n \in 1 .. Offset - Len(Content),
         Content' = Content \o [i \in 1 .. n |-> Zero],
         Offset' = Offset, data' = data, Lost' = Lost
  PROVE  Promised
BY DEF Promised, File!Next, File!Extend, Content, Lost

LEMMA Reads ==
  ASSUME Offset < Len(Content), NEW to \in Offset + 1 .. Len(Content),
         data' = SubSeq(Content, Offset + 1, to), Offset' = to,
         Content' = Content, Lost' = Lost
  PROVE  Promised
BY DEF Promised, File!Next, File!Read, Content, Lost

LEMMA Writes ==
  ASSUME Offset <= Len(Content), NEW bytes \in Chunks,
         Content' = Laid(Content, Offset, bytes),
         Offset' = Offset + Len(bytes), data' = data, Lost' = Lost
  PROVE  Promised
BY DEF Promised, File!Next, File!Write, File!Overlay, Laid, Content, Lost

LEMMA FileBegins ==
  ASSUME Init
  PROVE  File!Init(Start)
<1>1. /\ file = Start /\ mark = 0 /\ output = <<>> /\ fPosition = 0 /\ data = <<>>
      /\ op.name = "none" /\ dropped = FALSE /\ astray = FALSE
  BY NoCallTyped DEF Init
<1>2. Start \in Seq(Bytes) /\ 0 \in 0 .. Len(Start)
  BY ConstantFacts
<1>3. Stored(mark, output) = Start
  BY <1>1, <1>2, LaidNothing, StoredIsLaid
<1>4. Offset = 0
  BY <1>1 DEF Offset
<1>5. QED
  BY <1>1, <1>3, <1>4 DEF File!Init

LEMMA OffsetFacts ==
  /\ op.name # "write" \/ pc \notin {"sync", "seek", "fill"} => Offset = fPosition
  /\ op'.name # "write" \/ pc' \notin {"sync", "seek", "fill"} => Offset' = fPosition'
BY DEF Offset

\* With nothing left to write, the content is the file.
LEMMA NothingBehind ==
  /\ FileTypes /\ output = <<>> => Content = file
  /\ FileTypes' /\ output' = <<>> => Content' = file'
<1>1. ASSUME FileTypes, output = <<>>
      PROVE  Content = file
  <2>1. file \in Seq(Bytes) /\ mark \in 0 .. Len(file)
    BY <1>1 DEF FileTypes
  <2>2. QED
    BY <1>1, <2>1, LaidNothing, ContentIsLaid
<1>2. ASSUME FileTypes', output' = <<>>
      PROVE  Content' = file'
  <2>1. file' \in Seq(Bytes) /\ mark' \in 0 .. Len(file')
    BY <1>2 DEF FileTypes
  <2>2. QED
    BY <1>2, <2>1, LaidNothing, ContentIsLaid
<1>3. QED
  BY <1>1, <1>2

\* A call goes on, or returns, and moves nothing.
LEMMA StillStutters ==
  ASSUME FileInv, Still, data' = data,
         op'.name # "write" \/ pc' \notin {"sync", "seek", "fill"},
         op.name # "write" \/ pc \notin {"sync", "seek", "fill"}
  PROVE  Promised
<1>1. Content' = Content /\ Lost' = Lost /\ fPosition' = fPosition
  BY ContentIsLaid DEF Still, Lost
<1>2. Offset' = Offset
  BY <1>1, OffsetFacts
<1>3. QED
  BY <1>1, <1>2, Stutters

LEMMA ReturnsPromised ==
  ASSUME FileInv,
         \/ Fsync \/ WouldBlock \/ Written \/ ReadBeyond \/ ReadEmpty \/ ReadFull
         \/ AwaitInput \/ InputArrives \/ SeekFails \/ TruncateFails
  PROVE  Promised
<1>1. /\ Still /\ data' = data /\ pc' \in {"idle", "awaitInput", "read"}
      /\ \/ pc \in {"synced", "put", "read", "awaitInput", "truncate"}
         \/ op.name \in {"lseek", "ftruncate"}
  BY QuietStill DEF Fsync, WouldBlock, Written, ReadBeyond, ReadEmpty, ReadFull,
     AwaitInput, InputArrives, SeekFails, TruncateFails, Return, At, Goto, Still,
     fileVars, readVars, writeVars
<1>2. QED
  BY <1>1, StillStutters

LEMMA SyncWritePromised ==
  ASSUME FileInv, SyncWrite \/ Filled
  PROVE  Promised
<1>1. /\ Still /\ data' = data /\ op' = op /\ fPosition' = fPosition
  BY QuietStill DEF SyncWrite, Filled, Still
<1>2. Content' = Content /\ Lost' = Lost
  BY <1>1, ContentIsLaid DEF Still, Lost
<1>3. Offset' = Offset
  <2>1. CASE SyncWrite
    <3>1. pc = "sync" /\ pc' = AfterSync
      BY <2>1 DEF SyncWrite, At, Goto
    <3>2. op.name = "write" => pc' = "seek"
      BY <3>1 DEF AfterSync
    <3>3. fAppend' = fAppend
      BY <1>1 DEF Still
    <3>4. QED
      BY <1>1, <3>1, <3>2, <3>3 DEF Offset
  <2>2. CASE Filled
    <3>1. pc = "fill" /\ pc' = "put" /\ fPosition >= op.to
      BY <2>2 DEF Filled, At, Goto
    <3>2. op.name = "write" /\ ~fAppend /\ fPosition <= op.to
      BY <3>1 DEF FileInv, CallPlaces, Room
    <3>3. op.to \in Nat /\ fPosition \in Nat
      BY FileFacts DEF FileInv, FileTypes
    <3>4. op.to = fPosition
      BY <3>1, <3>2, <3>3
    <3>5. QED
      BY <1>1, <3>1, <3>2, <3>4 DEF Offset
  <2>3. QED
    BY <2>1, <2>2
<1>4. QED
  BY <1>1, <1>2, <1>3, Stutters

LEMMA CallsPromised ==
  ASSUME FileInv, Calls
  PROVE  Promised
<1>1. UNCHANGED <<file, mark, output, dropped, fPosition, astray>>
  BY DEF Calls, BeginRead, BeginFsync, BeginSeek, BeginWrite, Quiet, fileVars, writeVars
<1>2. Content' = Content /\ Lost' = Lost
  BY <1>1, ContentIsLaid DEF Lost
<1>3. pc = "idle"
  BY DEF Calls, BeginRead, BeginFsync, BeginSeek, BeginWrite, Begin, At
<1>4. Offset = fPosition
  BY <1>3, OffsetFacts
<1>5. Offset' = fPosition /\ data' \in {<<>>, data}
  <2>1. CASE \E n : BeginRead(n) \/ BeginFsync
    <3>1. op'.name # "write" /\ data' = <<>>
      BY <2>1 DEF BeginRead, BeginFsync, Begin
    <3>2. QED
      BY <1>1, <3>1, OffsetFacts
  <2>2. CASE \E name \in {"lseek", "ftruncate"} : \E to : BeginSeek(name, to)
    <3>1. op'.name # "write" /\ data' = <<>>
      BY <2>2 DEF BeginSeek, Begin
    <3>2. QED
      BY <1>1, <3>1, OffsetFacts
  <2>3. CASE \E n : BeginWrite(n)
    <3>1. CASE pc' = "idle"
      <4>1. data' \in {<<>>, data}
        BY <2>3 DEF BeginWrite, Begin
      <4>2. QED
        BY <1>1, <3>1, <4>1, OffsetFacts
    <3>2. CASE pc' # "idle"
      <4>1. op'.to = fPosition /\ data' = <<>>
        BY <2>3, <3>2 DEF BeginWrite, Begin, Return
      <4>2. QED
        BY <1>1, <4>1 DEF Offset
    <3>3. QED
      BY <3>1, <3>2
  <2>4. QED
    BY <2>1, <2>2, <2>3 DEF Calls
<1>6. QED
  BY <1>2, <1>4, <1>5, Stutters, Forgets

\* A position is set: what has been written is on the volume.
LEMMA SyncReadPromised ==
  ASSUME FileInv, SyncRead, ~Lost'
  PROVE  Promised
<1>1. /\ pc = "syncRead" /\ pc' = "seek" /\ op' = op /\ data' = data
      /\ astray' = (astray \/ input # <<>>)
      /\ UNCHANGED <<file, mark, output, dropped, fPosition>>
  BY DEF SyncRead, At, Goto, fileVars, writeVars
<1>2. ~dropped /\ ~astray /\ ~astray' /\ ~dropped'
  BY <1>1 DEF Lost
<1>3. Content' = Content /\ Lost' = Lost
  BY <1>1, <1>2, ContentIsLaid DEF Lost
<1>4. op.name \in {"lseek", "ftruncate"}
  BY <1>1 DEF FileInv, CallPlaces
<1>5. Offset' = Offset
  BY <1>1, <1>4, OffsetFacts
<1>6. QED
  BY <1>1, <1>3, <1>5, Stutters

LEMMA LseekPromised ==
  ASSUME FileInv, FileInv', Lseek \/ SeekEnd \/ Ftruncate \/ TruncateAtEnd, ~Lost'
  PROVE  Promised
<1>1. /\ pc \in {"seek", "truncate"} /\ file' = file /\ output' = output
      /\ data' = data
  BY DEF Lseek, SeekEnd, Ftruncate, TruncateAtEnd, At, writeVars
<1>2. output = <<>>
  BY <1>1, BeforeSeek
<1>3. Content' = Content
  BY <1>1, <1>2, NothingBehind DEF FileInv
<1>4. Lost' = FALSE
  BY DEF Lost
<1>5. Offset' \in Nat
  <2>1. fPosition' \in Nat /\ op'.to \in Nat
    BY DEF FileInv, FileTypes
  <2>2. QED
    BY <2>1 DEF Offset
<1>6. QED
  BY <1>1, <1>3, <1>4, <1>5, Seeks

\* The file is cut at its position: it has no room to fill there, as the mark is
\* where the position is.
LEMMA SetEOFPromised ==
  ASSUME FileInv, FileInv', SetEOF, ~Lost'
  PROVE  Promised
<1>1. /\ pc = "truncate" /\ ~fBeyondEOF /\ mode # "rdonly" /\ output' = output
      /\ data' = data /\ dropped' = dropped /\ astray' = astray /\ pc' = "idle"
      /\ fPosition' = fPosition /\ file' = Resized(file, fPosition)
  BY DEF SetEOF, At, Return, writeVars
<1>2. output = <<>>
  BY <1>1, BeforeSeek
<1>3. Content = file /\ Content' = file'
  BY <1>1, <1>2, NothingBehind DEF FileInv
<1>4. Lost' = FALSE /\ ~dropped /\ ~astray
  BY <1>1 DEF Lost
<1>5. Offset' = fPosition
  BY <1>1, OffsetFacts
<1> DEFINE at == fPosition
<1>6. /\ at \in Nat /\ mark \in Nat /\ Len(file) \in Nat
      /\ mark <= Len(file) /\ file \in Seq(Bytes)
  BY FileFacts DEF FileInv, FileTypes
<1>7. mark <= at /\ ~(mark < at)
  BY <1>1, <1>4, BeforeSeek
<1> HIDE DEF at
<1>8. at \in 0 .. Len(file) /\ at <= Len(file)
  BY <1>6, <1>7
<1>9. Resized(file, at) = SubSeq(file, 1, at)
  <2> DEFINE r == Resized(file, at)
             s == SubSeq(file, 1, at)
  <2>1. /\ r \in Seq(Bytes) /\ Len(r) = at
        /\ \A i \in 1 .. at : r[i] = IF i <= Len(file) THEN file[i] ELSE Zero
    BY <1>6, ResizedProperties
  <2>2. /\ s \in Seq(Bytes) /\ Len(s) = at - 1 + 1
        /\ \A i \in 1 .. at - 1 + 1 : s[i] = file[1 + i - 1]
    <3>1. 1 \in 1 .. Len(file) + 1 /\ at \in 1 - 1 .. Len(file)
      BY <1>6, <1>8
    <3>2. QED
      BY <1>6, <3>1, Slice
  <2> HIDE DEF r, s
  <2>3. Len(s) = at /\ \A i \in 1 .. at : s[i] = file[i]
    BY <1>6, <2>2
  <2>4. \A i \in 1 .. at : r[i] = file[i]
    BY <1>6, <1>8, <2>1
  <2>5. r = s
    BY <2>1, <2>2, <2>3, <2>4, SeqEqual
  <2>6. QED
    BY <2>5 DEF r, s
<1>10. Content' = SubSeq(Content, 1, at) /\ at \in 0 .. Len(Content)
  BY <1>1, <1>3, <1>8, <1>9 DEF at
<1>11. Offset' = at /\ Lost' \in {Lost, FALSE}
  BY <1>4, <1>5 DEF at
<1>12. QED
  BY <1>1, <1>10, <1>11, Truncates

\* An appended write goes on, to its position, when its seek has failed.
LEMMA SeekEndFailsPromised ==
  ASSUME FileInv, SeekEndFails, ~Lost'
  PROVE  Promised
<1>1. /\ pc = "seek" /\ op.name = "write" /\ op' = op /\ data' = data
      /\ pc' = (IF fAppend THEN "put" ELSE "fill")
      /\ astray' = (astray \/ fBeyondEOF)
      /\ UNCHANGED <<file, mark, fAppend, output, dropped, fPosition>>
  BY DEF SeekEndFails, At, Goto, fileVars, writeVars
<1>2. ~fBeyondEOF /\ Lost' = Lost
  BY <1>1 DEF Lost
<1>3. Content' = Content
  BY <1>1, ContentIsLaid
<1>4. fAppend
  BY <1>1, <1>2 DEF FileInv, Room
<1>5. Offset' = Offset
  BY <1>1, <1>4 DEF Offset
<1>6. QED
  BY <1>1, <1>2, <1>3, <1>5, Stutters

\* The bytes that the program writes follow those that are not on the volume yet.
LEMMA PutContent ==
  ASSUME FileInv, pc \in {"fill", "put"}, ~fWriteShutdown, ~astray, NEW bytes \in Seq(Bytes),
         NEW n \in Nat, Len(bytes) = n, Put(bytes, fPosition + n),
         file' = file, mark' = mark, astray' = astray
  PROVE  /\ Content' = Laid(Content, fPosition, bytes) /\ Lost' = Lost
         /\ Content \in Seq(Bytes) /\ fPosition <= Len(Content)
         /\ Len(file) <= fPosition => Len(Content) = fPosition
<1>1. /\ mode # "rdonly" /\ op.name = "write" /\ ~fBeyondEOF
      /\ input = <<>> /\ readPB.state \notin {"direct", "done"} /\ ~dropped
  BY DEF FileInv, CallPlaces, Reading, Writing
<1>2. Ahead = 0
  BY <1>1, EmptyFacts DEF Ahead
<1>3. /\ mark + Len(output) <= fPosition + 0
      /\ ~(mark + Len(output) < fPosition + 0)
  BY <1>1, <1>2 DEF FileInv, Positions
<1>4. /\ mark \in Nat /\ Len(output) \in Nat /\ fPosition \in Nat /\ Len(file) \in Nat
      /\ mark <= Len(file) /\ file \in Seq(Bytes) /\ output \in Seq(Bytes)
  BY FileFacts DEF FileInv, FileTypes
<1>5. mark + Len(output) = fPosition /\ mark \in 0 .. Len(file)
  <2>1. mark + Len(output) = fPosition
    BY <1>3, <1>4
  <2>2. mark \in 0 .. Len(file)
    BY <1>4
  <2>3. QED
    BY <2>1, <2>2
<1>6. output' = output \o bytes /\ dropped' = dropped
  BY DEF Put
<1>7. Laid(Laid(file, mark, output), mark + Len(output), bytes)
        = Laid(file, mark, output \o bytes)
  BY <1>4, <1>5, LaidTwice
<1>8. Content' = Laid(Content, fPosition, bytes)
  BY <1>5, <1>6, <1>7, ContentIsLaid
<1>9. /\ Content \in Seq(Bytes)
      /\ Len(Content) = IF mark + Len(output) > Len(file)
                        THEN mark + Len(output) ELSE Len(file)
  BY <1>4, <1>5, LaidProperties, ContentIsLaid
<1>10. /\ fPosition <= Len(Content)
       /\ Len(file) <= fPosition => Len(Content) = fPosition
  BY <1>4, <1>5, <1>9
<1>11. QED
  BY <1>6, <1>8, <1>9, <1>10 DEF Lost

LEMMA FillPromised ==
  ASSUME FileInv, Fill, ~Lost'
  PROVE  Promised
<1>1. /\ pc = "fill" /\ fPosition < op.to /\ data' = data
      /\ UNCHANGED <<file, mark, mode, fAppend, astray>>
  BY DEF Fill, At, fileVars
<1>2. op.name = "write" /\ mode # "rdonly" /\ ~fAppend
  BY <1>1 DEF FileInv, CallPlaces
<1>2a. ~astray
  BY <1>1 DEF Lost
<1>3. ~fWriteShutdown
  <2>1. fWriteShutdown => dropped /\ dropped' = dropped
    BY <1>2 DEF FileInv, Writing, Fill
  <2>2. QED
    BY <2>1 DEF Lost
<1>4. PICK n \in 1 .. Smaller(op.to - fPosition, OutSize - Len(output)) :
        /\ Put([i \in 1 .. n |-> Zero], fPosition + n)
        /\ pc' = pc /\ op' = op
  BY <1>3 DEF Fill
<1> DEFINE bytes == [i \in 1 .. n |-> Zero]
<1>5. /\ op.to \in Nat /\ fPosition \in Nat /\ OutSize \in Nat /\ Len(output) \in Nat
      /\ Len(file) \in Nat
  BY FileFacts, ConstantFacts DEF FileInv, FileTypes
<1>6. n \in Nat /\ 1 <= n /\ n <= op.to - fPosition
  BY <1>5 DEF Smaller
<1>7. bytes \in Seq(Bytes) /\ Len(bytes) = n
  BY <1>6, ConstantFacts, Repeated
<1>8. Len(file) <= fPosition
  <2>1. ~dropped
    BY <1>2, <1>3 DEF FileInv, Writing
  <2>2. QED
    BY <1>1, <2>1 DEF FileInv, Room
<1>9. /\ Content' = Laid(Content, fPosition, bytes) /\ Lost' = Lost
      /\ Content \in Seq(Bytes) /\ Len(Content) = fPosition
  BY <1>1, <1>2a, <1>3, <1>4, <1>6, <1>7, <1>8, PutContent
<1>10. Content' = Content \o bytes
  BY <1>7, <1>9, LaidAtEnd
<1>11. Offset = op.to /\ Offset' = op.to
  BY <1>1, <1>2, <1>4 DEF Offset
<1>12. Offset > Len(Content) /\ n \in 1 .. Offset - Len(Content)
  BY <1>1, <1>5, <1>6, <1>9, <1>11
<1>13. Lost' = Lost /\ Offset' = Offset
  BY <1>9, <1>11
<1>14. QED
  BY <1>1, <1>10, <1>12, <1>13, Extends

LEMMA WritePromised ==
  ASSUME FileInv, Write, ~Lost'
  PROVE  Promised
<1>1. /\ pc = "put" /\ rest > 0 /\ data' = data
      /\ UNCHANGED <<file, mark, mode, fAppend, astray>>
  BY DEF Write, At, fileVars
<1>2. op.name = "write" /\ mode # "rdonly"
  BY <1>1 DEF FileInv, CallPlaces
<1>2a. ~astray
  BY <1>1 DEF Lost
<1>3. ~fWriteShutdown
  <2>1. fWriteShutdown => dropped /\ dropped' = dropped
    BY <1>2 DEF FileInv, Writing, Write
  <2>2. QED
    BY <2>1 DEF Lost
<1> DEFINE n == Smaller(rest, OutSize - Len(output))
           bytes == [i \in 1 .. n |-> Byte]
<1>4. n > 0 /\ Put(bytes, fPosition + n) /\ pc' = pc /\ op' = op
  BY <1>3 DEF Write
<1>5. /\ fPosition \in Nat /\ OutSize \in Nat /\ Len(output) \in Nat /\ rest \in Nat
  BY FileFacts, ConstantFacts DEF FileInv, FileTypes
<1>6. n \in 1 .. OutSize /\ n \in Nat
  <2>1. n \in Int /\ n <= OutSize
    BY <1>5 DEF Smaller
  <2> HIDE DEF n
  <2>2. QED
    BY <1>4, <1>5, <2>1
<1> HIDE DEF n
<1>7. bytes \in Seq(Bytes) /\ Len(bytes) = n
  BY <1>6, ConstantFacts, Repeated
<1>8. bytes \in Chunks
  BY <1>6 DEF Chunks
<1>9. /\ Content' = Laid(Content, fPosition, bytes) /\ Lost' = Lost
      /\ fPosition <= Len(Content)
  BY <1>1, <1>2a, <1>3, <1>4, <1>6, <1>7, PutContent
<1>10. Offset = fPosition /\ Offset' = fPosition' /\ fPosition' = fPosition + n
  BY <1>1, <1>4, OffsetFacts DEF Put
<1> HIDE DEF bytes
<1>11. /\ Offset <= Len(Content) /\ Content' = Laid(Content, Offset, bytes)
       /\ Offset' = Offset + Len(bytes) /\ Lost' = Lost
  BY <1>7, <1>9, <1>10
<1>12. QED
  BY <1>1, <1>8, <1>11, Writes

LEMMA ReadInputPromised ==
  ASSUME FileInv, FileInv', ReadInput, ~Lost'
  PROVE  Promised
<1> DEFINE n == Smaller(rest, Len(input))
<1>1. /\ pc = "read" /\ ~fBeyondEOF /\ rest > 0 /\ input # <<>>
      /\ data' = SubSeq(input, 1, n) /\ fPosition' = fPosition + n
      /\ UNCHANGED <<file, mark, output, dropped, astray, pc, op>>
  BY DEF ReadInput, At, fileVars, writeVars
<1>2. /\ fPosition \in Nat /\ fPosition + Len(input) = mark
      /\ Len(input) \in Nat /\ Len(input) > 0
  <2>1. ~astray
    BY <1>1 DEF Lost
  <2>2. /\ fPosition \in Nat /\ Len(input) \in Nat /\ Len(input) > 0
        /\ fPosition + Len(input) <= mark /\ ~(fPosition + Len(input) < mark)
    BY <1>1, <2>1, InputFacts
  <2>3. mark \in Nat
    BY FileFacts DEF FileInv
  <2>4. QED
    BY ONLY <2>2, <2>3
<1>3. input = SubSeq(file, fPosition + 1, mark)
  <2>1. input = SubSeq(file, mark - Len(input) + 1, mark)
    BY <1>1, InputFacts
  <2>2. mark - Len(input) + 1 = fPosition + 1
    BY ONLY <1>2
  <2>3. QED
    BY <2>1, <2>2
<1>4. /\ mark \in Nat /\ Len(file) \in Nat /\ mark <= Len(file) /\ rest \in Nat
      /\ file \in Seq(Bytes)
  BY FileFacts DEF FileInv, FileTypes
<1>5. n \in Nat /\ 1 <= n /\ n <= Len(input)
  BY <1>1, <1>2, <1>4 DEF Smaller
<1> HIDE DEF n
<1>6. mark \in fPosition .. Len(file) /\ n \in 0 .. mark - fPosition
  BY <1>2, <1>4, <1>5
<1>7. data' = SubSeq(file, fPosition + 1, fPosition + n)
  BY <1>1, <1>2, <1>3, <1>4, <1>6, SliceOfSlice
<1>8. output = <<>> /\ Content = file /\ Content' = file
  <2>1. output = <<>>
    BY <1>1 DEF FileInv, Writing
  <2>2. QED
    BY <1>1, <2>1, NothingBehind DEF FileInv
<1>9. Offset = fPosition /\ Offset' = fPosition + n
  BY <1>1, OffsetFacts
<1>10. Offset < Len(Content) /\ fPosition + n \in Offset + 1 .. Len(Content)
  BY <1>2, <1>4, <1>5, <1>8, <1>9
<1>11. Lost' = Lost
  BY <1>1 DEF Lost
<1>12. QED
  BY <1>7, <1>8, <1>9, <1>10, <1>11, Reads

LEMMA DirectReadPromised ==
  ASSUME FileInv, DirectRead \/ \E fails \in BOOLEAN : DirectReadDone(fails)
  PROVE  Promised
<1>1. /\ UNCHANGED <<file, output, dropped, astray, fPosition, op, data>>
      /\ pc \in {"read", "direct"} /\ pc' = "direct" /\ mark' \in 0 .. Len(file)
  <2>1. CASE DirectRead
    <3>1. mark \in 0 .. Len(file)
      BY DEF FileInv, FileTypes
    <3>2. QED
      BY <2>1, <3>1 DEF DirectRead, At, Goto, fileVars, writeVars
  <2>2. ASSUME NEW fails \in BOOLEAN, DirectReadDone(fails)
        PROVE  /\ UNCHANGED <<file, output, dropped, astray, fPosition, op, data>>
               /\ pc \in {"read", "direct"} /\ pc' = "direct"
               /\ mark' \in 0 .. Len(file)
    <3>1. pc = "direct"
      BY <2>2 DEF DirectReadDone, FileInv, Reading
    <3>2. mark' \in 0 .. Len(file)
      <4>1. PICK n \in Tried(fails) : mark' = mark + Len(AtMark(n))
        BY <2>2 DEF DirectReadDone
      <4>2. /\ mark + Len(AtMark(n)) <= Len(file) /\ Len(AtMark(n)) \in Nat
            /\ mark \in Nat /\ Len(file) \in Nat
        BY <2>2, TriedAtMark, FileFacts DEF FileInv
      <4>3. QED
        BY <4>1, <4>2
    <3>3. QED
      BY <2>2, <3>1, <3>2 DEF DirectReadDone, writeVars, callVars
  <2>3. QED
    BY <2>1, <2>2
<1>2. output = <<>>
  BY <1>1 DEF FileInv, Writing
<1>3. file \in Seq(Bytes) /\ mark \in 0 .. Len(file)
  BY DEF FileInv, FileTypes
<1>4. Content' = Content
  BY <1>1, <1>2, <1>3, ContentIsLaid, LaidNothing
<1>5. Lost' = Lost /\ Offset' = Offset /\ data' = data
  BY <1>1, OffsetFacts DEF Lost
<1>6. QED
  BY <1>4, <1>5, Stutters

LEMMA DirectReadReturnsPromised ==
  ASSUME FileInv, FileInv', DirectReadReturns, ~Lost'
  PROVE  Promised
<1> DEFINE got == readPB.got
<1>1. /\ pc = "direct" /\ readPB.state = "done" /\ fPosition' = fPosition + Len(got)
      /\ data' = (IF got = <<>> THEN data ELSE got) /\ pc' = "idle"
      /\ UNCHANGED <<file, mark, mode, input, output, dropped, astray>>
  BY DEF DirectReadReturns, At, Return, fileVars, writeVars
<1>2. ~dropped /\ ~astray /\ Lost' = Lost
  BY <1>1 DEF Lost
<1>3. /\ op.name = "read" /\ output = <<>> /\ ~fBeyondEOF /\ input = <<>>
  BY <1>1 DEF FileInv, CallPlaces, Writing, Reading
<1>4. /\ mark \in Nat /\ fPosition \in Nat /\ Len(got) \in Nat /\ got \in Seq(Bytes)
      /\ Len(got) = 0 <=> got = <<>>
      /\ Len(input) = 0 /\ Len(output) = 0 /\ Len(file) \in Nat /\ mark <= Len(file)
  BY <1>3, FileFacts, EmptyFacts DEF FileInv, FileTypes
<1>5. Content = file /\ Content' = file
  BY <1>1, <1>3, NothingBehind DEF FileInv
<1>6. Offset = fPosition /\ Offset' = fPosition + Len(got)
  BY <1>1, OffsetFacts
<1>7. fPosition + Len(got) = mark
  <2>1. Ahead = Len(got)
    BY <1>1, <1>4 DEF Ahead
  <2>2. CASE mode = "rdonly"
    <3>1. /\ fPosition + Len(got) <= mark /\ ~(fPosition + Len(got) < mark)
      BY <1>1, <1>2, <1>3, <2>1, <2>2 DEF FileInv, Positions
    <3>2. QED
      BY <1>4, <3>1
  <2>3. CASE mode # "rdonly"
    <3>1. /\ astray \/ mark + 0 <= fPosition + Len(got)
          /\ ~(mark + 0 < fPosition + Len(got))
      BY <1>2, <1>3, <1>4, <2>1, <2>3 DEF FileInv, Positions
    <3>2. QED
      BY <1>2, <1>4, <3>1
  <2>4. QED
    BY <2>2, <2>3
<1>8. got = SubSeq(file, fPosition + 1, fPosition + Len(got))
  <2>1. got = SubSeq(file, mark - Len(got) + 1, mark)
    BY <1>1 DEF FileInv, Contents
  <2>2. mark - Len(got) + 1 = fPosition + 1
    <3> HIDE DEF got
    <3>1. mark \in Nat /\ fPosition \in Nat /\ Len(got) \in Nat
      BY <1>4
    <3>2. QED
      BY <1>7, <3>1
  <2>3. QED
    BY <1>7, <2>1, <2>2
<1> HIDE DEF got
<1>9. CASE got = <<>>
  <2>1. data' = data /\ Offset' = Offset
    BY <1>1, <1>4, <1>6, <1>9
  <2>2. QED
    BY <1>2, <1>5, <2>1, Stutters
<1>10. CASE got # <<>>
  <2>1. Offset < Len(Content) /\ fPosition + Len(got) \in Offset + 1 .. Len(Content)
    BY <1>4, <1>5, <1>6, <1>7, <1>10
  <2>2. data' = SubSeq(Content, Offset + 1, fPosition + Len(got))
    BY <1>1, <1>5, <1>6, <1>8, <1>10
  <2>3. QED
    BY <1>2, <1>5, <1>6, <2>1, <2>2, Reads
<1>11. QED
  BY <1>9, <1>10

LEMMA DirectReadFailsPromised ==
  ASSUME FileInv, FileInv', DirectReadFails, ~Lost'
  PROVE  Promised
<1>1. /\ pc = "direct" /\ pc' = "idle" /\ data' = data
      /\ astray' = (astray \/ readPB.got # <<>>)
      /\ UNCHANGED <<file, mark, output, dropped, fPosition>>
  BY DEF DirectReadFails, At, Return, fileVars, writeVars
<1>2. Lost' = Lost
  BY <1>1 DEF Lost
<1>3. Content' = Content
  BY <1>1, ContentIsLaid
<1>4. Offset' = Offset
  BY <1>1, OffsetFacts
<1>5. QED
  BY <1>1, <1>2, <1>3, <1>4, Stutters

LEMMA ReadAheadPromised ==
  ASSUME FileInv, FileInv', NEW fails \in BOOLEAN, ReadAheadDone(fails)
  PROVE  Promised
<1>1. /\ readPB.state = "ahead"
      /\ UNCHANGED <<file, output, dropped, astray, fPosition, fAppend, pc, op, data>>
  BY DEF ReadAheadDone, writeVars, callVars
<1>2. output = <<>>
  BY <1>1, AheadFacts DEF FileInv, Writing
<1>3. Content' = Content
  BY <1>1, <1>2, NothingBehind DEF FileInv
<1>4. Lost' = Lost /\ Offset' = Offset
  BY <1>1 DEF Lost, Offset
<1>5. QED
  BY <1>1, <1>3, <1>4, Stutters

\* What reaches the volume was laid over the file already.
LEMMA WriteDonePromised ==
  ASSUME FileInv, NEW fails \in BOOLEAN, WriteDone(fails), ~Lost'
  PROVE  Promised
<1> DEFINE first == SubSeq(output, 1, writePB)
           later == SubSeq(output, writePB + 1, Len(output))
<1>1. ~fails
  BY DEF WriteDone, WriteFails, Lost
<1>2. /\ writePB > 0 /\ file' = Stored(mark, first) /\ mark' = mark + writePB
      /\ output' = later
      /\ UNCHANGED <<dropped, astray, fPosition, fAppend, pc, op, data>>
  BY <1>1 DEF WriteDone, callVars
<1>3. /\ mark \in Nat /\ Len(file) \in Nat /\ mark <= Len(file) /\ Len(output) \in Nat
      /\ file \in Seq(Bytes) /\ output \in Seq(Bytes)
      /\ writePB \in Nat /\ writePB <= Len(output)
  BY FileFacts DEF FileInv, FileTypes
<1>4. first \in Seq(Bytes) /\ Len(first) = writePB
  <2>1. 1 \in 1 .. Len(output) + 1 /\ writePB \in 1 - 1 .. Len(output)
    BY <1>3
  <2>2. first \in Seq(Bytes) /\ Len(first) = writePB - 1 + 1
    BY <1>3, <2>1, Slice
  <2> HIDE DEF first
  <2>3. QED
    BY <1>3, <2>2
<1>5. later \in Seq(Bytes)
  <2>1. /\ writePB + 1 \in 1 .. Len(output) + 1
        /\ Len(output) \in (writePB + 1) - 1 .. Len(output)
    BY <1>3
  <2>2. QED
    BY <1>3, <2>1, Slice
<1>6. first \o later = output
  <2>1. /\ 1 \in 1 .. Len(output) + 1 /\ writePB \in 1 - 1 .. Len(output)
        /\ Len(output) \in writePB .. Len(output)
    BY <1>3
  <2>2. first \o later = SubSeq(output, 1, Len(output))
    BY <1>3, <2>1, ConcatAdjacentSubSeq
  <2>3. QED
    BY <1>3, <2>2, SubSeqFull
<1> HIDE DEF first, later
<1>7. Content' = Content
  <2>1. file' = Laid(file, mark, first)
    BY <1>2, StoredIsLaid
  <2>2. Content' = Laid(Laid(file, mark, first), mark + Len(first), later)
    BY <1>2, <1>4, <2>1, ContentIsLaid
  <2>3. mark \in 0 .. Len(file)
    BY <1>3
  <2>4. Content' = Laid(file, mark, first \o later)
    <3>1. Laid(Laid(file, mark, first), mark + Len(first), later)
            = Laid(file, mark, first \o later)
      <4>1. /\ file \in Seq(Bytes) /\ first \in Seq(Bytes) /\ later \in Seq(Bytes)
            /\ mark \in 0 .. Len(file)
        BY <1>3, <1>4, <1>5, <2>3
      <4>2. QED
        BY ONLY <4>1, LaidTwice
    <3>2. QED
      BY <2>2, <3>1
  <2>5. QED
    BY <1>6, <2>4, ContentIsLaid
<1>8. Lost' = Lost /\ Offset' = Offset
  BY <1>2 DEF Lost, Offset
<1>9. QED
  BY <1>2, <1>7, <1>8, Stutters

LEMMA PromisedStep ==
  ASSUME FileInv, FileInv', [Next]_vars
  PROVE  Promised
<1>1. CASE Lost'
  BY <1>1, Loses
<1>2. CASE ~Lost'
  <2>1. CASE Calls
    BY <2>1, CallsPromised
  <2>2. CASE CallCode
    <3>1. CASE \/ SyncRead \/ SyncWrite \/ Filled \/ Lseek \/ SeekEnd \/ Ftruncate
               \/ TruncateAtEnd \/ SetEOF \/ SeekEndFails
      BY <1>2, <3>1, SyncReadPromised, SyncWritePromised, LseekPromised,
         SetEOFPromised, SeekEndFailsPromised
    <3>2. CASE \/ Fsync \/ WouldBlock \/ Written \/ ReadBeyond \/ ReadEmpty
               \/ ReadFull \/ AwaitInput \/ InputArrives \/ SeekFails \/ TruncateFails
      BY <3>2, ReturnsPromised
    <3>3. CASE \/ Fill \/ Write \/ ReadInput \/ DirectRead \/ DirectReadReturns
               \/ DirectReadFails
      BY <1>2, <3>3, FillPromised, WritePromised, ReadInputPromised,
         DirectReadPromised, DirectReadReturnsPromised, DirectReadFailsPromised
    <3>4. QED
      BY <2>2, <3>1, <3>2, <3>3 DEF CallCode
  <2>3. CASE Volume
    <3>1. PICK fails \in BOOLEAN :
            ReadAheadDone(fails) \/ DirectReadDone(fails) \/ WriteDone(fails)
      BY <2>3, MacFileAssumption DEF Volume
    <3>2. QED
      BY <1>2, <3>1, ReadAheadPromised, DirectReadPromised, WriteDonePromised
  <2>4. CASE UNCHANGED vars
    <3>1. UNCHANGED <<file, mark, output, dropped, astray, fPosition, fAppend, pc, op, data>>
      BY <2>4 DEF vars, fileVars, readVars, writeVars, callVars
    <3>2. Content' = Content /\ Lost' = Lost /\ Offset' = Offset
      BY <3>1, ContentIsLaid DEF Lost, Offset
    <3>3. QED
      BY <3>1, <3>2, Stutters
  <2>5. QED
    BY <2>1, <2>2, <2>3, <2>4 DEF Next
<1>3. QED
  BY <1>1, <1>2

\* Whatever is read ahead of the program, or written behind it, every call reads
\* and writes the bytes at its position, once and in order, until the volume
\* has refused a write, or the mark has got away from the position: when lseek
\* has given up what was read ahead (GUSIMacFile.nw:1187), and then fails or
\* finds the position that the file already has; when a read fails halfway
\* (nw:1322); or when the seek fails that a write beyond the end begins with
\* (nw:1378).
THEOREM KeepsPromises == Spec => ImplementsFile
<1>1. Init => File!Init(Start)
  BY FileBegins
<1>2. FileInv /\ FileInv' /\ [Next]_vars => [File!Next(Chunks)]_(File!vars)
  BY PromisedStep DEF Promised
<1>3. QED
  BY <1>1, <1>2, FileInvariant, PTL DEF Spec, ImplementsFile
=============================================================================
