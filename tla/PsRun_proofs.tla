---------------------------- MODULE PsRun_proofs ----------------------------
(***************************************************************************)
(* Proofs about the run length code of PSCRIPT (PsRun): for every row of   *)
(* bytes, unpack makes of what RunEncode sends the row again, and reads    *)
(* all of it.                                                              *)
(***************************************************************************)
EXTENDS PsRun, SequenceTheorems, NaturalsInduction, WellFoundedInduction, TLAPS

LEMMA Sizes ==
  /\ ByteSize \in Nat /\ ByteSize \div 2 \in Nat /\ ByteSize = 2 * (ByteSize \div 2)
  /\ ByteSize \div 2 >= 3
  /\ RUN_LEN = ByteSize \div 2 + 1 /\ NON_RUN_LEN = ByteSize \div 2
  <1>1. PICK n \in 3 .. 128 : ByteSize = 2 * n
    BY ByteSizeAssumption
  <1>2. (2 * n) \div 2 = n
    OBVIOUS
  <1> QED
    BY <1>1, <1>2 DEF RUN_LEN, NON_RUN_LEN

LEMMA LeastNat ==
  ASSUME NEW T \in SUBSET Nat, T # {}
  PROVE  \E x \in T : \A y \in T : x <= y
  <1> DEFINE R == OpToRel(<, Nat)
  <1>1. IsWellFoundedOn(R, Nat)
    BY NatLessThanWellFounded
  <1>2. \A m, n \in Nat : m < n => <<m, n>> \in R
    BY DEF OpToRel
  <1> HIDE DEF R
  <1>3. PICK x \in T : \A y \in T : <<y, x>> \notin R
    BY <1>1, WFMin
  <1>4. \A y \in T : y \in Nat /\ x \in Nat
    OBVIOUS
  <1>5. \A y \in T : ~(y < x)
    BY <1>2, <1>3, <1>4
  <1> QED
    BY <1>4, <1>5

-----------------------------------------------------------------------------
(* Where a piece ends.                                                     *)

\* A run is of one byte, a non run does not end like one; both fit their counts.
IsPiece(row, first, last) ==
  LET count == last - first + 1
  IN  /\ last \in first .. Len(row)
      /\ \/ count \in 2 .. RUN_LEN /\ \A i \in first .. last : row[i] = row[last]
         \/ count \in 1 .. NON_RUN_LEN /\ (count >= 2 => row[last] # row[last - 1])

\* The bytes before the end of the loop repeat, or none of them does.
LEMMA LoopEndIs ==
  ASSUME NEW row \in Seq(Bytes), NEW first \in 1 .. Len(row) - 1, NEW run \in BOOLEAN,
         NEW char, char = LoopEnd(row, first, run)
  PROVE  /\ char \in first + 1 .. Len(row)
         /\ \A c \in first + 1 .. char - 1 : GoesOn(row, c, run)
         /\ char - first + 1 < Most(run)
         /\ char = Len(row) \/ ~GoesOn(row, char, run) \/ char - first + 2 = Most(run)
  <1> DEFINE T == {c \in first + 1 .. Len(row) :
                     c = Len(row) \/ ~GoesOn(row, c, run) \/ c - first + 2 >= Most(run)}
  <1>0. \A c : GoesOn(row, c, run) \in BOOLEAN
    BY DEF GoesOn
  <1>1. /\ Len(row) \in Nat /\ first \in Nat /\ first < Len(row)
        /\ Most(run) \in Nat /\ Most(run) >= 3
    BY Sizes DEF Most
  <1>2. T \in SUBSET Nat /\ Len(row) \in T
    BY <1>1
  <1>3. char = Min(T)
    BY DEF LoopEnd
  <1> DEFINE U == T
  <1>4. \A c : c \in U <=>
          (/\ c \in first + 1 .. Len(row)
           /\ (c = Len(row) \/ ~GoesOn(row, c, run) \/ c - first + 2 >= Most(run)))
    OBVIOUS
  <1>5. U \in SUBSET Nat /\ Len(row) \in U /\ char = Min(U)
    BY <1>2, <1>3
  <1> HIDE DEF U, T
  <1>6. PICK x \in U : \A y \in U : x <= y
    BY <1>5, LeastNat
  <1>7. char \in U /\ \A y \in U : char <= y
    BY <1>5, <1>6 DEF Min
  <1>8. char \in first + 1 .. Len(row) /\ char \in Nat
        /\ (char = Len(row) \/ ~GoesOn(row, char, run) \/ char - first + 2 >= Most(run))
    BY <1>1, <1>4, <1>7
  <1>9. \A c \in first + 1 .. char - 1 : GoesOn(row, c, run) /\ c - first + 2 < Most(run)
    <2> SUFFICES ASSUME NEW c \in first + 1 .. char - 1
                 PROVE  GoesOn(row, c, run) /\ c - first + 2 < Most(run)
      OBVIOUS
    <2>1. c \in first + 1 .. Len(row) /\ ~(char <= c) /\ c # Len(row) /\ c \in Nat
      BY <1>1, <1>8
    <2>2. c \notin U
      BY <1>7, <2>1
    <2>3. GoesOn(row, c, run) /\ ~(c - first + 2 >= Most(run))
      BY <1>4, <2>1, <2>2, Zenon
    <2>4. c - first + 2 < Most(run)
      BY <1>1, <2>1, <2>3
    <2> QED
      BY <2>3, <2>4
  <1>10. char - first + 1 < Most(run)
    <2>1. CASE char = first + 1
      BY <1>1, <2>1
    <2>2. CASE char # first + 1
      <3>1. char - 1 \in first + 1 .. char - 1
        BY <1>1, <1>8, <2>2
      <3>2. (char - 1) - first + 2 < Most(run)
        BY <1>9, <3>1
      <3> QED
        BY <1>1, <1>8, <3>2
    <2> QED
      BY <2>1, <2>2
  <1>11. char - first + 2 >= Most(run) => char - first + 2 = Most(run)
    BY <1>1, <1>8, <1>10
  <1> QED
    BY <1>8, <1>9, <1>10, <1>11, Zenon

LEMMA LastOfIs ==
  ASSUME NEW row \in Seq(Bytes), NEW first \in 1 .. Len(row)
  PROVE  IsPiece(row, first, LastOf(row, first))
  <1> DEFINE n == Len(row)
             run == row[first] = row[first + 1]
             char == LoopEnd(row, first, run)
             last == LastOf(row, first)
             most == Most(run)
  <1>1. n \in Nat /\ first \in Nat /\ first <= n
    OBVIOUS
  <1>2. last = IF first = n THEN first
               ELSE IF char = n THEN char
               ELSE IF GoesOn(row, char, run) THEN char + 1
               ELSE IF run THEN char ELSE char - 1
    BY DEF LastOf
  <1>0. \A c : GoesOn(row, c, run) \in BOOLEAN
    BY DEF GoesOn
  <1>3. run \in BOOLEAN /\ (run <=> row[first] = row[first + 1])
    OBVIOUS
  <1>4. most \in Nat /\ (run => most = RUN_LEN) /\ (~run => most = NON_RUN_LEN) /\ most >= 3
    BY Sizes DEF Most
  <1>5. first # n => /\ char \in first + 1 .. n
                     /\ \A c \in first + 1 .. char - 1 : GoesOn(row, c, run)
                     /\ char - first + 1 < most
                     /\ char = n \/ ~GoesOn(row, char, run) \/ char - first + 2 = most
    <2> HIDE DEF run
    <2>1. first # n => first \in 1 .. n - 1
      BY <1>1
    <2> QED
      BY <1>3, <2>1, LoopEndIs
  <1> HIDE DEF char, last, most, run
  <1>6. CASE first = n
    BY <1>1, <1>2, <1>6, Sizes DEF IsPiece, last
  <1>7. CASE first # n
    <2>1. char \in Nat /\ char >= first + 1 /\ char <= n
      BY <1>1, <1>5, <1>7
    <2>2. last \in Nat /\ last >= char - 1 /\ last <= char + 1 /\ last <= n /\ last >= first
          /\ last - first + 1 <= most
      BY <1>1, <1>2, <1>4, <1>5, <1>7, <2>1
    <2>3. \A c \in first .. last - 1 : GoesOn(row, c, run)
      <3> SUFFICES ASSUME NEW c \in first .. last - 1
                   PROVE  GoesOn(row, c, run)
        OBVIOUS
      <3>1. c \in Nat /\ c < last /\ c >= first
        BY <1>1, <2>2
      <3>2. CASE c = first
        BY <1>3, <3>2 DEF GoesOn
      <3>3. CASE c \in first + 1 .. char - 1
        BY <1>5, <1>7, <3>3
      <3>4. CASE c = char
        BY <1>2, <1>7, <2>1, <3>1, <3>4
      <3> QED
        BY <1>1, <2>1, <2>2, <3>1, <3>2, <3>3, <3>4
    <2>4. CASE run
      <3>1. \A c \in first .. last - 1 : row[c] = row[c + 1]
        BY <2>3, <2>4 DEF GoesOn
      <3>2. last >= first + 1
        <4>1. last = char \/ last = char + 1
          BY <1>2, <1>7, <2>4, Zenon
        <4> QED
          BY <1>1, <2>1, <4>1
      <3> DEFINE Bad == {i \in 0 .. last - first : row[last - i] # row[last]}
      <3>3. ASSUME NEW k \in Bad PROVE FALSE
        <4>0. last - first \in Nat
          BY <1>1, <2>2
        <4>1. Bad \in SUBSET Nat /\ Bad # {}
          <5> HIDE DEF Bad
          <5>1. Bad \subseteq 0 .. last - first
            BY DEF Bad
          <5> QED
            BY <4>0, <5>1
        <4>2. PICK i \in Bad : \A j \in Bad : i <= j
          BY <4>1, LeastNat
        <4>3. i \in 0 .. last - first /\ row[last - i] # row[last]
          OBVIOUS
        <4>4. i # 0
          BY <2>2, <4>3
        <4>5. i - 1 \in 0 .. last - first /\ ~(i <= i - 1)
          BY <1>1, <2>2, <4>3, <4>4
        <4>6. row[last - (i - 1)] = row[last]
          BY <4>2, <4>5
        <4>7. last - i \in first .. last - 1 /\ (last - i) + 1 = last - (i - 1)
          BY <1>1, <2>2, <4>3, <4>4
        <4> QED
          BY <3>1, <4>3, <4>6, <4>7
      <3>4. ASSUME NEW i \in first .. last
            PROVE  row[i] = row[last]
        <4>1. last - i \in 0 .. last - first /\ last - (last - i) = i
          BY <1>1, <2>2
        <4>2. last - i \notin Bad
          BY <3>3
        <4> QED
          BY <4>1, <4>2
      <3>5. last - first + 1 \in 2 .. RUN_LEN /\ last \in first .. n
        BY <1>1, <1>4, <2>2, <2>4, <3>2
      <3> QED
        BY <3>4, <3>5 DEF IsPiece, last
    <2>5. CASE ~run
      <3>1. \A c \in first .. last - 1 : row[c] # row[c + 1]
        BY <2>3, <2>5 DEF GoesOn
      <3>2. last - first + 1 >= 2 => last - 1 \in first .. last - 1 /\ (last - 1) + 1 = last
        BY <1>1, <2>2
      <3>3. last - first + 1 >= 2 => row[last] # row[last - 1]
        BY <3>1, <3>2
      <3>4. last - first + 1 \in 1 .. NON_RUN_LEN /\ last \in first .. n
        BY <1>1, <1>4, <2>2, <2>5
      <3> QED
        BY <3>3, <3>4 DEF IsPiece, last
    <2> QED
      BY <2>4, <2>5
  <1> QED
    BY <1>6, <1>7

-----------------------------------------------------------------------------
(* What the printer makes of a piece.                                      *)

LEMMA Wraps ==
  ASSUME NEW m \in Nat, NEW c \in 1 .. m - 1
  PROVE  (c - m) % m = c
  OBVIOUS

LEMMA SubSeqIs ==
  ASSUME NEW s \in Seq(Bytes), NEW m \in Int, NEW n \in Int, m >= 1, n <= Len(s), m <= n + 1
  PROVE  /\ SubSeq(s, m, n) \in Seq(Bytes)
         /\ Len(SubSeq(s, m, n)) = n - m + 1
         /\ \A i \in 1 .. n - m + 1 : SubSeq(s, m, n)[i] = s[m + i - 1]
  OBVIOUS

LEMMA SubSeqIsSeq ==
  ASSUME NEW c \in Seq(Bytes), NEW d \in Seq(Bytes), NEW m \in Nat, NEW n \in Nat,
         m >= 1, n <= Len(c), n - m + 1 = Len(d),
         \A i \in 1 .. Len(d) : c[m + i - 1] = d[i]
  PROVE  SubSeq(c, m, n) = d
  <1> DEFINE e == SubSeq(c, m, n)
  <1>1. m <= n + 1 /\ Len(d) \in Nat
    <2>1. Len(d) \in Nat
      OBVIOUS
    <2> QED
      BY <2>1
  <1>2. /\ e \in Seq(Bytes) /\ Len(e) = n - m + 1
        /\ \A i \in 1 .. n - m + 1 : e[i] = c[m + i - 1]
    BY <1>1, SubSeqIs
  <1> HIDE DEF e
  <1>3. Len(e) = Len(d) /\ \A i \in 1 .. Len(e) : e[i] = d[i]
    BY <1>2
  <1>4. e = d
    BY <1>2, <1>3, SeqEqual
  <1> QED
    BY <1>4 DEF e

\* What is cut off the front of a sequence, and what is left of it.
IsCut(c, x, s, t) ==
  /\ c \in Seq(Bytes) /\ c # <<>> /\ c[1] = x
  /\ SubSeq(c, 2, Len(s) + 1) = s
  /\ SubSeq(c, Len(s) + 2, Len(c)) = t
  /\ Len(s) >= 1 => c[2] = s[1]

LEMMA Cut ==
  ASSUME NEW s \in Seq(Bytes), NEW t \in Seq(Bytes), NEW x \in Bytes,
         NEW c, c = (<<x>> \o s) \o t
  PROVE  IsCut(c, x, s, t)
  <1> DEFINE h == <<x>> \o s
             o == <<x>>
  <1>1. o \in Seq(Bytes) /\ Len(o) = 1 /\ o[1] = x
    OBVIOUS
  <1>2. PICK a \in Nat, b \in Nat : a = Len(s) /\ b = Len(t)
    OBVIOUS
  <1>3. h \in Seq(Bytes) /\ Len(h) = a + 1 /\ h[1] = x /\ \A i \in 1 .. a : h[i + 1] = s[i]
    <2>1. h = o \o s
      OBVIOUS
    <2> HIDE DEF h, o
    <2>2. /\ h \in Seq(Bytes) /\ Len(h) = 1 + a
          /\ \A i \in 1 .. 1 + a : h[i] = IF i <= 1 THEN o[i] ELSE s[i - 1]
      <3>1. /\ h \in Seq(Bytes) /\ Len(h) = Len(o) + Len(s)
            /\ \A i \in 1 .. Len(o) + Len(s) :
                  h[i] = IF i <= Len(o) THEN o[i] ELSE s[i - Len(o)]
        BY <1>1, <2>1, ConcatProperties
      <3>2. Len(s) = a /\ Len(o) = 1
        BY <1>1, <1>2
      <3> QED
        BY <3>1, <3>2
    <2>3. /\ 1 \in 1 .. 1 + a
          /\ \A i \in 1 .. a : i + 1 \in 1 .. 1 + a /\ ~(i + 1 <= 1) /\ (i + 1) - 1 = i
      BY <1>2
    <2> QED
      BY <1>1, <1>2, <2>2, <2>3
  <1>4. c = h \o t
    OBVIOUS
  <1> HIDE DEF h, o
  <1>5. /\ c \in Seq(Bytes) /\ Len(c) = (a + 1) + b
        /\ \A i \in 1 .. (a + 1) + b : c[i] = IF i <= a + 1 THEN h[i] ELSE t[i - (a + 1)]
    BY <1>2, <1>3, <1>4, ConcatProperties
  <1>6. /\ c[1] = x
        /\ \A i \in 1 .. a : c[i + 1] = s[i]
        /\ \A i \in 1 .. b : c[a + 1 + i] = t[i]
    <2>1. 1 \in 1 .. (a + 1) + b /\ 1 <= a + 1
      OBVIOUS
    <2>2. \A i \in 1 .. a : i + 1 \in 1 .. (a + 1) + b /\ i + 1 <= a + 1
      OBVIOUS
    <2>3. \A i \in 1 .. b : /\ a + 1 + i \in 1 .. (a + 1) + b /\ ~(a + 1 + i <= a + 1)
                            /\ (a + 1 + i) - (a + 1) = i
      OBVIOUS
    <2> QED
      BY <1>3, <1>5, <2>1, <2>2, <2>3
  <1>7. c # <<>>
    <2>1. Len(<<>>) = 0 /\ Len(c) # 0
      BY <1>5
    <2> QED
      BY <2>1
  <1>8. SubSeq(c, 2, a + 1) = s
    <2>1. \A i \in 1 .. a : 2 + i - 1 = i + 1
      OBVIOUS
    <2>2. (a + 1) - 2 + 1 = a /\ a + 1 <= Len(c) /\ 2 >= 1 /\ 2 \in Nat /\ a + 1 \in Nat
      BY <1>5
    <2>3. \A i \in 1 .. a : c[2 + i - 1] = s[i]
      BY <1>6, <2>1
    <2> QED
      BY <1>2, <1>5, <2>2, <2>3, SubSeqIsSeq
  <1>9. SubSeq(c, a + 2, Len(c)) = t
    <2>1. \A i \in 1 .. b : (a + 2) + i - 1 = a + 1 + i
      OBVIOUS
    <2>2. /\ Len(c) - (a + 2) + 1 = b /\ Len(c) <= Len(c)
          /\ a + 2 >= 1 /\ a + 2 \in Nat /\ Len(c) \in Nat
      <3>1. Len(c) = (a + 1) + b
        BY <1>5, Zenon
      <3> QED
        BY <3>1
    <2>3. \A i \in 1 .. b : c[(a + 2) + i - 1] = t[i]
      BY <1>6, <2>1
    <2> QED
      BY <1>2, <1>5, <2>2, <2>3, SubSeqIsSeq
  <1>10. a >= 1 => c[2] = s[1]
    <2>1. a >= 1 => 1 \in 1 .. a /\ 1 + 1 = 2
      OBVIOUS
    <2> QED
      BY <1>6, <2>1
  <1> QED
    BY <1>2, <1>5, <1>6, <1>7, <1>8, <1>9, <1>10 DEF IsCut

\* The printer makes of a piece the bytes it stands for.
LEMMA PieceRead ==
  ASSUME NEW row \in Seq(Bytes), NEW first \in 1 .. Len(row), NEW last,
         IsPiece(row, first, last), NEW t \in Seq(Bytes)
  PROVE  /\ Piece(row, first, last) \in Seq(Bytes)
         /\ ReadPiece([row |-> SubSeq(row, 1, first - 1), rest |-> Piece(row, first, last) \o t],
                      Len(row))
              = [row |-> SubSeq(row, 1, last), rest |-> t]
  <1> DEFINE count == last - first + 1
             done == SubSeq(row, 1, first - 1)
             piece == SubSeq(row, first, last)
             c == Piece(row, first, last) \o t
             q == [row |-> done, rest |-> c]
  <1>1. /\ Len(row) \in Nat /\ first \in Nat /\ last \in Nat /\ count \in Nat
        /\ 1 <= first /\ first <= last /\ last <= Len(row) /\ count >= 1
    BY DEF IsPiece
  <1>2. /\ piece \in Seq(Bytes) /\ Len(piece) = count
        /\ \A i \in 1 .. count : piece[i] = row[first + i - 1]
    BY <1>1, SubSeqIs
  <1>3. done \in Seq(Bytes) /\ Len(done) = first - 1
    BY <1>1, SubSeqIs
  <1>4. done \o piece = SubSeq(row, 1, last)
    <2>1. /\ 1 \in 1 .. Len(row) + 1 /\ first - 1 \in 0 .. Len(row)
          /\ last \in first - 1 .. Len(row) /\ (first - 1) + 1 = first
      BY <1>1
    <2> QED
      BY <2>1, ConcatAdjacentSubSeq
  <1>5. ReadPiece(q, Len(row)) =
          IF Len(done) >= Len(row) \/ c = <<>> THEN q
          ELSE IF c[1] <= ByteSize \div 2 - 1
          THEN [row |-> done \o SubSeq(c, 2, c[1] + 2), rest |-> SubSeq(c, c[1] + 3, Len(c))]
          ELSE [row |-> done \o [i \in 1 .. ByteSize + 1 - c[1] |-> c[2]],
                rest |-> SubSeq(c, 3, Len(c))]
    BY DEF ReadPiece
  <1>6. ~(Len(done) >= Len(row))
    BY <1>1, <1>3
  <1> HIDE DEF done, piece, c
  <1>7. CASE count < 2 \/ row[last] # row[last - 1]
    <2>1. Piece(row, first, last) = <<count - 1>> \o piece
      BY <1>7 DEF Piece, piece
    <2>2. count <= NON_RUN_LEN
      <3>1. CASE count < 2
        BY <1>1, <3>1, Sizes
      <3>2. CASE count >= 2 /\ row[last] # row[last - 1]
        <4>1. last - 1 \in first .. last
          BY <1>1, <3>2
        <4>2. ~ \A i \in first .. last : row[i] = row[last]
          BY <3>2, <4>1
        <4> QED
          BY <4>2 DEF IsPiece
      <3> QED
        BY <1>1, <1>7, <3>1, <3>2
    <2>3. count - 1 \in Bytes /\ count - 1 <= ByteSize \div 2 - 1
      BY <1>1, <2>2, Sizes DEF Bytes
    <2>4. c = (<<count - 1>> \o piece) \o t
      BY <2>1 DEF c
    <2>5. /\ c # <<>> /\ c[1] = count - 1
          /\ SubSeq(c, 2, count + 1) = piece
          /\ SubSeq(c, count + 2, Len(c)) = t
      <3>1. IsCut(c, count - 1, piece, t)
        BY <1>2, <2>3, <2>4, Cut
      <3> QED
        BY <1>2, <3>1 DEF IsCut
    <2>6. c[1] + 2 = count + 1 /\ c[1] + 3 = count + 2
      BY <1>1, <2>5
    <2>7. ReadPiece(q, Len(row)) = [row |-> done \o piece, rest |-> t]
      BY <1>5, <1>6, <2>3, <2>5, <2>6
    <2>8. <<count - 1>> \in Seq(Bytes)
      BY <2>3
    <2>9. Piece(row, first, last) \in Seq(Bytes)
      BY <1>2, <2>1, <2>8, ConcatProperties
    <2> QED
      BY <1>4, <2>7, <2>9 DEF c, done
  <1>8. CASE ~(count < 2 \/ row[last] # row[last - 1])
    <2> DEFINE x == (1 - count) % ByteSize
    <2>1. Piece(row, first, last) = <<x, row[last]>>
      BY <1>8 DEF Piece
    <2>2. count \in 2 .. RUN_LEN /\ \A i \in first .. last : row[i] = row[last]
      <3>1. count >= 2 /\ ~(row[last] # row[last - 1])
        BY <1>1, <1>8
      <3> QED
        BY <3>1 DEF IsPiece
    <2>3. x = ByteSize + 1 - count
      <3>1. ByteSize + 1 - count \in 1 .. ByteSize - 1
        BY <2>2, Sizes
      <3>2. (ByteSize + 1 - count) - ByteSize = 1 - count
        BY <1>1, Sizes
      <3>3. ((ByteSize + 1 - count) - ByteSize) % ByteSize = ByteSize + 1 - count
        BY <3>1, Sizes, Wraps
      <3> QED
        BY <3>2, <3>3
    <2> HIDE DEF x
    <2>4. x \in Bytes /\ ~(x <= ByteSize \div 2 - 1) /\ ByteSize + 1 - x = count
      BY <1>1, <2>2, <2>3, Sizes DEF Bytes
    <2> DEFINE b == row[last]
    <2>5. b \in Bytes
      BY <1>1
    <2> HIDE DEF b
    <2> DEFINE s == <<b>>
    <2>6. s \in Seq(Bytes) /\ Len(s) = 1 /\ s[1] = b
      BY <2>5
    <2>7. Piece(row, first, last) = <<x>> \o s
      BY <2>1 DEF b
    <2>8. Piece(row, first, last) \in Seq(Bytes)
      BY <2>1, <2>4, <2>5 DEF b
    <2> HIDE DEF s
    <2>9. c # <<>> /\ c[1] = x /\ c[2] = b /\ SubSeq(c, 3, Len(c)) = t
      <3>1. c = (<<x>> \o s) \o t
        BY <2>7 DEF c
      <3>2. IsCut(c, x, s, t)
        BY <2>4, <2>6, <3>1, Cut
      <3> QED
        BY <2>6, <3>2 DEF IsCut
    <2> DEFINE run == [i \in 1 .. count |-> b]
    <2>10. run = piece
      <3>1. run \in Seq(Bytes) /\ Len(run) = count /\ \A i \in 1 .. count : run[i] = b
        BY <1>1, <2>5
      <3> HIDE DEF run
      <3>2. \A i \in 1 .. count : row[first + i - 1] = b
        BY <1>1, <2>2 DEF b
      <3> QED
        BY <1>2, <3>1, <3>2, SeqEqual
    <2>11. ReadPiece(q, Len(row)) = [row |-> done \o piece, rest |-> t]
      <3>1. [i \in 1 .. ByteSize + 1 - c[1] |-> c[2]] = run
        BY <2>4, <2>9
      <3> HIDE DEF run
      <3>2. ~(c[1] <= ByteSize \div 2 - 1)
        BY <2>4, <2>9
      <3>3. ReadPiece(q, Len(row)) =
              [row |-> done \o [i \in 1 .. ByteSize + 1 - c[1] |-> c[2]],
               rest |-> SubSeq(c, 3, Len(c))]
        BY <1>5, <1>6, <2>9, <3>2, Zenon
      <3> QED
        BY <2>9, <2>10, <3>1, <3>3
    <2> QED
      BY <1>4, <2>8, <2>11 DEF c, done
  <1> QED
    BY <1>7, <1>8

-----------------------------------------------------------------------------
(* The pieces of a row.                                                    *)

\* A function that is defined from its value before exists.
Iterates(W, q, n, G, g) ==
  /\ g \in [0 .. n -> W]
  /\ g = [i \in 0 .. n |-> IF i = 0 THEN q ELSE G[g[i - 1]]]

LEMMA Iteration ==
  ASSUME NEW W, NEW q \in W, NEW n \in Nat, NEW G \in [W -> W]
  PROVE  \E g : Iterates(W, q, n, G, g)
  <1> DEFINE Is(k, g) == \A i \in 0 .. k : g[i] = IF i = 0 THEN q ELSE G[g[i - 1]]
             Bad == {k \in 0 .. n : \A g \in [0 .. n -> W] : ~Is(k, g)}
  <1>1. ASSUME Bad # {} PROVE FALSE
    <2>1. Bad \in SUBSET Nat
      OBVIOUS
    <2>2. PICK k \in Bad : \A j \in Bad : k <= j
      BY <1>1, <2>1, LeastNat
    <2>3. CASE k = 0
      <3> DEFINE g == [i \in 0 .. n |-> q]
      <3>1. g \in [0 .. n -> W] /\ Is(0, g)
        OBVIOUS
      <3> QED
        BY <2>2, <2>3, <3>1
    <2>4. CASE k # 0
      <3>1. k \in 1 .. n /\ k - 1 \in 0 .. n /\ ~(k <= k - 1)
        BY <2>4
      <3>2. PICK h \in [0 .. n -> W] : Is(k - 1, h)
        BY <2>2, <3>1
      <3> DEFINE w == G[h[k - 1]]
                 g == [h EXCEPT ![k] = w]
      <3>3. w \in W
        BY <3>1
      <3>4. g \in [0 .. n -> W] /\ g[k] = w /\ \A i \in 0 .. k - 1 : g[i] = h[i]
        BY <3>1, <3>3
      <3> HIDE DEF g
      <3>5. ASSUME NEW i \in 0 .. k
            PROVE  g[i] = IF i = 0 THEN q ELSE G[g[i - 1]]
        <4>1. CASE i = k
          <5>1. g[k - 1] = h[k - 1] /\ k # 0
            BY <3>1, <3>4
          <5> QED
            BY <3>4, <4>1, <5>1
        <4>2. CASE i # k
          <5>1. i \in 0 .. k - 1 /\ (i # 0 => i - 1 \in 0 .. k - 1)
            BY <3>1, <4>2
          <5>2. h[i] = IF i = 0 THEN q ELSE G[h[i - 1]]
            BY <3>2, <5>1
          <5> QED
            BY <3>4, <5>1, <5>2
        <4> QED
          BY <4>1, <4>2
      <3>6. Is(k, g)
        BY <3>5
      <3> QED
        BY <2>2, <3>4, <3>6
    <2> QED
      BY <2>3, <2>4
  <1>2. PICK g \in [0 .. n -> W] : Is(n, g)
    <2>1. n \in 0 .. n
      OBVIOUS
    <2>2. n \notin Bad
      <3> HIDE DEF Bad
      <3> QED
        BY <1>1
    <2> HIDE DEF Is
    <2> QED
      BY <2>1, <2>2
  <1>3. g = [i \in 0 .. n |-> IF i = 0 THEN q ELSE G[g[i - 1]]]
    BY <1>2
  <1>4. Iterates(W, q, n, G, g)
    BY <1>3 DEF Iterates
  <1> QED
    BY <1>4

\* What is sent piece by piece, up to k pieces of a row.
Pieces(row, sent) ==
  /\ sent[0] = [first |-> 1, codes |-> <<>>]
  /\ \A k \in 1 .. Len(row) : sent[k] = SendPiece(row, sent[k - 1])
  /\ \A k \in 0 .. Len(row) : /\ sent[k].first \in 1 .. Len(row) + 1
                              /\ sent[k].codes \in Seq(Bytes)
                              /\ sent[k].first > k

LEMMA PieceSent ==
  ASSUME NEW row \in Seq(Bytes), NEW first \in 1 .. Len(row) + 1, NEW codes \in Seq(Bytes),
         NEW q, q = [first |-> first, codes |-> codes]
  PROVE  LET r == SendPiece(row, q)
         IN  /\ r \in [first : 1 .. Len(row) + 1, codes : Seq(Bytes)]
             /\ r.first = Len(row) + 1 \/ r.first > first
  <1> DEFINE last == LastOf(row, first)
             n == Len(row)
  <1>0. n \in Nat /\ first \in Nat /\ first >= 1
    OBVIOUS
  <1>1. SendPiece(row, q) = IF first > n THEN q
                            ELSE [first |-> last + 1, codes |-> codes \o Piece(row, first, last)]
    BY DEF SendPiece
  <1> HIDE DEF last
  <1>2. CASE first > n
    BY <1>0, <1>1, <1>2
  <1>3. CASE ~(first > n)
    <2>1. first \in 1 .. n
      BY <1>0, <1>3
    <2>2. IsPiece(row, first, last)
      BY <2>1, LastOfIs DEF last
    <2>3. last \in first .. n
      BY <2>2 DEF IsPiece
    <2>4. Piece(row, first, last) \in Seq(Bytes)
      <3>1. <<>> \in Seq(Bytes)
        OBVIOUS
      <3> QED
        BY <2>1, <2>2, <3>1, PieceRead
    <2>5. codes \o Piece(row, first, last) \in Seq(Bytes)
      BY <2>4, ConcatProperties
    <2>6. last + 1 \in 1 .. n + 1 /\ last + 1 > first
      BY <1>0, <2>3
    <2> DEFINE c == codes \o Piece(row, first, last)
    <2>7. SendPiece(row, q) = [first |-> last + 1, codes |-> c]
      BY <1>1, <1>3
    <2> HIDE DEF c
    <2>8. c \in Seq(Bytes)
      BY <2>5 DEF c
    <2> QED
      BY <2>6, <2>7, <2>8
  <1> QED
    BY <1>2, <1>3

LEMMA RunEncodeIs ==
  ASSUME NEW row \in Seq(Bytes)
  PROVE  \E sent : Pieces(row, sent) /\ RunEncode(row) = sent[Len(row)].codes
  <1> DEFINE n == Len(row)
             q == [first |-> 1, codes |-> <<>>]
             W == [first : 1 .. n + 1, codes : Seq(Bytes)]
             Is(f) == f = [k \in 0 .. n |-> IF k = 0 THEN q ELSE SendPiece(row, f[k - 1])]
             sent == CHOOSE f : Is(f)
  <1>1. n \in Nat /\ n \in 0 .. n
    OBVIOUS
  <1>2. RunEncode(row) = sent[n].codes
    BY DEF RunEncode
  <1>3. q \in W
    BY <1>1
  <1>4. ASSUME NEW w \in W
        PROVE  /\ SendPiece(row, w) \in W
               /\ SendPiece(row, w).first = n + 1 \/ SendPiece(row, w).first > w.first
    <2>1. /\ w.first \in 1 .. n + 1 /\ w.codes \in Seq(Bytes)
          /\ w = [first |-> w.first, codes |-> w.codes]
      OBVIOUS
    <2> QED
      BY <2>1, PieceSent
  <1> HIDE DEF W, q, n
  <1>5. \E f : Is(f)
    <2> DEFINE G == [w \in W |-> SendPiece(row, w)]
    <2>1. G \in [W -> W] /\ \A w \in W : G[w] = SendPiece(row, w)
      BY <1>4
    <2> HIDE DEF G
    <2>i. PICK f : Iterates(W, q, n, G, f)
      BY <1>1, <1>3, <2>1, Iteration
    <2>2. f \in [0 .. n -> W] /\ f = [k \in 0 .. n |-> IF k = 0 THEN q ELSE G[f[k - 1]]]
      BY <2>i DEF Iterates
    <2>3. \A k \in 0 .. n : k # 0 => k - 1 \in 0 .. n
      BY <1>1
    <2>4. \A k \in 0 .. n : k # 0 => G[f[k - 1]] = SendPiece(row, f[k - 1])
      BY <2>1, <2>2, <2>3
    <2>5. Is(f)
      BY <2>2, <2>4
    <2> HIDE DEF Is
    <2> QED
      BY <2>5
  <1>6. Is(sent)
    <2> HIDE DEF Is
    <2> QED
      BY <1>5
  <1> HIDE DEF sent
  <1>7. sent[0] = q /\ \A k \in 1 .. n : sent[k] = SendPiece(row, sent[k - 1])
    <2>1. \A k \in 1 .. n : k \in 0 .. n /\ k # 0
      BY <1>1
    <2>2. 0 \in 0 .. n
      BY <1>1
    <2> QED
      BY <1>6, <2>1, <2>2
  <1> DEFINE Good(k) == sent[k] \in W /\ sent[k].first > k
             Bad == {k \in 0 .. n : ~Good(k)}
  <1>8. ASSUME Bad # {} PROVE FALSE
    <2>1. Bad \in SUBSET Nat
      BY <1>1
    <2>2. PICK k \in Bad : \A j \in Bad : k <= j
      <3> HIDE DEF Bad
      <3> QED
        BY <1>8, <2>1, LeastNat
    <2>3. k \in 0 .. n /\ ~Good(k)
      OBVIOUS
    <2>4. CASE k = 0
      <3>1. q.first = 1
        BY DEF q
      <3> QED
        BY <1>3, <1>7, <2>3, <2>4, <3>1
    <2>5. CASE k # 0
      <3>1. k \in 1 .. n /\ k - 1 \in 0 .. n /\ ~(k <= k - 1)
        BY <1>1, <2>3, <2>5
      <3>2. Good(k - 1)
        BY <2>2, <3>1
      <3> DEFINE w == sent[k - 1]
                 r == sent[k]
      <3>3. w \in W /\ w.first > k - 1 /\ r = SendPiece(row, w)
        BY <1>7, <3>1, <3>2
      <3>4. w.first \in Nat /\ (r \in W => r.first \in Nat)
        BY <1>1, <3>3 DEF W
      <3>5. r \in W /\ (r.first = n + 1 \/ r.first > w.first)
        BY <1>4, <3>3
      <3>6. r.first > k
        <4> HIDE DEF r, w
        <4> QED
          BY <1>1, <3>1, <3>3, <3>4, <3>5
      <3> QED
        BY <2>3, <3>5, <3>6
    <2> QED
      BY <2>4, <2>5
  <1>9. \A k \in 0 .. n : Good(k)
    <2> SUFFICES ASSUME NEW k \in 0 .. n PROVE Good(k)
      OBVIOUS
    <2>1. k \notin Bad
      <3> HIDE DEF Bad
      <3> QED
        BY <1>8
    <2> HIDE DEF Good
    <2> QED
      BY <2>1
  <1>10. Pieces(row, sent)
    <2>1. \A k \in 0 .. n : /\ sent[k].first \in 1 .. n + 1
                            /\ sent[k].codes \in Seq(Bytes)
                            /\ sent[k].first > k
      BY <1>9 DEF W
    <2> QED
      BY <1>7, <2>1 DEF Pieces, n, q
  <1> QED
    BY <1>2, <1>10 DEF n

-----------------------------------------------------------------------------
(* The printer reads the pieces one by one.                                *)

LEMMA WhatIsLeft ==
  ASSUME NEW s \in Seq(Bytes), NEW t \in Seq(Bytes), NEW all, all = s \o t
  PROVE  SubSeq(all, Len(s) + 1, Len(all)) = t
  <1>1. PICK a \in Nat, b \in Nat : a = Len(s) /\ b = Len(t)
    OBVIOUS
  <1>2. /\ all \in Seq(Bytes) /\ Len(all) = a + b
        /\ \A i \in 1 .. a + b : all[i] = IF i <= a THEN s[i] ELSE t[i - a]
    <2>1. /\ all \in Seq(Bytes) /\ Len(all) = Len(s) + Len(t)
          /\ \A i \in 1 .. Len(s) + Len(t) :
                all[i] = IF i <= Len(s) THEN s[i] ELSE t[i - Len(s)]
      BY ConcatProperties
    <2> QED
      BY <1>1, <2>1
  <1>3. ASSUME NEW i \in 1 .. b
        PROVE  all[(a + 1) + i - 1] = t[i]
    <2>1. a + i \in 1 .. a + b /\ ~(a + i <= a) /\ (a + i) - a = i /\ (a + 1) + i - 1 = a + i
      OBVIOUS
    <2>2. all[a + i] = t[i]
      BY <1>2, <2>1
    <2> QED
      BY <2>1, <2>2
  <1>4. Len(all) = a + b
    BY <1>2, Zenon
  <1>5. /\ a + 1 \in Nat /\ Len(all) \in Nat /\ a + 1 >= 1 /\ Len(all) <= Len(all)
        /\ Len(all) - (a + 1) + 1 = b
    BY <1>4
  <1>6. \A i \in 1 .. Len(t) : all[(a + 1) + i - 1] = t[i]
    BY <1>1, <1>3
  <1>7. Len(all) - (a + 1) + 1 = Len(t) /\ all \in Seq(Bytes)
    BY <1>1, <1>2, <1>5, Zenon
  <1>8. SubSeq(all, a + 1, Len(all)) = t
    BY <1>5, <1>6, <1>7, SubSeqIsSeq
  <1> QED
    BY <1>1, <1>8

\* What is left of all the codes when those of k pieces are read.
Rest(row, sent, k) ==
  LET all == sent[Len(row)].codes
  IN  SubSeq(all, Len(sent[k].codes) + 1, Len(all))

LEMMA Joined ==
  ASSUME NEW s \in Seq(Bytes), NEW t \in Seq(Bytes), NEW u \in Seq(Bytes)
  PROVE  (s \o t) \o u = s \o (t \o u)
  BY ConcatAssociative

LEMMA RestIs ==
  ASSUME NEW row \in Seq(Bytes), NEW sent, Pieces(row, sent), NEW k \in 0 .. Len(row)
  PROVE  /\ Rest(row, sent, k) \in Seq(Bytes)
         /\ sent[Len(row)].codes = sent[k].codes \o Rest(row, sent, k)
  <1> DEFINE n == Len(row)
             all == sent[n].codes
             Good(j) == \E t \in Seq(Bytes) : all = sent[j].codes \o t
             Bad == {i \in 0 .. n : ~Good(n - i)}
  <1>1. n \in Nat
    OBVIOUS
  <1>2. \A j \in 0 .. n : sent[j].codes \in Seq(Bytes) /\ sent[j].first \in 1 .. n + 1
    BY DEF Pieces
  <1>3. \A j \in 1 .. n : sent[j] = SendPiece(row, sent[j - 1])
    BY DEF Pieces
  <1> HIDE DEF n
  <1>4. ASSUME Bad # {} PROVE FALSE
    <2>1. Bad \in SUBSET Nat
      BY <1>1
    <2>2. PICK i \in Bad : \A j \in Bad : i <= j
      <3> HIDE DEF Bad
      <3> QED
        BY <1>4, <2>1, LeastNat
    <2>3. i \in 0 .. n /\ ~Good(n - i)
      OBVIOUS
    <2>4. CASE i = 0
      <3>1. all \in Seq(Bytes) /\ <<>> \in Seq(Bytes)
        BY <1>1, <1>2
      <3>2. all = all \o <<>>
        BY <3>1, ConcatEmptySeq
      <3>3. n - i = n
        BY <1>1, <2>4
      <3> QED
        BY <2>3, <3>1, <3>2, <3>3
    <2>5. CASE i # 0
      <3>1. i - 1 \in 0 .. n /\ ~(i <= i - 1)
        BY <1>1, <2>3, <2>5
      <3>2. i - 1 \notin Bad
        BY <2>2, <3>1
      <3>3. Good(n - (i - 1))
        <4> HIDE DEF Good
        <4> QED
          BY <3>1, <3>2
      <3> DEFINE j == n - i
      <3>4. j \in 0 .. n /\ n - (i - 1) = j + 1 /\ j + 1 \in 1 .. n /\ (j + 1) - 1 = j
        BY <1>1, <2>3, <2>5
      <3>5. PICK t \in Seq(Bytes) : all = sent[j + 1].codes \o t
        BY <3>3, <3>4
      <3>6. sent[j + 1] = SendPiece(row, sent[j])
        BY <1>3, <3>4
      <3>7. sent[j].codes \in Seq(Bytes) /\ sent[j].first \in 1 .. n + 1
        BY <1>2, <3>4
      <3> DEFINE first == sent[j].first
                 last == LastOf(row, first)
                 p == Piece(row, first, last)
      <3>a. sent[j + 1] = IF first > n THEN sent[j]
                          ELSE [first |-> last + 1, codes |-> sent[j].codes \o p]
        BY <3>6 DEF SendPiece, n
      <3>8. CASE first > n
        <4>1. sent[j + 1] = sent[j]
          BY <3>8, <3>a
        <4> QED
          BY <2>3, <3>5, <4>1
      <3>9. CASE ~(first > n)
        <4>1. sent[j + 1].codes = sent[j].codes \o p
          <5> DEFINE c == sent[j].codes \o p
          <5> HIDE DEF p, last, c
          <5>1. sent[j + 1] = [first |-> last + 1, codes |-> c]
            BY <3>9, <3>a DEF c
          <5> QED
            BY <5>1 DEF c
        <4>2. first \in 1 .. Len(row)
          BY <1>1, <3>7, <3>9 DEF n
        <4>3. p \in Seq(Bytes)
          <5> HIDE DEF first
          <5>1. IsPiece(row, first, last)
            BY <4>2, LastOfIs
          <5>2. <<>> \in Seq(Bytes)
            OBVIOUS
          <5> HIDE DEF last
          <5> QED
            BY <4>2, <5>1, <5>2, PieceRead
        <4> HIDE DEF p
        <4>4. all = sent[j].codes \o (p \o t)
          <5> DEFINE d == sent[j].codes
          <5>1. d \in Seq(Bytes) /\ all = (d \o p) \o t
            BY <3>5, <3>7, <4>1
          <5> HIDE DEF d, all
          <5>2. (d \o p) \o t = d \o (p \o t)
            BY <4>3, <5>1, Joined
          <5> QED
            BY <5>1, <5>2 DEF d
        <4>5. p \o t \in Seq(Bytes)
          BY <4>3, ConcatProperties
        <4> QED
          BY <2>3, <4>4, <4>5
      <3> QED
        BY <3>8, <3>9
    <2> QED
      BY <2>4, <2>5
  <1>5. Good(k)
    <2>1. k \in Nat /\ n - k \in 0 .. n /\ n - (n - k) = k
      BY <1>1 DEF n
    <2>2. n - k \notin Bad
      <3> HIDE DEF Bad
      <3> QED
        BY <1>4
    <2>3. Good(n - (n - k))
      <3> HIDE DEF Good
      <3> QED
        BY <2>1, <2>2
    <2> QED
      BY <2>1, <2>3
  <1>6. PICK t \in Seq(Bytes) : all = sent[k].codes \o t
    BY <1>5
  <1>7. sent[k].codes \in Seq(Bytes)
    BY <1>2 DEF n
  <1>8. Rest(row, sent, k) = t
    <2> HIDE DEF all
    <2>1. SubSeq(all, Len(sent[k].codes) + 1, Len(all)) = t
      BY <1>6, <1>7, WhatIsLeft
    <2> QED
      BY <2>1 DEF Rest, all, n
  <1> QED
    BY <1>6, <1>8 DEF n

\* What the printer holds after k pieces.
Read(row, sent, k) ==
  [row |-> SubSeq(row, 1, sent[k].first - 1), rest |-> Rest(row, sent, k)]

LEMMA ReadNext ==
  ASSUME NEW row \in Seq(Bytes), NEW sent, Pieces(row, sent), NEW k \in 1 .. Len(row)
  PROVE  Read(row, sent, k) = ReadPiece(Read(row, sent, k - 1), Len(row))
  <1> DEFINE n == Len(row)
             q == sent[k - 1]
             first == q.first
             last == LastOf(row, first)
             p == Piece(row, first, last)
             all == sent[n].codes
  <1>1. n \in Nat /\ k \in 0 .. n /\ k - 1 \in 0 .. n
    OBVIOUS
  <1>2. q.codes \in Seq(Bytes) /\ first \in 1 .. n + 1
    BY <1>1 DEF Pieces
  <1>3. sent[k] = SendPiece(row, q)
    BY DEF Pieces
  <1>4. sent[k] = IF first > n THEN q ELSE [first |-> last + 1, codes |-> q.codes \o p]
    BY <1>3 DEF SendPiece
  <1>5. /\ Rest(row, sent, k) \in Seq(Bytes) /\ all = sent[k].codes \o Rest(row, sent, k)
        /\ Rest(row, sent, k - 1) \in Seq(Bytes)
    BY <1>1, RestIs
  <1>6. Rest(row, sent, k - 1) = SubSeq(all, Len(q.codes) + 1, Len(all))
    BY DEF Rest
  <1>7. Rest(row, sent, k) = SubSeq(all, Len(sent[k].codes) + 1, Len(all))
    BY DEF Rest
  <1> HIDE DEF n, q, first, last, p, all
  <1>8. CASE first > n
    <2>1. sent[k] = q
      BY <1>4, <1>8
    <2>2. Read(row, sent, k) = Read(row, sent, k - 1)
      BY <1>6, <1>7, <2>1 DEF Read, q
    <2>3. first = n + 1
      BY <1>1, <1>2, <1>8
    <2>4. Len(SubSeq(row, 1, first - 1)) >= n
      <3>1. first - 1 = n /\ n \in Int /\ 1 \in Int /\ 1 >= 1 /\ 1 <= n + 1 /\ n <= Len(row)
        BY <1>1, <2>3 DEF n
      <3>2. Len(SubSeq(row, 1, n)) = n - 1 + 1
        BY <3>1, SubSeqIs
      <3>3. n - 1 + 1 >= n
        BY <1>1
      <3> QED
        BY <3>1, <3>2, <3>3
    <2>5. Read(row, sent, k - 1).row = SubSeq(row, 1, first - 1)
      BY DEF Read, first, q
    <2>6. ReadPiece(Read(row, sent, k - 1), Len(row)) = Read(row, sent, k - 1)
      BY <2>4, <2>5 DEF ReadPiece, n
    <2> QED
      BY <2>2, <2>6
  <1>9. CASE ~(first > n)
    <2>1. first \in 1 .. Len(row)
      BY <1>1, <1>2, <1>9 DEF n
    <2>2. IsPiece(row, first, last)
      BY <2>1, LastOfIs DEF last
    <2> DEFINE t == Rest(row, sent, k)
    <2>3. /\ p \in Seq(Bytes)
          /\ ReadPiece([row |-> SubSeq(row, 1, first - 1), rest |-> p \o t], Len(row))
               = [row |-> SubSeq(row, 1, last), rest |-> t]
      <3>1. t \in Seq(Bytes)
        BY <1>5
      <3> HIDE DEF t
      <3> QED
        BY <2>1, <2>2, <3>1, PieceRead DEF p
    <2>4. sent[k].first = last + 1 /\ sent[k].codes = q.codes \o p
      <3> DEFINE c == q.codes \o p
      <3>1. sent[k] = [first |-> last + 1, codes |-> c]
        BY <1>4, <1>9
      <3> HIDE DEF c
      <3>2. sent[k].first = last + 1 /\ sent[k].codes = c
        BY <3>1
      <3> QED
        BY <3>2 DEF c
    <2>5. Rest(row, sent, k - 1) = p \o t
      <3> DEFINE d == q.codes
                 u == p \o t
      <3>1. d \in Seq(Bytes) /\ t \in Seq(Bytes) /\ all = (d \o p) \o t
        BY <1>2, <1>5, <2>4
      <3> HIDE DEF d, t
      <3>2. u \in Seq(Bytes)
        BY <2>3, <3>1, ConcatProperties
      <3>3. all = d \o u
        <4>1. (d \o p) \o t = d \o (p \o t)
          BY <2>3, <3>1, Joined
        <4> QED
          BY <3>1, <4>1
      <3> HIDE DEF u
      <3>4. SubSeq(all, Len(d) + 1, Len(all)) = u
        BY <3>1, <3>2, <3>3, WhatIsLeft
      <3> QED
        BY <1>6, <3>4 DEF d, u, t
    <2>6. Read(row, sent, k - 1) = [row |-> SubSeq(row, 1, first - 1), rest |-> p \o t]
      BY <2>5 DEF Read, first, q
    <2>7. last \in Nat /\ (last + 1) - 1 = last
      <3>1. last \in first .. Len(row)
        BY <2>2 DEF IsPiece
      <3> QED
        BY <1>2, <3>1
    <2>8. Read(row, sent, k) = [row |-> SubSeq(row, 1, last), rest |-> t]
      BY <2>4, <2>7 DEF Read
    <2> QED
      BY <2>3, <2>6, <2>8
  <1> QED
    BY <1>8, <1>9

\* Of every row RunEncode makes bytes of which unpack makes the row again, with no
\* byte left over.
THEOREM RoundTrip ==
  ASSUME NEW row \in Seq(Bytes)
  PROVE  /\ RunEncode(row) \in Seq(Bytes)
         /\ Unpack(RunEncode(row), Len(row)) = [row |-> row, rest |-> <<>>]
  <1> DEFINE n == Len(row)
             all == RunEncode(row)
             q == [row |-> <<>>, rest |-> all]
             Is(f) == f = [k \in 0 .. n |-> IF k = 0 THEN q ELSE ReadPiece(f[k - 1], n)]
             filled == CHOOSE f : Is(f)
  <1>1. n \in Nat /\ 0 \in 0 .. n /\ n \in 0 .. n
    OBVIOUS
  <1>2. PICK sent : Pieces(row, sent) /\ all = sent[n].codes
    BY RunEncodeIs
  <1>3. Unpack(all, n) = filled[n]
    BY DEF Unpack
  <1> DEFINE held == [k \in 0 .. n |-> Read(row, sent, k)]
  <1>4. all \in Seq(Bytes)
    BY <1>1, <1>2 DEF Pieces
  <1> HIDE DEF all
  <1>5. Read(row, sent, 0) = q
    <2>1. sent[0].first - 1 = 0 /\ sent[0].codes = <<>>
      BY <1>2 DEF Pieces
    <2>2. SubSeq(row, 1, 0) = <<>>
      BY SubSeqEmpty
    <2>3. all = <<>> \o Rest(row, sent, 0) /\ Rest(row, sent, 0) \in Seq(Bytes)
      BY <1>1, <1>2, <2>1, RestIs
    <2>4. Rest(row, sent, 0) = all
      BY <2>3, ConcatEmptySeq
    <2> QED
      BY <2>1, <2>2, <2>4 DEF Read
  <1>6. \A k \in 1 .. n : Read(row, sent, k) = ReadPiece(Read(row, sent, k - 1), n)
    BY <1>2, ReadNext
  <1> HIDE DEF n, q
  <1>7. Is(held)
    <2>1. \A k \in 0 .. n : k # 0 => k \in 1 .. n /\ k - 1 \in 0 .. n
      BY <1>1
    <2>2. \A k \in 0 .. n : held[k] = IF k = 0 THEN q ELSE ReadPiece(held[k - 1], n)
      BY <1>5, <1>6, <2>1
    <2> QED
      BY <2>2
  <1>8. Is(filled)
    <2> HIDE DEF Is
    <2> QED
      BY <1>7
  <1> HIDE DEF filled
  <1>9. \A k \in 0 .. n : filled[k] = IF k = 0 THEN q ELSE ReadPiece(filled[k - 1], n)
    BY <1>8
  <1>10. \A k \in 0 .. n : k # 0 => k \in 1 .. n /\ k - 1 \in 0 .. n
    BY <1>1
  <1> DEFINE Bad == {k \in 0 .. n : filled[k] # Read(row, sent, k)}
  <1>11. ASSUME Bad # {} PROVE FALSE
    <2>1. Bad \in SUBSET Nat
      BY <1>1
    <2>2. PICK k \in Bad : \A j \in Bad : k <= j
      <3> HIDE DEF Bad
      <3> QED
        BY <1>11, <2>1, LeastNat
    <2>3. k \in 0 .. n /\ filled[k] # Read(row, sent, k)
      OBVIOUS
    <2>4. k # 0
      BY <1>5, <1>9, <2>3
    <2>5. k \in 1 .. n /\ k - 1 \in 0 .. n /\ ~(k <= k - 1)
      BY <1>1, <2>3, <2>4
    <2>6. filled[k - 1] = Read(row, sent, k - 1)
      BY <2>2, <2>5
    <2> QED
      BY <1>6, <1>9, <2>3, <2>4, <2>5, <2>6
  <1>12. filled[n] = Read(row, sent, n)
    <2>1. n \notin Bad
      <3> HIDE DEF Bad
      <3> QED
        BY <1>11
    <2> QED
      BY <1>1, <2>1
  <1>13. Read(row, sent, n) = [row |-> row, rest |-> <<>>]
    <2>1. sent[n].first - 1 = n
      <3>1. sent[n].first \in 1 .. n + 1 /\ sent[n].first > n
        BY <1>1, <1>2 DEF Pieces, n
      <3> QED
        BY <1>1, <3>1
    <2>2. SubSeq(row, 1, n) = row
      <3>1. /\ SubSeq(row, 1, n) \in Seq(Bytes) /\ Len(SubSeq(row, 1, n)) = n - 1 + 1
            /\ \A i \in 1 .. n - 1 + 1 : SubSeq(row, 1, n)[i] = row[1 + i - 1]
        BY <1>1, SubSeqIs DEF n
      <3>2. n - 1 + 1 = n /\ \A i \in 1 .. n : 1 + i - 1 = i
        BY <1>1
      <3>3. \A i \in 1 .. n : SubSeq(row, 1, n)[i] = row[i]
        BY <3>1, <3>2
      <3>4. Len(SubSeq(row, 1, n)) = Len(row)
        BY <3>1, <3>2 DEF n
      <3> QED
        BY <3>1, <3>3, <3>4, SeqEqual DEF n
    <2>3. Rest(row, sent, n) = <<>>
      <3>1. Len(all) + 1 \in Int /\ Len(all) \in Int /\ Len(all) < Len(all) + 1
        BY <1>4
      <3>2. Rest(row, sent, n) = SubSeq(all, Len(all) + 1, Len(all))
        BY <1>2 DEF Rest, n
      <3> QED
        BY <3>1, <3>2, SubSeqEmpty
    <2> QED
      BY <2>1, <2>2, <2>3 DEF Read
  <1> QED
    BY <1>3, <1>4, <1>12, <1>13 DEF n, all

=============================================================================
