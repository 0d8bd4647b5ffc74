------------------------------- MODULE PsRun -------------------------------
(***************************************************************************)
(* The run length code in which PSCRIPT sends a row of a bitmap (RunEncode *)
(* in dibtodev.c), and the PostScript procedure that undoes it in the      *)
(* printer (unpack in res/rle.ps).  A byte has ByteSize values: 256 in the *)
(* code, fewer when TLC is to reach the longest runs with short rows.  The *)
(* loops begin with two bytes: with fewer than six values they would pass  *)
(* the length that a count can say.                                        *)
(***************************************************************************)
EXTENDS Integers, Sequences, FiniteSetsExt

CONSTANT ByteSize

ASSUME ByteSizeAssumption == ByteSize \in {2 * n : n \in 3 .. 128}

Bytes       == 0 .. ByteSize - 1
RUN_LEN     == ByteSize \div 2 + 1
NON_RUN_LEN == ByteSize \div 2

(* In state START, with first the next byte to send and another after it,  *)
(* a run or a non run begins.  The byte at which its loop ends:            *)
GoesOn(row, char, run) ==
  IF run THEN row[char] = row[char + 1] ELSE row[char] # row[char + 1]

Most(run) == IF run THEN RUN_LEN ELSE NON_RUN_LEN

LoopEnd(row, first, run) ==
  Min({char \in first + 1 .. Len(row) :
         char = Len(row) \/ ~GoesOn(row, char, run) \/ char - first + 2 >= Most(run)})

(* ... and the last byte that is sent.  A byte that repeats is left to the *)
(* run that follows (states IN_RUN and IN_NON_RUN).                        *)
LastOf(row, first) ==
  LET run  == row[first] = row[first + 1]
      char == LoopEnd(row, first, run)
  IN  IF first = Len(row) THEN first
      ELSE IF char = Len(row) THEN char
      ELSE IF GoesOn(row, char, run) THEN char + 1
      ELSE IF run THEN char ELSE char - 1

(* In states TERM and DONE: what is sent of the bytes first to last.       *)
\* A wrong version: the count of a run is one short
PieceShort(row, first, last) ==
  LET count == last - first + 1
  IN  IF count < 2 \/ row[last] # row[last - 1]
      THEN <<count - 1>> \o SubSeq(row, first, last)
      ELSE <<(2 - count) % ByteSize, row[last]>>
Piece(row, first, last) ==
  LET count == last - first + 1
  IN  IF count < 2 \/ row[last] # row[last - 1]
      THEN <<count - 1>> \o SubSeq(row, first, last)
      ELSE <<(1 - count) % ByteSize, row[last]>>

SendPiece(row, q) ==
  LET last == LastOf(row, q.first)
  IN  IF q.first > Len(row) THEN q
      ELSE [first |-> last + 1, codes |-> q.codes \o Piece(row, q.first, last)]

\* After k pieces; there are at most as many as bytes.
RunEncode(row) ==
  LET sent[k \in 0 .. Len(row)] ==
        IF k = 0 THEN [first |-> 1, codes |-> <<>>] ELSE SendPiece(row, sent[k - 1])
  IN  sent[Len(row)].codes

(* unpack: the row made of codes, and the codes left over when the row has *)
(* its length.                                                             *)
ReadPiece(q, length) ==
  LET c == q.rest
  IN  IF Len(q.row) >= length \/ c = <<>> THEN q
      ELSE IF c[1] <= ByteSize \div 2 - 1
      THEN [row |-> q.row \o SubSeq(c, 2, c[1] + 2), rest |-> SubSeq(c, c[1] + 3, Len(c))]
      ELSE [row |-> q.row \o [i \in 1 .. ByteSize + 1 - c[1] |-> c[2]],
            rest |-> SubSeq(c, 3, Len(c))]

Unpack(codes, length) ==
  LET filled[k \in 0 .. length] ==
        IF k = 0 THEN [row |-> <<>>, rest |-> codes] ELSE ReadPiece(filled[k - 1], length)
  IN  filled[length]

=============================================================================
