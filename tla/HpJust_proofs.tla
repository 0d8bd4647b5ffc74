--------------------------- MODULE HpJust_proofs ---------------------------
(***************************************************************************)
(* Proofs about justified text in the HPPCL driver: for any numbers of     *)
(* dots and any counts, and however a line is cut into runs, all the dots  *)
(* are spread, and evenly.                                                 *)
(*                                                                         *)
(* The argument is that of a line drawn by Bresenham: with E dots to spread*)
(* over C breaks, E = C * extra + rem, every break adds to the dots as much*)
(* (times C) as it takes from the share k * E of the breaks so far, but for*)
(* the change of the error, and the error stays between 1 and C.           *)
(***************************************************************************)
EXTENDS HpJust, TLAPS

Rec == [extra : Int, rem : Int, err : Int, count : Nat, ccount : Nat]

(* A record made for E dots and C breaks, with any error.                  *)
Shares(r, E, C) ==
  /\ r \in Rec
  /\ r.count = C
  /\ ErrInRange(r)
  /\ C = 0 => r.extra = 0 /\ r.rem = 0
  /\ C > 0 => E = C * r.extra + r.rem /\ r.rem \in 0 .. C - 1

Middle(C) == C \div 2 + 1

(* The record r is that of a line with k breaks, which added sum dots.     *)
At(r, E, C, k, sum) ==
  /\ Shares(r, E, C)
  /\ C > 0 => /\ r.ccount = k
              /\ k <= C => C * sum = k * E + r.err - Middle(C)
              /\ k >= C => sum = E

Types_ ==
  /\ want \in [ce : Int, cc : Nat, be : Int, bc : Nat]
  /\ dev \in [just : Types, wb : Rec, ltr : Rec]
  /\ run \in [open : BOOLEAN, wb : Rec, ltr : Rec]
  /\ line \in [chars : Nat, breaks : Nat, byLetters : Int, byBreaks : Int]
  /\ line.breaks <= line.chars

(* The device's records are those of the last SETALLJUSTVALUES.            *)
Devices ==
  /\ Shares(dev.wb, want.be, want.bc)
  /\ Shares(dev.ltr, want.ce, want.cc)
  /\ dev.just = "justifywordbreaks" => dev.ltr.rem = 0
  /\ dev.just = "fromdrawmode" =>
       dev.wb.extra = 0 /\ dev.wb.rem = 0 /\ dev.ltr.extra = 0 /\ dev.ltr.rem = 0

Copied ==
  IF run.open /\ dev.just # "fromdrawmode"
  THEN /\ Shares(run.wb, want.be, want.bc)
       /\ Shares(run.ltr, want.ce, want.cc)
       /\ dev.just = "justifywordbreaks" => run.ltr.rem = 0
  ELSE run.wb = NoBreaks /\ run.ltr = NoBreaks

(* How far the line is, by the records that count.                         *)
Progress ==
  IF dev.just = "fromdrawmode" THEN line.byBreaks = 0 /\ line.byLetters = 0
  ELSE LET wb  == IF run.open THEN run.wb ELSE dev.wb
           ltr == IF run.open THEN run.ltr ELSE dev.ltr
       IN  /\ At(wb, want.be, want.bc, line.breaks, line.byBreaks)
           /\ At(ltr, want.ce, want.cc, line.chars, line.byLetters)

IInv == Types_ /\ Devices /\ Copied /\ Progress

-----------------------------------------------------------------------------
(* Arithmetic.                                                             *)

\* The quotient rounded down and its remainder.
LEMMA DivFacts ==
  ASSUME NEW E \in Int, NEW C \in Nat, C > 0
  PROVE  /\ E \div C \in Int
         /\ E % C \in 0 .. C - 1
         /\ E = C * (E \div C) + (E % C)
  OBVIOUS

\* The middle of the error is in its range, half of the count at most from the
\* ends.
LEMMA MiddleFacts ==
  ASSUME NEW C \in Nat, C > 0
  PROVE  /\ Middle(C) \in 1 .. C
         /\ \A e \in 1 .. C : 2 * (e - Middle(C)) \in -C .. C
  <1> DEFINE h == C \div 2
  <1>1. h \in Int /\ 2 * h <= C /\ C <= 2 * h + 1
    OBVIOUS
  <1>2. Middle(C) = h + 1
    BY DEF Middle
  <1> HIDE DEF h
  <1> QED
    BY <1>1, <1>2

\* A multiple of C that is smaller than C is zero.
LEMMA SmallMultiple ==
  ASSUME NEW C \in Nat, C > 0, NEW d \in Int, C * d < C, C * d > -C
  PROVE  d = 0
  <1>1. CASE d >= 1
    <2>1. C * d >= C
      BY <1>1
    <2> QED
      BY <2>1
  <1>2. CASE d <= -1
    <2>1. C * d <= -C
      BY <1>2
    <2> QED
      BY <2>1
  <1> QED
    BY <1>1, <1>2

\* Products of sums.
LEMMA Distribute ==
  ASSUME NEW a \in Int, NEW b \in Int, NEW c \in Int
  PROVE  /\ a * (b + c) = a * b + a * c
         /\ a * (b - c) = a * b - a * c
         /\ (b + 1) * c = b * c + c
         /\ a * b = b * a
         /\ a * b \in Int
  OBVIOUS

-----------------------------------------------------------------------------
(* The operators the actions are built from.                               *)

\* A record that is not spreading anything.
LEMMA NoBreaksFacts ==
  /\ NoBreaks \in Rec
  /\ \A E \in Int : Shares(NoBreaks, E, 0)
  /\ \A type \in Types : AfterBreak(NoBreaks, type) = NoBreaks
                        /\ AfterLetter(NoBreaks, type) = NoBreaks
                        /\ JustBreak(NoBreaks, type) = 0
                        /\ LetterBreak(NoBreaks, type) = 0
  <1>1. NoBreaks \in Rec
    BY DEF NoBreaks, Rec
  <1>2. ErrInRange(NoBreaks) /\ ~ Carries(NoBreaks)
    BY DEF NoBreaks, ErrInRange, Carries
  <1>3. \A E \in Int : Shares(NoBreaks, E, 0)
    BY <1>1, <1>2 DEF NoBreaks, Shares
  <1>4. ASSUME NEW type \in Types
        PROVE  /\ AfterBreak(NoBreaks, type) = NoBreaks
               /\ AfterLetter(NoBreaks, type) = NoBreaks
               /\ JustBreak(NoBreaks, type) = 0
               /\ LetterBreak(NoBreaks, type) = 0
    <2>1. AfterBreak(NoBreaks, type) = NoBreaks
      <3>1. NoBreaks.err - NoBreaks.rem = 1 /\ NoBreaks.err = 1 /\ NoBreaks.count = 0
        BY DEF NoBreaks
      <3>2. AfterBreak(NoBreaks, type) = [NoBreaks EXCEPT !.err = 1, !.ccount = @]
        BY <1>2, <3>1 DEF AfterBreak
      <3> QED
        BY <3>2 DEF NoBreaks
    <2>2. JustBreak(NoBreaks, type) = 0
      BY <1>2 DEF JustBreak, NoBreaks
    <2> QED
      BY <2>1, <2>2 DEF AfterLetter, LetterBreak, NoBreaks
  <1> QED
    BY <1>1, <1>3, <1>4

\* CalcBreaks divides the dots, and its error starts in the middle.
LEMMA CalcBreaksFacts ==
  ASSUME NEW E \in Int, NEW C \in Nat
  PROVE  /\ Shares(CalcBreaks(E, C), E, C)
         /\ At(CalcBreaks(E, C), E, C, 0, 0)
  <1>1. CASE C = 0
    BY <1>1, NoBreaksFacts DEF CalcBreaks, At
  <1>2. CASE C > 0
    <2> DEFINE q == E \div C
               m == E % C
               r == CalcBreaks(E, C)
    <2>1. q \in Int /\ m \in 0 .. C - 1 /\ E = C * q + m
      BY <1>2, DivFacts
    <2>2. Middle(C) \in 1 .. C
      BY <1>2, MiddleFacts
    <2>3. r = [extra |-> q, rem |-> m, err |-> Middle(C), count |-> C, ccount |-> 0]
      BY <1>2 DEF CalcBreaks, Middle
    <2> HIDE DEF q, m, r
    <2>4. r \in Rec /\ r.count = C /\ ErrInRange(r)
      BY <1>2, <2>1, <2>2, <2>3 DEF Rec, ErrInRange
    <2>5. Shares(r, E, C)
      BY <1>2, <2>1, <2>3, <2>4 DEF Shares
    <2>6. C * 0 = 0 /\ 0 * E = 0
      OBVIOUS
    <2>7. At(r, E, C, 0, 0)
      BY <1>2, <2>2, <2>3, <2>5, <2>6 DEF At
    <2> QED
      BY <2>5, <2>7 DEF r
  <1> QED
    BY <1>1, <1>2

\* GetJustBreak keeps the record's shares and moves the line by a break.
LEMMA AfterBreakFacts ==
  ASSUME NEW E \in Int, NEW C \in Nat, NEW k \in Nat, NEW sum \in Int,
         NEW r, At(r, E, C, k, sum),
         NEW type \in Types, type # "fromdrawmode"
  PROVE  /\ At(AfterBreak(r, type), E, C, k + 1, sum + JustBreak(r, type))
         /\ JustBreak(r, type) \in Int
         /\ AfterBreak(r, type).rem = r.rem
  <1> DEFINE a == AfterBreak(r, type)
             j == JustBreak(r, type)
             c == IF Carries(r) THEN 1 ELSE 0
  <1>1. r \in Rec /\ r.count = C /\ ErrInRange(r) /\ Shares(r, E, C)
    BY DEF At, Shares
  <1>2. j \in Int
    BY <1>1 DEF JustBreak, Rec
  <1>3. /\ a \in Rec /\ a.extra = r.extra /\ a.rem = r.rem /\ a.count = C
        /\ C > 0 => a.ccount = r.ccount + 1
        /\ a.err = IF Carries(r) THEN r.err - r.rem + C ELSE r.err - r.rem
    <2> DEFINE e == IF Carries(r) THEN r.err - r.rem + r.count ELSE r.err - r.rem
               n == IF r.count # 0 THEN r.ccount + 1 ELSE r.ccount
    <2>1. e \in Int /\ n \in Nat
      BY <1>1 DEF Rec
    <2>2. a = [r EXCEPT !.err = e, !.ccount = n]
      BY DEF AfterBreak
    <2>3. e = IF Carries(r) THEN r.err - r.rem + C ELSE r.err - r.rem
      BY <1>1
    <2>4. C > 0 => n = r.ccount + 1
      BY <1>1
    <2> HIDE DEF a, e, n
    <2> QED
      BY <1>1, <2>1, <2>2, <2>3, <2>4 DEF Rec
  <1>4. CASE C = 0
    <2>1. ErrInRange(a)
      BY <1>1, <1>3, <1>4 DEF Shares, ErrInRange, Carries
    <2>2. Shares(a, E, C)
      BY <1>1, <1>3, <1>4, <2>1 DEF Shares
    <2> QED
      BY <1>2, <1>3, <1>4, <2>2 DEF At
  <1>5. CASE C > 0
    <2>1. /\ r.err \in 1 .. C /\ r.rem \in 0 .. C - 1 /\ r.extra \in Int
          /\ E = C * r.extra + r.rem /\ r.ccount = k
      BY <1>1, <1>5 DEF Shares, ErrInRange, Rec, At
    <2>2. a.err \in 1 .. C /\ a.err = r.err - r.rem + (IF Carries(r) THEN C ELSE 0)
      BY <1>3, <2>1 DEF Carries
    <2>3. Shares(a, E, C)
      BY <1>1, <1>3, <1>5, <2>2 DEF Shares, ErrInRange
    <2>4. CASE k >= C
      <3>1. j = 0 /\ sum = E
        BY <1>1, <1>5, <2>1, <2>4 DEF JustBreak, Spent, At
      <3> QED
        BY <1>2, <1>3, <2>1, <2>3, <2>4, <3>1 DEF At
    <2>5. CASE k < C
      <3> DEFINE M == Middle(C)
      <3>1. C * sum = k * E + r.err - M
        BY <1>5, <2>5 DEF At
      <3>2. j = r.extra + c /\ c \in {0, 1}
        BY <1>1, <2>1, <2>5 DEF JustBreak, Spent
      <3>3. C * c = (IF Carries(r) THEN C ELSE 0)
        OBVIOUS
      <3>4. M \in 1 .. C
        BY <1>5, MiddleFacts
      <3> HIDE DEF a, j, c, M
      <3>5. C * (sum + j) = C * sum + C * r.extra + C * c
        <4>1. sum + j = (sum + r.extra) + c
          BY <2>1, <3>2
        <4>2. C * ((sum + r.extra) + c) = C * (sum + r.extra) + C * c
          BY <2>1, <3>2, Distribute
        <4>3. C * (sum + r.extra) = C * sum + C * r.extra
          BY <2>1, Distribute
        <4> QED
          BY <4>1, <4>2, <4>3
      <3>6. C * (sum + j) = (k + 1) * E + a.err - M
        <4> DEFINE CS == C * sum
                   CX == C * r.extra
                   CC == C * c
                   kE == k * E
        <4>1. (k + 1) * E = kE + E /\ CS \in Int /\ CX \in Int /\ CC \in Int /\ kE \in Int
          BY <2>1, <3>2, Distribute
        <4>2. /\ C * (sum + j) = CS + CX + CC /\ CS = kE + r.err - M
              /\ E = CX + r.rem /\ a.err = r.err - r.rem + CC
          BY <2>1, <2>2, <3>1, <3>3, <3>5
        <4> HIDE DEF CS, CX, CC, kE
        <4> QED
          BY <2>1, <3>4, <4>1, <4>2
      <3>7. ASSUME k + 1 >= C
            PROVE  sum + j = E
        <4>1. k + 1 = C
          BY <2>5, <3>7
        <4> DEFINE d == sum + j - E
                   CE == C * E
        <4>2. d \in Int /\ CE \in Int
          BY <1>2
        <4>3. C * d = C * (sum + j) - CE
          BY <1>2, Distribute
        <4>4. C * (sum + j) = CE + a.err - M
          BY <3>6, <4>1
        <4> HIDE DEF d, CE
        <4>5. C * d = a.err - M
          BY <2>2, <3>4, <4>2, <4>3, <4>4
        <4>6. d = 0
          BY <1>5, <2>2, <3>4, <4>2, <4>5, SmallMultiple
        <4> QED
          BY <1>2, <4>6 DEF d
      <3> QED
        BY <1>2, <1>3, <1>5, <2>1, <2>3, <3>6, <3>7 DEF At, a, j, M
    <2> QED
      BY <2>4, <2>5
  <1> QED
    BY <1>4, <1>5

\* With no remainder, or by letters, a letter is as GetJustBreak.
LEMMA AfterLetterFacts ==
  ASSUME NEW r \in Rec, ErrInRange(r), NEW type \in Types, type # "fromdrawmode",
         type = "justifywordbreaks" => r.rem = 0
  PROVE  /\ AfterLetter(r, type) = AfterBreak(r, type)
         /\ LetterBreak(r, type) = JustBreak(r, type)
  <1>1. CASE type = "justifyletters"
    BY <1>1 DEF AfterLetter, LetterBreak
  <1>2. CASE type = "justifywordbreaks"
    <2>1. ~ Carries(r) /\ r.err - r.rem = r.err
      BY <1>2 DEF ErrInRange, Carries, Rec
    <2> QED
      BY <1>2, <2>1 DEF AfterLetter, AfterBreak, LetterBreak, JustBreak, Rec
  <1> QED
    BY <1>1, <1>2 DEF Types

\* A line that is at k breaks is even, and complete when k is the count.
LEMMA AtGood ==
  ASSUME NEW E \in Int, NEW C \in Nat, NEW k \in Nat, NEW sum \in Int,
         NEW r, At(r, E, C, k, sum)
  PROVE  /\ Even(sum, E, k, C)
         /\ C > 0 /\ k >= C => sum = E
  <1>1. C > 0 /\ k >= C => sum = E
    BY DEF At
  <1>2. CASE C > 0
    <2>1. r.err \in 1 .. C
      BY <1>2 DEF At, Shares, ErrInRange
    <2>2. Middle(C) \in Int /\ 2 * (r.err - Middle(C)) \in -C .. C
      BY <1>2, <2>1, MiddleFacts
    <2>3. ASSUME k <= C
          PROVE  2 * (sum * C - k * E) \in -C .. C
      <3> DEFINE CS == C * sum
                 kE == k * E
      <3>1. CS = kE + r.err - Middle(C)
        BY <1>2, <2>3 DEF At
      <3>2. CS \in Int /\ kE \in Int /\ sum * C = CS
        OBVIOUS
      <3> HIDE DEF CS, kE
      <3>3. CS - kE = r.err - Middle(C)
        BY <2>1, <2>2, <3>1, <3>2
      <3> QED
        BY <2>2, <3>2, <3>3 DEF kE
    <2> QED
      BY <1>1, <2>3 DEF Even
  <1>3. CASE C = 0
    <2>1. k <= C => k = 0 /\ sum * C = 0 /\ 0 * E = 0
      BY <1>3
    <2> QED
      BY <1>1, <1>3, <2>1 DEF Even
  <1> QED
    BY <1>2, <1>3

-----------------------------------------------------------------------------
(* The invariant.                                                          *)

\* What SETALLJUSTVALUES leaves is the start of a line.
LEMMA AllJustFacts ==
  ASSUME NEW ce \in Int, NEW cc \in Nat, NEW be \in Int, NEW bc \in Nat,
         NEW d, d = AllJust(ce, cc, be, bc)
  PROVE  /\ d \in [just : Types, wb : Rec, ltr : Rec]
         /\ Shares(d.wb, be, bc) /\ At(d.wb, be, bc, 0, 0)
         /\ Shares(d.ltr, ce, cc) /\ At(d.ltr, ce, cc, 0, 0)
         /\ d.just = "justifywordbreaks" => d.ltr.rem = 0
         /\ d.just = "fromdrawmode" =>
              d.wb.extra = 0 /\ d.wb.rem = 0 /\ d.ltr.extra = 0 /\ d.ltr.rem = 0
  <1> DEFINE wb == CalcBreaks(be, bc)
             ltr == CalcBreaks(ce, cc)
             none == wb.extra = 0 /\ wb.rem = 0 /\ ltr.extra = 0 /\ ltr.rem = 0
             just == IF none THEN "fromdrawmode"
                     ELSE IF ltr.rem # 0 THEN "justifyletters" ELSE "justifywordbreaks"
  <1>1. Shares(wb, be, bc) /\ At(wb, be, bc, 0, 0)
    BY CalcBreaksFacts
  <1>2. Shares(ltr, ce, cc) /\ At(ltr, ce, cc, 0, 0)
    BY CalcBreaksFacts
  <1>3. d = [just |-> just, wb |-> wb, ltr |-> ltr]
    BY DEF AllJust
  <1>4. just \in Types /\ (just = "fromdrawmode" => none)
        /\ (just = "justifywordbreaks" => ltr.rem = 0)
    BY DEF Types
  <1>5. wb \in Rec /\ ltr \in Rec
    BY <1>1, <1>2 DEF Shares
  <1> HIDE DEF wb, ltr, just
  <1> QED
    BY <1>1, <1>2, <1>3, <1>4, <1>5

\* A line starts as Progress says.
LEMMA IInvInit == Init => IInv
  <1> SUFFICES ASSUME Init PROVE IInv
    OBVIOUS
  <1>1. PICK ce \in Extras, be \in Extras, cc \in Counts, bc \in Counts :
          /\ want = [ce |-> ce, cc |-> cc, be |-> be, bc |-> bc]
          /\ dev = AllJust(ce, cc, be, bc)
    BY DEF Init
  <1>2. ce \in Int /\ be \in Int /\ cc \in Nat /\ bc \in Nat
    BY HpJustAssumption
  <1>3. run = Closed /\ line = NewLine
    BY DEF Init
  <1>4. /\ run \in [open : BOOLEAN, wb : Rec, ltr : Rec] /\ ~ run.open
        /\ run.wb = NoBreaks /\ run.ltr = NoBreaks
    BY <1>3, NoBreaksFacts DEF Closed
  <1>5. /\ line \in [chars : Nat, breaks : Nat, byLetters : Int, byBreaks : Int]
        /\ line.chars = 0 /\ line.breaks = 0 /\ line.byLetters = 0 /\ line.byBreaks = 0
    BY <1>3 DEF NewLine
  <1>6. /\ want \in [ce : Int, cc : Nat, be : Int, bc : Nat]
        /\ want.ce = ce /\ want.cc = cc /\ want.be = be /\ want.bc = bc
    BY <1>1, <1>2
  <1>7. /\ dev \in [just : Types, wb : Rec, ltr : Rec]
        /\ Devices
        /\ At(dev.wb, be, bc, 0, 0) /\ At(dev.ltr, ce, cc, 0, 0)
    BY <1>1, <1>2, <1>6, AllJustFacts DEF Devices
  <1>8. Types_
    BY <1>4, <1>5, <1>6, <1>7 DEF Types_
  <1> QED
    BY <1>4, <1>5, <1>6, <1>7, <1>8 DEF IInv, Copied, Progress

\* A run starts with what the device remembers.
LEMMA IInvStartRun == IInv /\ StartRun => IInv'
  <1> SUFFICES ASSUME IInv, StartRun PROVE IInv'
    OBVIOUS
  <1> USE DEF IInv, Types_
  <1>1. ~ run.open /\ run' = Copies(dev) /\ UNCHANGED <<want, dev, line>>
    BY DEF StartRun
  <1>2. CASE dev.just = "fromdrawmode"
    <2>1. run' = [open |-> TRUE, wb |-> NoBreaks, ltr |-> NoBreaks]
      BY <1>1, <1>2 DEF Copies
    <2>2. Types_' /\ Devices'
      BY <1>1, <2>1, NoBreaksFacts DEF Devices
    <2>3. Copied' /\ Progress'
      BY <1>1, <1>2, <2>1 DEF Copied, Progress
    <2> QED
      BY <2>2, <2>3
  <1>3. CASE dev.just # "fromdrawmode"
    <2>1. run' = [open |-> TRUE, wb |-> dev.wb, ltr |-> dev.ltr]
      BY <1>1, <1>3 DEF Copies
    <2>2. Types_' /\ Devices'
      BY <1>1, <2>1 DEF Devices
    <2>3. Copied'
      BY <1>1, <1>3, <2>1 DEF Copied, Devices
    <2>4. Progress'
      BY <1>1, <1>3, <2>1 DEF Progress
    <2> QED
      BY <2>2, <2>3, <2>4
  <1> QED
    BY <1>2, <1>3

\* A letter moves the line by a letter, and a word break by a break too.
LEMMA IInvLetter ==
  ASSUME NEW isBreak \in BOOLEAN, IInv, Letter(isBreak)
  PROVE  IInv'
  <1> USE DEF IInv, Types_
  <1> DEFINE type == dev.just
             wb == IF isBreak THEN AfterBreak(run.wb, type) ELSE run.wb
             ltr == AfterLetter(run.ltr, type)
             breaks == IF isBreak THEN line.breaks + 1 ELSE line.breaks
             byLetters == line.byLetters + LetterBreak(run.ltr, type)
             byBreaks == IF isBreak THEN line.byBreaks + JustBreak(run.wb, type)
                         ELSE line.byBreaks
  <1>1. /\ run.open /\ UNCHANGED <<want, dev>>
        /\ run' = [run EXCEPT !.ltr = ltr, !.wb = wb]
        /\ line' = [chars |-> line.chars + 1, breaks |-> breaks,
                    byLetters |-> byLetters, byBreaks |-> byBreaks]
    BY DEF Letter
  <1>2. type \in Types /\ Devices'
    BY <1>1 DEF Devices
  <1>3. breaks \in Nat /\ breaks <= line.chars + 1
    OBVIOUS
  <1>4. CASE type = "fromdrawmode"
    <2>1. run.wb = NoBreaks /\ run.ltr = NoBreaks
      BY <1>4 DEF Copied
    <2>2. wb = NoBreaks /\ ltr = NoBreaks
      BY <1>2, <2>1, NoBreaksFacts
    <2>3. byLetters = 0 /\ byBreaks = 0
      <3>1. line.byLetters = 0 /\ line.byBreaks = 0
        BY <1>4 DEF Progress
      <3>2. LetterBreak(run.ltr, type) = 0 /\ JustBreak(run.wb, type) = 0
        BY <1>2, <2>1, NoBreaksFacts
      <3> QED
        BY <3>1, <3>2
    <2> HIDE DEF wb, ltr, breaks, byLetters, byBreaks
    <2>4. /\ run' \in [open : BOOLEAN, wb : Rec, ltr : Rec]
          /\ run'.wb = NoBreaks /\ run'.ltr = NoBreaks
      BY <1>1, <2>2, NoBreaksFacts
    <2>5. /\ line' \in [chars : Nat, breaks : Nat, byLetters : Int, byBreaks : Int]
          /\ line'.breaks <= line'.chars /\ line'.byLetters = 0 /\ line'.byBreaks = 0
      BY <1>1, <1>3, <2>3
    <2>6. Types_'
      BY <1>1, <2>4, <2>5
    <2> QED
      BY <1>1, <1>2, <1>4, <2>4, <2>5, <2>6 DEF Copied, Progress
  <1>5. CASE type # "fromdrawmode"
    <2>1. /\ At(run.wb, want.be, want.bc, line.breaks, line.byBreaks)
          /\ At(run.ltr, want.ce, want.cc, line.chars, line.byLetters)
      BY <1>1, <1>5 DEF Progress
    <2>2. type = "justifywordbreaks" => run.ltr.rem = 0
      BY <1>1, <1>5 DEF Copied
    <2>3. At(wb, want.be, want.bc, breaks, byBreaks) /\ byBreaks \in Int
      BY <1>2, <1>5, <2>1, AfterBreakFacts
    <2>4. /\ At(ltr, want.ce, want.cc, line.chars + 1, byLetters)
          /\ byLetters \in Int /\ ltr.rem = run.ltr.rem
      <3>1. ErrInRange(run.ltr)
        BY <2>1 DEF At, Shares
      <3>2. /\ ltr = AfterBreak(run.ltr, type)
            /\ LetterBreak(run.ltr, type) = JustBreak(run.ltr, type)
        BY <1>2, <1>5, <2>2, <3>1, AfterLetterFacts
      <3>3. /\ At(AfterBreak(run.ltr, type), want.ce, want.cc, line.chars + 1,
                  line.byLetters + JustBreak(run.ltr, type))
            /\ JustBreak(run.ltr, type) \in Int
            /\ AfterBreak(run.ltr, type).rem = run.ltr.rem
        BY <1>2, <1>5, <2>1, AfterBreakFacts
      <3> QED
        BY <3>2, <3>3
    <2> HIDE DEF wb, ltr, breaks, byLetters, byBreaks
    <2>5. Shares(wb, want.be, want.bc) /\ Shares(ltr, want.ce, want.cc)
      BY <2>3, <2>4 DEF At
    <2>6. wb \in Rec /\ ltr \in Rec
      BY <2>5 DEF Shares
    <2>7. run' \in [open : BOOLEAN, wb : Rec, ltr : Rec]
          /\ run'.open /\ run'.wb = wb /\ run'.ltr = ltr
      BY <1>1, <2>6
    <2>8. Types_'
      BY <1>1, <1>3, <2>3, <2>4, <2>7
    <2>9. Copied'
      BY <1>1, <1>5, <2>2, <2>4, <2>5, <2>7 DEF Copied
    <2>10. Progress'
      BY <1>1, <1>5, <2>3, <2>4, <2>7 DEF Progress
    <2> QED
      BY <1>2, <2>8, <2>9, <2>10
  <1> QED
    BY <1>4, <1>5

\* The device takes the error and the count of a run, and its own shares.
LEMMA IInvEndRun == IInv /\ EndRun => IInv'
  <1> SUFFICES ASSUME IInv, EndRun PROVE IInv'
    OBVIOUS
  <1> USE DEF IInv, Types_
  <1>1. run.open /\ run' = Closed /\ UNCHANGED <<want, line>>
    BY DEF EndRun
  <1>2. /\ run' \in [open : BOOLEAN, wb : Rec, ltr : Rec] /\ ~ run'.open
        /\ run'.wb = NoBreaks /\ run'.ltr = NoBreaks
    BY <1>1, NoBreaksFacts DEF Closed
  <1>3. CASE dev.just = "fromdrawmode"
    <2>1. dev' = dev
      BY <1>3 DEF EndRun
    <2>2. Types_' /\ Devices' /\ Copied'
      BY <1>1, <1>2, <2>1 DEF Devices, Copied
    <2>3. Progress'
      BY <1>1, <1>3, <2>1 DEF Progress
    <2> QED
      BY <2>2, <2>3
  <1>4. CASE dev.just # "fromdrawmode"
    <2> DEFINE wb == [dev.wb EXCEPT !.err = run.wb.err, !.ccount = run.wb.ccount]
               ltr == [dev.ltr EXCEPT !.err = run.ltr.err, !.ccount = run.ltr.ccount]
    <2>1. /\ wb \in Rec /\ wb.extra = dev.wb.extra /\ wb.rem = dev.wb.rem
          /\ wb.count = dev.wb.count /\ wb.err = run.wb.err /\ wb.ccount = run.wb.ccount
      BY DEF Rec
    <2>2. /\ ltr \in Rec /\ ltr.extra = dev.ltr.extra /\ ltr.rem = dev.ltr.rem
          /\ ltr.count = dev.ltr.count /\ ltr.err = run.ltr.err
          /\ ltr.ccount = run.ltr.ccount
      BY DEF Rec
    <2>3. dev' = [dev EXCEPT !.wb = wb, !.ltr = ltr]
      BY <1>4 DEF EndRun
    <2> HIDE DEF wb, ltr
    <2>4. dev' \in [just : Types, wb : Rec, ltr : Rec]
          /\ dev'.wb = wb /\ dev'.ltr = ltr /\ dev'.just = dev.just
      BY <2>1, <2>2, <2>3
    <2>5. /\ At(run.wb, want.be, want.bc, line.breaks, line.byBreaks)
          /\ At(run.ltr, want.ce, want.cc, line.chars, line.byLetters)
      BY <1>1, <1>4 DEF Progress
    <2>6. /\ Shares(wb, want.be, want.bc)
          /\ At(wb, want.be, want.bc, line.breaks, line.byBreaks)
      <3>1. run.wb.count = want.bc /\ ErrInRange(run.wb) /\ dev.wb.count = want.bc
        BY <2>5 DEF At, Shares, Devices
      <3>2. ErrInRange(wb)
        BY <2>1, <3>1 DEF ErrInRange
      <3>3. Shares(wb, want.be, want.bc)
        BY <2>1, <3>2 DEF Shares, Devices
      <3> QED
        BY <2>1, <2>5, <3>3 DEF At
    <2>7. /\ Shares(ltr, want.ce, want.cc)
          /\ At(ltr, want.ce, want.cc, line.chars, line.byLetters)
      <3>1. run.ltr.count = want.cc /\ ErrInRange(run.ltr) /\ dev.ltr.count = want.cc
        BY <2>5 DEF At, Shares, Devices
      <3>2. ErrInRange(ltr)
        BY <2>2, <3>1 DEF ErrInRange
      <3>3. Shares(ltr, want.ce, want.cc)
        BY <2>2, <3>2 DEF Shares, Devices
      <3> QED
        BY <2>2, <2>5, <3>3 DEF At
    <2>8. Types_'
      BY <1>1, <1>2, <2>4
    <2>9. Devices'
      BY <1>1, <1>4, <2>2, <2>4, <2>6, <2>7 DEF Devices
    <2>10. Copied'
      BY <1>2 DEF Copied
    <2>11. Progress'
      BY <1>1, <1>2, <1>4, <2>4, <2>6, <2>7 DEF Progress
    <2> QED
      BY <2>8, <2>9, <2>10, <2>11
  <1> QED
    BY <1>3, <1>4

\* The next line starts over.
LEMMA IInvNextLine == IInv /\ NextLine => IInv'
  <1> SUFFICES ASSUME IInv, NextLine PROVE IInv'
    OBVIOUS
  <1> USE DEF IInv, Types_
  <1>1. PICK ce \in Extras, be \in Extras, cc \in Counts, bc \in Counts :
          /\ want' = [ce |-> ce, cc |-> cc, be |-> be, bc |-> bc]
          /\ dev' = AllJust(ce, cc, be, bc)
    BY DEF NextLine
  <1>2. ce \in Int /\ be \in Int /\ cc \in Nat /\ bc \in Nat
    BY HpJustAssumption
  <1>3. ~ run.open /\ run' = run /\ line' = NewLine
    BY DEF NextLine
  <1>4. run.wb = NoBreaks /\ run.ltr = NoBreaks
    BY <1>3 DEF Copied
  <1>5. /\ line' \in [chars : Nat, breaks : Nat, byLetters : Int, byBreaks : Int]
        /\ line'.chars = 0 /\ line'.breaks = 0
        /\ line'.byLetters = 0 /\ line'.byBreaks = 0
    BY <1>3 DEF NewLine
  <1>6. /\ want' \in [ce : Int, cc : Nat, be : Int, bc : Nat]
        /\ want'.ce = ce /\ want'.cc = cc /\ want'.be = be /\ want'.bc = bc
    BY <1>1, <1>2
  <1>7. /\ dev' \in [just : Types, wb : Rec, ltr : Rec]
        /\ Devices'
        /\ At(dev'.wb, be, bc, 0, 0) /\ At(dev'.ltr, ce, cc, 0, 0)
    <2> HIDE DEF IInv, Types_
    <2> DEFINE d == AllJust(ce, cc, be, bc)
    <2>1. /\ d \in [just : Types, wb : Rec, ltr : Rec]
          /\ Shares(d.wb, be, bc) /\ At(d.wb, be, bc, 0, 0)
          /\ Shares(d.ltr, ce, cc) /\ At(d.ltr, ce, cc, 0, 0)
          /\ d.just = "justifywordbreaks" => d.ltr.rem = 0
          /\ d.just = "fromdrawmode" =>
               d.wb.extra = 0 /\ d.wb.rem = 0 /\ d.ltr.extra = 0 /\ d.ltr.rem = 0
      BY <1>2, AllJustFacts
    <2>2. dev' = d
      BY <1>1
    <2> HIDE DEF d
    <2> QED
      BY <1>6, <2>1, <2>2 DEF Devices
  <1>8. Types_'
    BY <1>3, <1>5, <1>6, <1>7
  <1> QED
    BY <1>3, <1>4, <1>5, <1>6, <1>7, <1>8 DEF Copied, Progress

\* Every step keeps the invariant.
LEMMA IInvNext == IInv /\ [Next]_vars => IInv'
  <1> SUFFICES ASSUME IInv, [Next]_vars PROVE IInv'
    OBVIOUS
  <1>1. CASE StartRun
    BY <1>1, IInvStartRun
  <1>2. CASE \E isBreak \in BOOLEAN : Letter(isBreak)
    BY <1>2, IInvLetter
  <1>3. CASE EndRun
    BY <1>3, IInvEndRun
  <1>4. CASE NextLine
    BY <1>4, IInvNextLine
  <1>5. CASE UNCHANGED vars
    BY <1>5 DEF vars, IInv, Types_, Devices, Copied, Progress
  <1> QED
    BY <1>1, <1>2, <1>3, <1>4, <1>5 DEF Next

LEMMA JustInv == Spec => []IInv
  BY IInvInit, IInvNext, PTL DEF Spec

-----------------------------------------------------------------------------
(* What it gives.                                                          *)

\* The error of GetJustBreak stays in its range, for any dots and counts.
THEOREM JustTypes == Spec => []TypeOK
  <1>1. IInv => TypeOK
    <2> SUFFICES ASSUME IInv PROVE TypeOK
      OBVIOUS
    <2>1. ErrInRange(dev.wb) /\ ErrInRange(dev.ltr)
      BY DEF IInv, Devices, Shares
    <2>2. ErrInRange(NoBreaks)
      BY NoBreaksFacts DEF Shares
    <2>3. ErrInRange(run.wb) /\ ErrInRange(run.ltr)
      BY <2>2 DEF IInv, Copied, Shares
    <2> QED
      BY <2>1, <2>3 DEF IInv, Types_, TypeOK
  <1> QED
    BY <1>1, JustInv, PTL

\* Every dot asked for is added by the end of a line, and never more, whatever
\* the dots, the counts and the runs.
THEOREM JustSpreads == Spec => []AllSpread
  <1>1. IInv => AllSpread
    <2> SUFFICES ASSUME IInv PROVE AllSpread
      OBVIOUS
    <2> USE DEF IInv, Types_
    <2>1. CASE dev.just = "fromdrawmode"
      BY <2>1 DEF Devices, Progress, Shares, AllSpread
    <2>2. CASE dev.just # "fromdrawmode"
      BY <2>2, AtGood DEF Progress, AllSpread
    <2> QED
      BY <2>1, <2>2
  <1> QED
    BY <1>1, JustInv, PTL

\* All along the line, the dots added are within half a dot of the even share.
THEOREM JustEven == Spec => []SpreadEvenly
  <1>1. IInv => SpreadEvenly
    <2> SUFFICES ASSUME IInv PROVE SpreadEvenly
      OBVIOUS
    <2> USE DEF IInv, Types_
    <2>1. CASE dev.just = "fromdrawmode"
      <3>1. line.byBreaks = 0 /\ line.byLetters = 0
        BY <2>1 DEF Progress
      <3>2. /\ want.bc > 0 => want.be = 0
            /\ want.cc > 0 => want.ce = 0
        <4>1. /\ want.bc > 0 => want.be = want.bc * dev.wb.extra + dev.wb.rem
              /\ want.cc > 0 => want.ce = want.cc * dev.ltr.extra + dev.ltr.rem
          BY DEF Devices, Shares
        <4>2. /\ dev.wb.extra = 0 /\ dev.wb.rem = 0
              /\ dev.ltr.extra = 0 /\ dev.ltr.rem = 0
          BY <2>1 DEF Devices
        <4> QED
          BY <4>1, <4>2
      <3>3. ASSUME NEW E \in Int, NEW C \in Nat, NEW k \in Nat, C > 0 => E = 0
            PROVE  Even(0, E, k, C)
        <4>1. CASE C > 0
          <5>1. E = 0 /\ 0 * C = 0 /\ k * 0 = 0
            BY <3>3, <4>1
          <5> QED
            BY <4>1, <5>1 DEF Even
        <4>2. CASE C = 0
          <5>1. k <= C => k = 0 /\ 0 * C = 0 /\ 0 * E = 0
            BY <4>2
          <5> QED
            BY <4>2, <5>1 DEF Even
        <4> QED
          BY <4>1, <4>2
      <3>4. Even(line.byBreaks, want.be, line.breaks, want.bc)
        BY <3>1, <3>2, <3>3
      <3>5. Even(line.byLetters, want.ce, line.chars, want.cc)
        BY <3>1, <3>2, <3>3
      <3> QED
        BY <3>4, <3>5 DEF SpreadEvenly
    <2>2. CASE dev.just # "fromdrawmode"
      <3> DEFINE wb == IF run.open THEN run.wb ELSE dev.wb
                 ltr == IF run.open THEN run.ltr ELSE dev.ltr
      <3>1. /\ At(wb, want.be, want.bc, line.breaks, line.byBreaks)
            /\ At(ltr, want.ce, want.cc, line.chars, line.byLetters)
        BY <2>2 DEF Progress
      <3> HIDE DEF wb, ltr
      <3>2. Even(line.byBreaks, want.be, line.breaks, want.bc)
        BY <3>1, AtGood
      <3>3. Even(line.byLetters, want.ce, line.chars, want.cc)
        BY <3>1, AtGood
      <3> QED
        BY <3>2, <3>3 DEF SpreadEvenly
    <2> QED
      BY <2>1, <2>2
  <1> QED
    BY <1>1, JustInv, PTL
=============================================================================
