------------------------------- MODULE HpJust -------------------------------
(***************************************************************************)
(* Justified text in the HPPCL printer driver: SETALLJUSTVALUES and        *)
(* CalcBreaks (control.c), SetJustification, GetJustBreak and the part of  *)
(* str_out (physical.c) that spreads a number of dots over the letters and *)
(* the word breaks of a line.                                              *)
(*                                                                         *)
(* An application prints a line in runs: it puts a run out (ExtTextOut)    *)
(* and then asks for its extent, which is where the next run goes.  Both   *)
(* calls go through str_out with copies of the records of the device; only *)
(* the second one writes the copies back.                                  *)
(***************************************************************************)
EXTENDS Integers

CONSTANTS Extras,   \* numbers of dots an application may ask to spread
          Counts,   \* numbers of letters or word breaks to spread them over
          MaxChars  \* bound: characters of a line

ASSUME HpJustAssumption ==
    Extras \subseteq Int /\ Counts \subseteq Nat /\ MaxChars \in Nat

VARIABLES want,   \* what the application asked for
          dev,    \* epJust, epJustWB and epJustLTR
          run,    \* the copies str_out works on, and whether a run is open
          line    \* characters and breaks put out so far, dots added by each
vars == <<want, dev, run, line>>

Types == {"fromdrawmode", "justifywordbreaks", "justifyletters"}

-----------------------------------------------------------------------------
(* JUSTBREAKREC                                                            *)

NoBreaks == [extra |-> 0, rem |-> 0, err |-> 1, count |-> 0, ccount |-> 0]

\* A wrong version: the remainder keeps the sign that the division of C gives it
CalcBreaksSigned(extra, count) ==
    IF count = 0 THEN NoBreaks
    ELSE [extra |-> IF extra < 0 THEN -((-extra) \div count) ELSE extra \div count,
          rem |-> IF extra < 0 THEN -((-extra) % count) ELSE extra % count,
          err |-> count \div 2 + 1, count |-> count, ccount |-> 0]

\* A wrong version: the error starts at its end, so the first breaks get every dot
CalcBreaksFront(extra, count) ==
    IF count = 0 THEN NoBreaks
    ELSE [extra |-> extra \div count, rem |-> extra % count,
          err |-> 1, count |-> count, ccount |-> 0]

\* CalcBreaks: with the correction of a negative remainder the quotient is
\* rounded down
CalcBreaks(extra, count) ==
    IF count = 0 THEN NoBreaks
    ELSE [extra |-> extra \div count, rem |-> extra % count,
          err |-> count \div 2 + 1, count |-> count, ccount |-> 0]

\* GetJustBreak: the dots to add at a letter or a break, and the record after it
Carries(r) == r.err - r.rem <= 0

Spent(r, type) == type # "fromdrawmode" /\ r.count # 0 /\ r.ccount + 1 > r.count

JustBreak(r, type) ==
    IF Spent(r, type) THEN 0 ELSE IF Carries(r) THEN r.extra + 1 ELSE r.extra

AfterBreak(r, type) ==
    [r EXCEPT !.err = IF Carries(r) THEN r.err - r.rem + r.count ELSE r.err - r.rem,
              !.ccount = IF type # "fromdrawmode" /\ r.count # 0 THEN @ + 1 ELSE @]

\* str_out: the dots after a letter, and the record after it
LetterBreak(r, type) ==
    IF type = "justifyletters" THEN JustBreak(r, type)
    ELSE IF Spent(r, type) THEN 0 ELSE r.extra

AfterLetter(r, type) ==
    IF type = "justifyletters" THEN AfterBreak(r, type)
    ELSE IF type # "fromdrawmode" /\ r.count # 0 THEN [r EXCEPT !.ccount = @ + 1] ELSE r

-----------------------------------------------------------------------------
Closed == [open |-> FALSE, wb |-> NoBreaks, ltr |-> NoBreaks]
NewLine == [chars |-> 0, breaks |-> 0, byLetters |-> 0, byBreaks |-> 0]

\* SETALLJUSTVALUES
AllJust(ce, cc, be, bc) ==
    LET wb == CalcBreaks(be, bc) ltr == CalcBreaks(ce, cc)
        none == wb.extra = 0 /\ wb.rem = 0 /\ ltr.extra = 0 /\ ltr.rem = 0
    IN  [just |-> IF none THEN "fromdrawmode"
                  ELSE IF ltr.rem # 0 THEN "justifyletters" ELSE "justifywordbreaks",
         wb |-> wb, ltr |-> ltr]

\* SetJustification: what a run starts with.  After SETALLJUSTVALUES the values
\* of Windows are zero.
Copies(d) ==
    IF d.just = "fromdrawmode" THEN [open |-> TRUE, wb |-> NoBreaks, ltr |-> NoBreaks]
    ELSE [open |-> TRUE, wb |-> d.wb, ltr |-> d.ltr]

Init ==
    \E ce, be \in Extras, cc, bc \in Counts :
        /\ want = [ce |-> ce, cc |-> cc, be |-> be, bc |-> bc]
        /\ dev = AllJust(ce, cc, be, bc)
        /\ run = Closed
        /\ line = NewLine

StartRun ==
    /\ ~run.open
    /\ run' = Copies(dev)
    /\ UNCHANGED <<want, dev, line>>

\* A letter, or a word break, which is a letter too
Letter(isBreak) ==
    /\ run.open /\ line.chars < MaxChars
    /\ run' = [run EXCEPT !.ltr = AfterLetter(@, dev.just),
                          !.wb = IF isBreak THEN AfterBreak(@, dev.just) ELSE @]
    /\ line' = [chars |-> line.chars + 1,
                breaks |-> IF isBreak THEN line.breaks + 1 ELSE line.breaks,
                byLetters |-> line.byLetters + LetterBreak(run.ltr, dev.just),
                byBreaks |-> IF isBreak THEN line.byBreaks + JustBreak(run.wb, dev.just)
                             ELSE line.byBreaks]
    /\ UNCHANGED <<want, dev>>

\* A wrong version: the count of the letters is not written back
EndRunKeepsCount ==
    /\ run.open
    /\ run' = Closed
    /\ dev' = IF dev.just = "fromdrawmode" THEN dev
              ELSE [dev EXCEPT !.wb.err = run.wb.err, !.ltr.err = run.ltr.err]
    /\ UNCHANGED <<want, line>>

\* The extent of the run: the device remembers how far the line is
EndRun ==
    /\ run.open
    /\ run' = Closed
    /\ dev' = IF dev.just = "fromdrawmode" THEN dev
              ELSE [dev EXCEPT !.wb.err = run.wb.err, !.wb.ccount = run.wb.ccount,
                               !.ltr.err = run.ltr.err, !.ltr.ccount = run.ltr.ccount]
    /\ UNCHANGED <<want, line>>

\* Another SETALLJUSTVALUES for the next line
NextLine ==
    /\ ~run.open /\ line # NewLine
    /\ \E ce, be \in Extras, cc, bc \in Counts :
         /\ want' = [ce |-> ce, cc |-> cc, be |-> be, bc |-> bc]
         /\ dev' = AllJust(ce, cc, be, bc)
    /\ line' = NewLine
    /\ UNCHANGED run

Next == StartRun \/ (\E isBreak \in BOOLEAN : Letter(isBreak)) \/ EndRun \/ NextLine

Spec == Init /\ [][Next]_vars

-----------------------------------------------------------------------------
\* The error term stays between one and the count, so it never carries twice
\* and never reaches the 16 bits of its short (GetJustBreak).
ErrInRange(r) == r.err \in 1 .. (IF r.count = 0 THEN 1 ELSE r.count)

TypeOK ==
    /\ dev.just \in Types
    /\ \A r \in {dev.wb, dev.ltr, run.wb, run.ltr} : ErrInRange(r)
    /\ line.breaks \in 0 .. line.chars

\* When the line has had as many word breaks, or letters, as the application
\* said, exactly the dots it asked for have been added, positive or negative
\* and however the line was cut into runs; later ones add none.
AllSpread ==
    /\ want.bc > 0 /\ line.breaks >= want.bc => line.byBreaks = want.be
    /\ want.cc > 0 /\ line.chars >= want.cc => line.byLetters = want.ce

\* On the way there, the dots added are never more than half a dot away from the
\* even share, so that no part of a justified line looks uneven (CalcBreaks
\* starts the error in the middle).
Even(sum, extra, k, count) ==
    k <= count => 2 * (sum * count - k * extra) \in -count .. count

SpreadEvenly ==
    /\ Even(line.byBreaks, want.be, line.breaks, want.bc)
    /\ Even(line.byLetters, want.ce, line.chars, want.cc)
=============================================================================
