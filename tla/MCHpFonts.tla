----------------------------- MODULE MCHpFonts -----------------------------
EXTENDS HpFonts, TLC

CONSTANTS fA, fB, fC, fD, fP

\* Four temporary fonts, the last one without its file, and a permanent one
MCMem == (fA :> 3) @@ (fB :> 1) @@ (fC :> 2) @@ (fD :> 1) @@ (fP :> 1)

MCLowMem == -3
=============================================================================
