------------------------------ MODULE MCHpJust ------------------------------
EXTENDS HpJust

MCExtras == {-5, -4, -1, 0, 2, 5}
MCCounts == 0 .. 3
=============================================================================
