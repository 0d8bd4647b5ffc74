----------------------------- MODULE MCPageSwap -----------------------------
(***************************************************************************)
(* The instances of PageSwap that TLC checks.                              *)
(***************************************************************************)
EXTENDS PageSwap

(* Two pages that can be given back one by one, and one page of the same   *)
(* hash bucket as the first.                                               *)
TwoAndOne == {[start |-> 1, size |-> 2], [start |-> 1, size |-> 1],
              [start |-> 3, size |-> 1]}

(* A DOS swap file that can grow, a partition that is used by the BIOS,    *)
(* and the direct disk with its buffer.                                    *)
DosOnly    == {"dos"}
DosAndBios == {"dos", "bios"}
DirectOnly == {"direct"}

(* The transfers that may fail.                                            *)
NoErrors    == {}
ReadErrors  == {"read"}

=============================================================================
