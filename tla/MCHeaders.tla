----------------------------- MODULE MCHeaders -----------------------------
(***************************************************************************)
(* Small instances of Headers.  The chains 1-2-3-4-5 and 1-2-6-7-8-9 part  *)
(* after the second header.                                                *)
(***************************************************************************)
EXTENDS Headers

MCHdr == 1..9
MCPrev == <<1, 1, 2, 3, 4, 2, 6, 7, 8>>
OldFork == <<1, 2, 3, 4, 5>>
NewFork == <<1, 2, 6, 7, 8, 9>>
MCChains == {OldFork, NewFork}
CountsTrue == {0}
=============================================================================
