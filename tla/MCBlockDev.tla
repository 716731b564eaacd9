----------------------------- MODULE MCBlockDev -----------------------------
(***************************************************************************)
(* Instances of BlockDev for TLC: two threads, blocks of two bytes, a word *)
(* of sixteen values.                                                      *)
(***************************************************************************)
EXTENDS BlockDev

CONSTANTS a, b, x, y

MCThreads == {a, b}
MCValues == {x, y}
=============================================================================
