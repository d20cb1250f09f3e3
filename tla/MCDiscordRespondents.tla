------------------------ MODULE MCDiscordRespondents ------------------------
(***************************************************************************)
(* A finite instance of DiscordRespondents for TLC: one person with two    *)
(* codes for a meeting, on two browsers.                                   *)
(***************************************************************************)
EXTENDS DiscordRespondents, TLC

CONSTANTS m1, u1, c1, c2, b1, b2, home

MCCodeFor == [c \in Codes |->
  [meeting |-> m1, person |-> u1, guild |-> home]]

\* Which of the two codes, and which browser, makes no difference.
MCSymmetry == Permutations({c1, c2}) \cup Permutations(Browsers)
=============================================================================
