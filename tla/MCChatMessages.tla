-------------------------- MODULE MCChatMessages --------------------------
EXTENDS ChatMessages, TLC

CONSTANTS ann, bob, a1, a2, b1, hello, hi, smile, vi, k1, k2

MCUsers == {ann, bob}
MCSockets == {a1, a2, b1}
MCUserOf == (a1 :> ann) @@ (a2 :> ann) @@ (b1 :> bob)
MCContents == {hello, hi, smile}
MCPlain == {smile}
MCLanguages == {vi}
MCSlots == {k1, k2}
Symmetry ==
  Permutations(MCSlots) \cup Permutations({a1, a2}) \cup Permutations({hello, hi})
===========================================================================
