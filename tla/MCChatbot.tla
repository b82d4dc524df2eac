------------------------------ MODULE MCChatbot ------------------------------
(***************************************************************************)
(* Two prompt files, one of them for administrators only, and two similar  *)
(* questions beside one that is turned away.                               *)
(***************************************************************************)
EXTENDS Chatbot, TLC

CONSTANTS intro, tips, leave, dayoff, mash, polite, vi, en, c1, m1, m2

MCSections == {intro, tips}
MCTagged == [r \in Roles |-> IF r = "admin" THEN {intro, tips} ELSE {intro}]
MCQuestions == {leave, dayoff, mash}
MCSpam == {mash}
MCSimilar == {leave, dayoff} \X {leave, dayoff}
MCCalls == {c1}
MCReloads == {m1, m2}
Symmetry ==
  Permutations(MCReloads) \cup Permutations({leave, dayoff})

-----------------------------------------------------------------------------
\* "You MUST respond in ... only" (prompt-builder.service.ts, line 192), the language of the
\* user: what the cache serves was written in the language asked for.
ServedInLanguage ==
  \A k \in Keys, language \in Languages : \A e \in Lookup(k) : cache[e].reply.language = language
=============================================================================
