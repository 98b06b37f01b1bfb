----------------------- MODULE MCTranslationStrategy -----------------------
(***************************************************************************)
(* Two direct providers and the cascade.                                   *)
(***************************************************************************)
EXTENDS TranslationStrategy

CONSTANTS s1, s2, c1, c2

MCStrategy == {s1, s2}
MCOneCaller == {c1}
MCTwoCallers == {c1, c2}

=============================================================================
