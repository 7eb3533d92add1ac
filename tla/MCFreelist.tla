----------------------------- MODULE MCFreelist -----------------------------
(***************************************************************************)
(* Freelist on a scaled-down geometry: classes of 1, 2 and 4 words (a      *)
(* remainder of 3 drops a word), LARGE from 5 words up, in buckets of 5-8, *)
(* 9-16 and longer.                                                        *)
(***************************************************************************)
EXTENDS Freelist

SmallClasses == <<1, 2, 4>>
=============================================================================
