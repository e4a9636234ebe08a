--------------------------- MODULE MCRecommender ---------------------------
(***************************************************************************)
(* A small instance of Recommender: two pods, buckets up to 1, 2, 4 and 8, *)
(* a usage beyond the last bucket, and weights rescaled after one half-life.*)
(***************************************************************************)
EXTENDS Recommender

Usages == {1, 3, 20}
============================================================================
