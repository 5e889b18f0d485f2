--------------------------- MODULE MCCrypticStream ---------------------------
(* Model-checking instance of CrypticStream: a key, its successor, and one  *)
(* that was put in the place of the first under the same id.                *)
EXTENDS CrypticStream

MCConfigs ==
    {[key_id |-> "old", master |-> 1], [key_id |-> "new", master |-> 2],
     [key_id |-> "old", master |-> 3]}

MCSymmetry == Permutations(Sessions)
=============================================================================
