---------------------------- MODULE MCTdataImport ----------------------------
(* Model-checking instance of TdataImport: three files, the key file second, *)
(* and two interchangeable contents.                                        *)
EXTENDS TdataImport, TLC

CONSTANTS configs, key_datas, maps, v1, v2

MCRank == (configs :> 1) @@ (key_datas :> 2) @@ (maps :> 3)
MCSymmetry == Permutations({v1, v2})
=============================================================================
