-------------------------- MODULE MCAppendOnlyFile --------------------------
(***************************************************************************)
(* Small instances of AppendOnlyFile for TLC.                              *)
(***************************************************************************)
EXTENDS AppendOnlyFile

AllModes == {"always", "everysec", "no"}
OneMode == {"everysec"}
OneDatabase == {0}
TwoDatabases == {0, 1}

SymmetricWrites == Permutations(Write)
=============================================================================
