-------------------------- MODULE MCIcebergBackend --------------------------
(* IcebergBackend for TLC: sessions are interchangeable.                    *)
EXTENDS IcebergBackend, TLC

Symmetry == Permutations(Versions)
=============================================================================
