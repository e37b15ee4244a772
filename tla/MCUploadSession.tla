-------------------------- MODULE MCUploadSession --------------------------
(* Finite instances of UploadSession for TLC. *)
EXTENDS UploadSession

CONSTANTS s1, s2, f1, f2

OneSegment  == {s1}
TwoSegments == {s1, s2}
TwoFinals   == {f1, f2}
=============================================================================
