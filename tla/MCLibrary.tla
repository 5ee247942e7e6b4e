----------------------------- MODULE MCLibrary -----------------------------
(* Instances of Library for TLC.                                           *)
EXTENDS Library, TLC

CONSTANTS m1, m2, m3, px, py, jf

Kinds == [c \in Conn |-> IF c = jf THEN "jellyfin" ELSE "plex"]
MediaSymmetry == Permutations(Media)
=============================================================================
