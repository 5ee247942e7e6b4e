----------------------------- MODULE MCPlayback -----------------------------
(* Instances of Playback for TLC.                                          *)
EXTENDS Playback, TLC

CONSTANTS m1, m2, jf, em, px, kd, ja, pa

\* ja and pa are servers of their own, with scrobble-only connections.
Kinds == [s \in Server |->
    CASE s \in {jf, ja} -> "jellyfin" [] s = em -> "emby"
      [] s \in {px, pa} -> "plex" [] OTHER -> "kodi"]

InOrder == Conn
Untracked == {<<pa, "side">>}
AllTracked == {}
\* The sync of watched marks is off for the Emby server.
Unsynced == {<<em, "full">>}
=============================================================================
