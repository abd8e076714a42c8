---------------------------- MODULE MCRtsBufLife ----------------------------
(* RtsBufLife with an int so narrow that the capacity reaches its limit.    *)
EXTENDS RtsBufLife
=============================================================================
