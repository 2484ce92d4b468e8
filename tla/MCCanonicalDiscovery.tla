------------------------ MODULE MCCanonicalDiscovery ------------------------
(* Three jobs of one device, windows of two and of one candidate.            *)
EXTENDS CanonicalDiscovery
=============================================================================
