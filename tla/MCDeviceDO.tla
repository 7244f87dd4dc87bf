----------------------------- MODULE MCDeviceDO -----------------------------
(* DeviceDO on small sets.  Sockets, requests, streams and transfers are    *)
(* interchangeable, so safety runs may use Symmetry.                        *)
EXTENDS DeviceDO, TLC

Symmetry == Permutations(Sockets) \cup Permutations(HttpReqs)
            \cup Permutations(SseReqs) \cup Permutations(Streams)
            \cup Permutations(Downloads)
=============================================================================
