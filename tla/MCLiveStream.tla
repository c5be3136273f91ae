---------------------------- MODULE MCLiveStream ----------------------------
(***************************************************************************)
(* Small instances of LiveStream: requests of up to two events, buffers of *)
(* one or two, clients that stall, fail and join late.                     *)
(***************************************************************************)
EXTENDS LiveStream, TLC

\* The requests are interchangeable, and so are the clients.
Symmetry == Permutations(Ingesters) \cup Permutations(Subscribers)
=============================================================================
