-------------------------- MODULE MCQuorumRelease --------------------------
(* Instances of QuorumRelease for TLC.                                     *)
EXTENDS QuorumRelease, TLC

\* A boundary in time that every clock crosses on its own.
MCNotBefores == {1}

\* No maximum, an invalid one, and one that two requests exceed.
MCMaximums == {None, 0, 1}
=============================================================================
