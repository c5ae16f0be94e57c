---------------------------- MODULE MCFileLedger ----------------------------
(* Instances of FileLedger for TLC.                                        *)
EXTENDS FileLedger, TLC

CONSTANTS r1, r2, r3, r4, limited, open

\* Two requests compete for one release, two are in a scope without limit.
MCRequests == {r1, r2, r3, r4}
MCScopes == {limited, open}
MCScopeOf == (r1 :> limited) @@ (r2 :> limited) @@ (r3 :> open) @@ (r4 :> open)
MCLimit == (limited :> 1) @@ (open :> NoLimit)

\* Points between a complete write and its sync.
UnsyncedPoints == {"syncHeader", "syncParent", "sync"}

\* Either processes stop anywhere and the machine stays up, or the power may
\* fail and no process stops between a complete write and its sync.
KillsOrPowerLoss ==
  {[points |-> Points, losses |-> 0],
   [points |-> Points \ UnsyncedPoints, losses |-> 1]}

\* A process is killed before the sync, then the power fails.
KillThenPowerLoss == {[points |-> {"sync"}, losses |-> 1]}
=============================================================================
