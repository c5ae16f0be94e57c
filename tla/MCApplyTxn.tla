----------------------------- MODULE MCApplyTxn -----------------------------
(* Instances of ApplyTxn for TLC.                                          *)
EXTENDS ApplyTxn, TLC

CONSTANTS d, e

A == [bytes |-> "a", exec |-> FALSE]
B == [bytes |-> "b", exec |-> TRUE]
C == [bytes |-> "c", exec |-> FALSE]
AX == [bytes |-> "a", exec |-> TRUE]

MCBytes == {"a", "b", "c"}

\* One file at the root, one two directories down.
MCFilePath == <<(<<>>), <<d, e>>>>
MCDirPath == (d :> <<d>>) @@ (e :> <<d, e>>)
MCDirs == {d, e}
NoDirs == {}
RequiredDir == <<e>>
\* The outer directory is required, the inner one is made with its file.
RequiredOuter == <<d>>
RequiredNone == <<>>

TwoNew == {<<B, B>>}
OldAndNew == {<<A, Absent>>, <<A, A>>}
AllTrees == {<<A, Absent>>, <<A, A>>, <<Absent, A>>}
MixedTrees == {<<A, Absent>>, <<Absent, A>>}
NonRegular == {<<A, Special>>}
ForeignStates == {C, AX, Absent, Special}
AllPoints == Points
\* Every point but those at which an interruption strands the transaction.
RecoverablePoints ==
  Points \ {"prepare", "persistPrepared", "stage", "rbRename", "cleanup"}
TwoCapsules == {<<B, B>>, <<C, A>>}

=============================================================================
