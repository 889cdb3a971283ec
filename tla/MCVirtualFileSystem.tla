------------------------ MODULE MCVirtualFileSystem ------------------------
(* What the sizes and times of a file's versions tell of them.              *)
EXTENDS VirtualFileSystem

AllSame == [v \in 0..MaxVersion |-> 0]

AllDifferent == [v \in 0..MaxVersion |-> v]
=============================================================================
