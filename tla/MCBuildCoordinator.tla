------------------------- MODULE MCBuildCoordinator -------------------------
(***************************************************************************)
(* Instances of BuildCoordinator for TLC.  Requests are interchangeable.   *)
(***************************************************************************)
EXTENDS BuildCoordinator

Interchangeable == Permutations(Waits)

(* promote_all is promote() of one ticket after another.                   *)
PromotionsOf(lines, T) == {FoldLeft(promote, lines, order) : order \in SetToSeqs(T)}

ASSUME PromoteAllAssumption ==
    \A line \in SetToAllKPermutations(Attempts), marked \in SUBSET Attempts :
        LET lines == [EmptyLines(0) EXCEPT
                        !.promoted = SelectSeq(line, LAMBDA t : t \in marked),
                        !.waiting = SelectSeq(line, LAMBDA t : t \notin marked),
                        !.hurry = marked, !.inLine = ToSet(line)]
        IN  \A T \in SUBSET Attempts : promote_all(lines, T) = PromotionsOf(lines, T)

=============================================================================
