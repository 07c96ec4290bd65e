-------------------------- MODULE MCSnapshotCache --------------------------
(* Two backtests of one wide query and one of a narrower range a wide        *)
(* snapshot serves, or two daily synchronisations; an operator prunes        *)
(* meanwhile.  Two datasets, so that a directory may be there in part.       *)
EXTENDS SnapshotCache

CONSTANTS b1, b2, b3, y1, y2, wide, narrow, daily, bars, limitup

MCDatasets == <<bars, limitup>>
MCSymmetry == Permutations({b1, b2})
OneDataset == <<limitup>>
MCCovers == {<<wide, narrow>>}

\* The key of every builder of an instance, by its name.
MCKeyOf ==
    [b \in Builders |-> CASE b \in {y1, y2} -> daily [] b = b3 -> narrow [] OTHER -> wide]
===========================================================================
