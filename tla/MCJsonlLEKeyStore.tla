-------------------------- MODULE MCJsonlLEKeyStore --------------------------
(* Constants for the runs of JsonlLEKeyStore. *)
EXTENDS JsonlLEKeyStore, TLC

CONSTANTS v1, v2

MCVals == {v1, v2}
Key(id, val) == [id |-> id, val |-> val]

\* Every batch of at most two records, and some of three: one that replaces
\* and appends, one that repeats an id, one that no buffer of two can take.
SmallBatches == UNION {[1 .. n -> [id : 0 .. 2, val : MCVals]] : n \in 0 .. 2}
LongBatches == {<<Key(0, v1), Key(1, v2), Key(0, v2)>>,
                <<Key(1, v1), Key(1, v2), Key(1, v1)>>,
                <<Key(0, v2), Key(1, v1), Key(2, v2)>>}
MCBatches == SmallBatches \cup LongBatches

\* Files a first start may find: none, an empty one, the ones a buffer has
\* written, and one whose id needs narrowing (IdSpace is 4).
SoundFiles == {NoFile, << >>, <<Key(1, v1)>>, <<Key(2, v1), Key(0, v2)>>,
               <<Key(5, v2)>>}

\* A file with more lines than the buffer has room for.
LargeFiles == {<<Key(0, v1), Key(1, v1), Key(2, v1)>>}

\* Erase is what std::erase_if does: the subsequence of the other ids.
ASSUME \A s \in LongBatches \cup {<< >>} : \A id \in 0 .. 3 :
    Erase(s, id) = SelectSeq(s, LAMBDA r : r.id # id)
=============================================================================
