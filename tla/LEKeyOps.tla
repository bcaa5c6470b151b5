------------------------------ MODULE LEKeyOps ------------------------------
(***************************************************************************)
(* The operations on the vector of LE keys (`std::vector<LeKeyRecord>`)    *)
(* that InMemoryLeKeyStore and JsonlLeKeyStore share, src/asm/le_key.cpp.  *)
(* A record is [id, val]: `val` stands for the 16 key bytes, the expiry    *)
(* time and the attribute data, which no operation looks at.               *)
(***************************************************************************)
EXTENDS Selection

\* The ids held by a sequence of records.
Ids(s) == {s[i].id : i \in DOMAIN s}

\* contains_key: std::any_of over the vector.
ContainsKey(s, id) == id \in Ids(s)

\* list_key_ids: the ids in the order of the vector.
ListKeyIds(s) == [i \in DOMAIN s |-> s[i].id]

\* The positions from `first` on of a batch whose id the vector does not hold.
\* An id the batch repeats is counted each time: would_overflow compares an
\* incoming key with the stored keys only, never with the rest of the batch.
FreshPositions(batch, first, s) ==
    {i \in first .. Len(batch) : batch[i].id \notin Ids(s)}

\* Mutants of WouldOverflow: the comparison lets one key too many in, ...
OverflowLate(batch, s, capacity) ==
    Len(s) + Cardinality(FreshPositions(batch, 1, s)) > capacity + 1

\* ... and a key that is stored already counts again.
OverflowCountsAll(batch, s, capacity) == Len(s) + Len(batch) > capacity

\* would_overflow: unique_count > capacity.
WouldOverflow(batch, s, capacity) ==
    Len(s) + Cardinality(FreshPositions(batch, 1, s)) > capacity

\* std::find_if: the first position that holds the id.
FirstMatch(s, id) ==
    CHOOSE i \in DOMAIN s : /\ s[i].id = id
                            /\ \A j \in 1 .. i - 1 : s[j].id # id

\* Mutant of Upsert: the search for the stored record is missing.
AlwaysAppend(s, rec) == Append(s, rec)

\* One turn of the loop of load_keys: replace in place, or append.
Upsert(s, rec) ==
    IF ContainsKey(s, rec.id)
    THEN [s EXCEPT ![FirstMatch(s, rec.id)] = rec]
    ELSE Append(s, rec)

\* std::erase_if: the other records stay, in their order.
Erase(s, id) == Selected(s, {i \in DOMAIN s : s[i].id # id})

\* No two records of the sequence have the same id.
UniqueIds(s) == \A i, j \in DOMAIN s : s[i].id = s[j].id => i = j

\* What the vector means to its callers: every lookup finds the first match.
AsMap(s) == [id \in Ids(s) |-> s[FirstMatch(s, id)].val]

\* The position of the last record of a batch for an id: the one that counts.
LastMatch(batch, id) ==
    CHOOSE i \in DOMAIN batch :
        /\ batch[i].id = id
        /\ \A j \in DOMAIN batch : batch[j].id = id => j <= i

\* A map with a batch stored over it.
Merge(m, batch) ==
    [id \in DOMAIN m \cup Ids(batch) |->
        IF id \in Ids(batch) THEN batch[LastMatch(batch, id)].val ELSE m[id]]
=============================================================================
