--------------------------------- MODULE Lists ---------------------------------
(***************************************************************************)
(* The list idioms of the decision engine: comprehensions with a filter,   *)
(* removal of duplicates, slices, sorting.  The loops are recursive        *)
(* functions over the places of the list, for which Lists_proofs has an    *)
(* induction rule.                                                         *)
(***************************************************************************)
EXTENDS Integers, SequencesExt

\* [x for x in s if x in S]
Only(s, S) ==
    LET kept[n \in 0 .. Len(s)] ==
          IF n = 0 THEN <<>>
          ELSE IF s[n] \in S THEN Append(kept[n - 1], s[n]) ELSE kept[n - 1]
    IN  kept[Len(s)]

\* the first occurrence of each element: "if x not in out: out.append(x)"
Distinct(s) ==
    LET out[n \in 0 .. Len(s)] ==
          IF n = 0 THEN <<>>
          ELSE IF s[n] \in ToSet(out[n - 1]) THEN out[n - 1]
          ELSE Append(out[n - 1], s[n])
    IN  out[Len(s)]

\* s[:n]
Prefix(s, n) == SubSeq(s, 1, IF Len(s) < n THEN Len(s) ELSE n)

\* tuple s comes before t in a descending sort
Outranks(s, t) ==
    \E k \in DOMAIN s :
       /\ s[k] > t[k]
       /\ \A j \in 1 .. k - 1 : s[j] = t[j]

\* s.sort(key=..., reverse=True), which is stable: each element is put before
\* those whose keys are lower
Ranked(s, keys) ==
    LET order[n \in 0 .. Len(s)] ==
          IF n = 0 THEN <<>>
          ELSE LET before == order[n - 1]
                   lower  == {i \in DOMAIN before :
                                Outranks(keys[n], keys[before[i]])}
               IN  IF lower = {} THEN Append(before, n)
                   ELSE InsertAt(before, Min(lower), n)
    IN  [i \in DOMAIN s |-> s[order[Len(s)][i]]]
=============================================================================
