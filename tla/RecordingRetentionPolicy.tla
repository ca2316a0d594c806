----------------------- MODULE RecordingRetentionPolicy ------------------------
(***************************************************************************)
(* RecordingRetentionPolicy.identifiersToDelete as the code computes it,   *)
(* with its sorts, filters and de-duplications over lists that may hold    *)
(* the same identifier several times and in several phases, and what       *)
(* RetentionRule says about the same list.                                 *)
(***************************************************************************)
EXTENDS RetentionRule, SequencesExt

CONSTANTS
    Now,            \* the instants at which
    Lists           \* and the lists to which the policy is applied

(* Of the identifiers, which are strings, only their order is looked at. *)
RetentionEntry == [identifier : Int, phase : STRING, createdAt : Int]

ASSUME ListsAssumption == Now \subseteq Int /\ Lists \subseteq Seq(RetentionEntry)

Precedes(lhs, rhs) ==
    \/ lhs.createdAt < rhs.createdAt
    \/ lhs.createdAt = rhs.createdAt /\ lhs.identifier < rhs.identifier

AgeOf(entry, now) == now - entry.createdAt

(* Slip: the age itself is still retained. *)
IsExpiredAfter(entry, now) == AgeOf(entry, now) > RetentionAge

IsExpired(entry, now) == AgeOf(entry, now) >= RetentionAge

(* The positions P in their order: before[k] are those that come before k. *)
InOrder(P, before) == [n \in 1..Cardinality(P) |-> CHOOSE k \in P : Cardinality(before[k]) = n - 1]

(* sorted(by: precedes), which is stable.  (SortSeq is defined only if     *)
(* elements that tie are equal; these may differ in their phase.)          *)
Sorted(entries) ==
    LET Before(l, k) == \/ Precedes(entries[l], entries[k])
                        \/ ~Precedes(entries[k], entries[l]) /\ l < k
        P == DOMAIN entries
        order == InOrder(P, [k \in P |-> {l \in P : Before(l, k)}])
    IN  [n \in DOMAIN order |-> entries[order[n]]]

(* filter, whose predicate holds at the positions P.  (SelectSeq recurses, *)
(* so that nothing could be proved of it.)                                 *)
Filter(seq, P) ==
    LET order == InOrder(P, [k \in P |-> {l \in P : l < k}])
    IN  [n \in DOMAIN order |-> seq[order[n]]]

(* filter { seen.insert($0).inserted }: the first of equal identifiers stays *)
FirstOfEach(seq) ==
    Filter(seq, {k \in DOMAIN seq : \A l \in 1..(k - 1) : seq[l].identifier # seq[k].identifier})

Identifiers(seq) == [k \in DOMAIN seq |-> seq[k].identifier]

IdentifiersToDelete(now, entries) ==
    LET ordered == Sorted(entries)
        partialOrFailed == Filter(ordered, {k \in DOMAIN ordered : ordered[k].phase # "ready"})
        ready == Filter(ordered, {k \in DOMAIN ordered : ordered[k].phase = "ready"})
        expired == Filter(ready, {k \in DOMAIN ready : IsExpired(ready[k], now)})
        mandatory == ToSet(Identifiers(partialOrFailed \o expired))
        retainedCandidates ==
            FirstOfEach(Filter(ready, {k \in DOMAIN ready : ready[k].identifier \notin mandatory}))
        overLimitCount ==
            IF Len(retainedCandidates) > MaxReady
            THEN Len(retainedCandidates) - MaxReady ELSE 0
        overLimit == SubSeq(retainedCandidates, 1, overLimitCount)
    IN  Identifiers(FirstOfEach(partialOrFailed \o expired \o overLimit))

--------------------------------------------------------------------------------
(* The creation instants the rule looks at: of an identifier that is ready *)
(* and nothing else, that of its oldest entry.                             *)
Unfinished(entries) ==
    {entries[k].identifier : k \in {n \in DOMAIN entries : entries[n].phase # "ready"}}

CreatedAt(entries) ==
    [i \in ToSet(Identifiers(entries)) \ Unfinished(entries) |->
        Min({entries[k].createdAt : k \in {n \in DOMAIN entries : entries[n].identifier = i}})]

(* The lists of the code delete exactly what the rule says: everything     *)
(* partial or failed, and of the ready recordings the expired ones and the *)
(* oldest beyond the limit, each once, though an identifier may occur in   *)
(* several entries and the lists overlap.                                  *)
PolicyFollowsRule(now, entries) ==
    LET deleted == IdentifiersToDelete(now, entries)
    IN  /\ ToSet(deleted) = Unfinished(entries) \cup ToDelete(now, CreatedAt(entries))
        /\ Cardinality(ToSet(deleted)) = Len(deleted)

================================================================================
