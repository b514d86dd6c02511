------------------------------- MODULE Memory -------------------------------
(***************************************************************************)
(* What the memory engine remembers of one employee: internal/memory and   *)
(* the table memories.  An extraction stores the insights of a report, a   *)
(* chase or a conversation as short-term rows that expire after 30 days;   *)
(* the consolidation merges similar ones into a long-term row, and the     *)
(* long-term ones into a profile.  A row that was merged refers to the row *)
(* that covers it, and only rows that were not are recalled.               *)
(*                                                                         *)
(* An SQL statement is one step.  The jobs memory-clean,                   *)
(* memory-consolidate and memory-profiles, the request that triggers one   *)
(* of them, extractions and deletions interleave freely.                   *)
(***************************************************************************)
EXTENDS Naturals, Sequences, FiniteSets

CONSTANTS
    Workers,   \* goroutines
    MaxRows,   \* bound: rows ever stored
    Similar,   \* pairs of rows, the older first, whose embeddings are near
    MaxFaults  \* bound: failed calls and crashes

VARIABLES
    row,       \* the table memories, by the order of creation
    nextRow,   \* rows stored so far, plus one
    work,      \* where each goroutine is and what it has read
    covers,    \* history: the insights each row was made of
    overlapped,\* history: two consolidations ran at a time
    faults     \* history: the number of faults

vars == <<row, nextRow, work, covers, overlapped, faults>>

Rows == 1 .. MaxRows
Tiers == {"short_term", "long_term", "profile"}
NoRow == [tier |-> "none", vec |-> FALSE, old |-> FALSE, into |-> 0]
Idle == [at |-> "idle", todo |-> {}, marks |-> {}, target |-> 0, left |-> 0, vec |-> FALSE]

Stored(i) == row[i].tier # "none"
Live(i) == Stored(i) /\ row[i].into = 0
At(p, l) == work[p].at = l

-----------------------------------------------------------------------------
(* The queries                                                             *)

\* CreateMemory of a row of a tier, with or without an embedding.
CreateMemory(tier, vec, of) ==
    /\ nextRow \in Rows /\ nextRow' = nextRow + 1
    /\ row' = [row EXCEPT ![nextRow] =
          [tier |-> tier, vec |-> vec, old |-> FALSE, into |-> 0]]
    /\ covers' = [covers EXCEPT ![nextRow] = IF of = {} THEN {nextRow} ELSE of]

\* UpdateMemoryMergedInto: of a row that is gone it updates none, and a target
\* that is gone is refused by the foreign key.
MergedInto(i, j) ==
    IF Stored(i) /\ Stored(j)
    THEN [row EXCEPT ![i] = [tier |-> row[i].tier, vec |-> row[i].vec, old |-> row[i].old, into |-> j]]
    ELSE row

ListShortTermByEmployee == {i \in Rows : Live(i) /\ row[i].tier = "short_term"}
ListLongTermByEmployee == {i \in Rows : Live(i) /\ row[i].tier = "long_term"}

\* GetProfileByEmployee: the latest, or none.
GetProfileByEmployee ==
    LET of == {i \in Rows : Live(i) /\ row[i].tier = "profile"}
    IN  {i \in of : \A j \in of : j <= i}

\* SearchSimilar: what a mentor's prompt may contain; expired rows are not excluded.
SearchSimilar == {i \in Rows : Live(i) /\ row[i].vec}

\* DeleteMemory, refused by the foreign key of a row that was merged into it.
DeleteMemory(i) ==
    /\ Stored(i) /\ \A j \in Rows : row[j].into # i
    /\ row' = [row EXCEPT ![i] = NoRow]

\* DeleteExpiredMemories.
Expired == {i \in Rows : Live(i) /\ row[i].old}
DeleteExpiredMemories == row' = [i \in Rows |-> IF i \in Expired THEN NoRow ELSE row[i]]

-----------------------------------------------------------------------------
Init ==
    /\ row = [i \in Rows |-> NoRow]
    /\ nextRow = 1
    /\ work = [p \in Workers |-> Idle]
    /\ covers = [i \in Rows |-> {}]
    /\ overlapped = FALSE
    /\ faults = 0

Fault == faults < MaxFaults /\ faults' = faults + 1
Written(ok) == IF ok THEN UNCHANGED faults ELSE Fault
Ends(p) == work' = [work EXCEPT ![p] = Idle]
Stores(p, n, with) ==
    work' = [work EXCEPT ![p] =
       [at |-> "store", todo |-> {}, marks |-> {}, target |-> 0, left |-> n, vec |-> with]]
Goes(p, l, todo, marks, target) ==
    work' = [work EXCEPT ![p] =
       [at |-> l, todo |-> todo, marks |-> marks, target |-> target, left |-> 0, vec |-> FALSE]]

\* The LLM returned so many insights, embedded or, if that failed, not.
Extract(p, n) ==
    /\ At(p, "idle")
    /\ \E vec \in BOOLEAN :
          /\ Written(vec)
          /\ Stores(p, n, vec)
    /\ UNCHANGED <<row, nextRow, covers, overlapped>>

\* They are stored one by one; an error is logged and the next one follows.
Store(p) ==
    /\ At(p, "store")
    /\ \/ CreateMemory("short_term", work[p].vec, {}) /\ UNCHANGED faults
       \/ Fault /\ UNCHANGED <<row, nextRow, covers>>
    /\ IF work[p].left = 1 THEN Ends(p) ELSE Stores(p, work[p].left - 1, work[p].vec)
    /\ UNCHANGED overlapped

\* Clean of the consolidator.
Clean(p) ==
    /\ At(p, "idle")
    /\ DeleteExpiredMemories
    /\ UNCHANGED <<nextRow, work, covers, overlapped, faults>>

-----------------------------------------------------------------------------
(* Merging short-term rows                                                 *)

\* clusterMemories: the oldest row that is in no cluster starts one, and takes
\* those near to it that are in none.
Clusters(s) ==
    LET seeds[i \in Nat] ==
            IF i = 0 THEN {}
            ELSE IF i \in s /\ ~\E k \in seeds[i - 1] : <<k, i>> \in Similar
                 THEN seeds[i - 1] \cup {i}
                 ELSE seeds[i - 1]
        all == seeds[MaxRows]
        SeedOf(i) == IF i \in all THEN i
                     ELSE CHOOSE k \in all :
                             <<k, i>> \in Similar
                             /\ \A l \in all : <<l, i>> \in Similar => k <= l
    IN  {{i \in s : SeedOf(i) = k} : k \in all}

Merging == {p \in Workers : work[p].at \in {"merge", "mark"}}

\* Merge reads the rows once and clusters those that have an embedding.
ReadShortTerm(p) ==
    LET read == {i \in ListShortTermByEmployee : row[i].vec}
    IN  /\ At(p, "idle")
        /\ Cardinality(read) >= 2
        /\ Goes(p, "merge", {c \in Clusters(read) : Cardinality(c) >= 2}, {}, 0)
        /\ overlapped' = (overlapped \/ Merging # {})
        /\ UNCHANGED <<row, nextRow, covers, faults>>

\* A mutation: every short-term row is marked, not those of the cluster.
MembersAll(p, c) == c \cup ListShortTermByEmployee

Members(p, c) == c

\* A cluster, in any order: the LLM's sentence is embedded, or not, and stored;
\* if the LLM or the statement fails the next cluster follows.
Summarise(p) ==
    /\ At(p, "merge")
    /\ \E c \in work[p].todo :
          \/ \E vec \in BOOLEAN :
                /\ CreateMemory("long_term", vec, UNION {covers[i] : i \in c})
                /\ Written(vec)
                /\ Goes(p, "mark", work[p].todo \ {c}, Members(p, c), nextRow)
          \/ /\ Goes(p, "merge", work[p].todo \ {c}, {}, 0)
             /\ UNCHANGED <<row, nextRow, covers, faults>>
    /\ UNCHANGED overlapped

\* MarkMerged of one row, in the order they were read; an error is logged.
Mark(p) ==
    /\ At(p, "mark")
    /\ \E i \in work[p].marks :
          LET rest == work[p].marks \ {i}
          IN  /\ \A l \in rest : i < l
              /\ \/ row' = MergedInto(i, work[p].target) /\ UNCHANGED faults
                 \/ Fault /\ UNCHANGED row
              /\ Goes(p, IF rest = {} THEN "merge" ELSE "mark", work[p].todo, rest, work[p].target)
    /\ UNCHANGED <<nextRow, covers, overlapped>>

Merged(p) ==
    /\ At(p, "merge") /\ work[p].todo = {}
    /\ Ends(p)
    /\ UNCHANGED <<row, nextRow, covers, overlapped, faults>>

-----------------------------------------------------------------------------
(* Profiles                                                                *)

\* Build reads the long-term rows and begins its work with the LLM ...
ReadLongTerm(p) ==
    /\ At(p, "idle") /\ ListLongTermByEmployee # {}
    /\ Goes(p, "build", {}, ListLongTermByEmployee, 0)
    /\ UNCHANGED <<row, nextRow, covers, overlapped, faults>>

\* ... which ends with a new profile, or with an error.
Build(p) ==
    /\ At(p, "build")
    /\ \/ \E vec \in BOOLEAN :
             /\ CreateMemory("profile", vec, UNION {covers[i] : i \in work[p].marks})
             /\ Written(vec)
             /\ Goes(p, "refresh", {}, {}, nextRow)
       \/ Ends(p) /\ UNCHANGED <<row, nextRow, covers, faults>>
    /\ UNCHANGED overlapped

\* Refresh looks for the profile there was, and gets the latest.
Refresh(p) ==
    /\ At(p, "refresh")
    /\ \E ok \in BOOLEAN :
          /\ Written(ok)
          /\ LET other == GetProfileByEmployee \ {work[p].target}
             IN  IF ok /\ other # {} THEN Goes(p, "replace", {}, other, work[p].target) ELSE Ends(p)
    /\ UNCHANGED <<row, nextRow, covers, overlapped>>

\* MarkMerged of another's profile; an error is ignored.
Replace(p) ==
    /\ At(p, "replace")
    /\ \/ \E i \in work[p].marks : row' = MergedInto(i, work[p].target)
       \/ UNCHANGED row
    /\ Ends(p)
    /\ UNCHANGED <<nextRow, covers, overlapped, faults>>

-----------------------------------------------------------------------------
(* The boss, time and the process                                          *)

\* handleDeleteMemory; the other requests change nothing but access counts.
Delete(i) ==
    /\ DeleteMemory(i)
    /\ UNCHANGED <<nextRow, work, covers, overlapped, faults>>

\* The next short-term row reaches its thirty days.
Age(i) ==
    /\ Stored(i) /\ row[i].tier = "short_term" /\ ~row[i].old
    /\ \A j \in Rows : j < i /\ row[j].tier = "short_term" => row[j].old
    /\ row' = [row EXCEPT ![i] = [tier |-> row[i].tier, vec |-> row[i].vec, old |-> TRUE, into |-> row[i].into]]
    /\ UNCHANGED <<nextRow, work, covers, overlapped, faults>>

Crash ==
    /\ Fault
    /\ work' = [p \in Workers |-> Idle]
    /\ UNCHANGED <<row, nextRow, covers, overlapped>>

Next ==
    \/ \E p \in Workers :
          \/ \E n \in 1 .. MaxRows : Extract(p, n)
          \/ Store(p) \/ Clean(p)
          \/ ReadShortTerm(p) \/ Summarise(p) \/ Mark(p) \/ Merged(p)
          \/ ReadLongTerm(p) \/ Build(p) \/ Refresh(p) \/ Replace(p)
    \/ \E i \in Rows : Delete(i) \/ Age(i)
    \/ Crash

Spec == Init /\ [][Next]_vars

-----------------------------------------------------------------------------
(* Properties                                                              *)

\* Every variable holds a value of its type, and references are not dangling.
TypeOK ==
    /\ \A i \in Rows :
          /\ row[i].tier \in Tiers \cup {"none"} /\ row[i].vec \in BOOLEAN
          /\ row[i].old \in BOOLEAN /\ row[i].into \in 0 .. MaxRows
          /\ Stored(i) => i < nextRow
    /\ nextRow \in 1 .. MaxRows + 1
    /\ covers \in [Rows -> SUBSET Rows]
    /\ \A p \in Workers : work[p].todo \subseteq SUBSET Rows /\ work[p].marks \subseteq Rows

\* The insight of a row that was embedded can be recalled, by its own row or
\* by one that covers it, until it expires or the boss deletes it: a row is
\* marked only after the one that covers it exists, whatever overlaps, fails or
\* ends (consolidator.go:113).  Only a covering row whose embedding failed hides it.
StillRecalled ==
    \A i \in Rows :
       /\ Stored(i) /\ row[i].vec /\ row[i].into # 0
       /\ row[i].tier = "short_term"
       => /\ i \in covers[row[i].into]
          /\ row[i].into \in SearchSimilar \/ ~row[row[i].into].vec

\* An insight is summarised twice only by consolidations that overlap, or after
\* a statement failed or the process ended between them (consolidator.go:51).
SummarisedOnce ==
    (\E i, j, k \in Rows :
       /\ j # k /\ Live(j) /\ Live(k)
       /\ row[j].tier = "long_term" /\ row[k].tier = "long_term"
       /\ i \in covers[j] \cap covers[k])
    => overlapped \/ faults > 0

-----------------------------------------------------------------------------
(* What the documents say, which the code does not keep                    *)

\* "Store memory with embedding = NULL; background job backfills".
NeverHidden ==
    \A i \in Rows :
       Stored(i) /\ row[i].vec /\ row[i].into # 0 => row[i].into \in SearchSimilar

\* "expires_at IS NULL OR expires_at > NOW()" in the search.
NeverExpiredRecalled == \A i \in SearchSimilar : ~row[i].old

\* "1, always included if exists": one live profile once a refresh is done.
NeverTwoProfiles ==
    (\A p \in Workers : At(p, "idle")) /\ faults = 0
    => Cardinality({i \in Rows : Live(i) /\ row[i].tier = "profile"}) <= 1

\* "using single-linkage clustering": near rows end up in one cluster.
NeverSplit ==
    \A p \in Workers : At(p, "merge") /\ work[p].todo # {} =>
       \A c \in work[p].todo : ~\E i \in c, j \in Rows \ UNION work[p].todo :
          <<i, j>> \in Similar /\ Live(j) /\ row[j].vec /\ j < nextRow

\* "Delete a memory manually".
NeverRefused ==
    \A i \in Rows : Live(i) => \A j \in Rows : row[j].into # i
=============================================================================
