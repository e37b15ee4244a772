---------------------------- MODULE UploadSpans ----------------------------
(***************************************************************************)
(* The interval arithmetic of resumable uploads (lib/storage/src/          *)
(* local-stream.js): durable ranges are read from marker files, merged     *)
(* into the minimal ordered list, and the gaps in it are what the client   *)
(* still has to send.  A span is [offset, length]; a cell is one byte.     *)
(***************************************************************************)
EXTENDS Integers, FiniteSets, SequencesExt

End(s) == s.offset + s.length
CellsOf(s) == s.offset .. End(s) - 1

(* The cells some span covers. *)
Covered(spans) == UNION {CellsOf(s) : s \in spans}

(* One step of the merge: s joins the last span when it begins inside it or *)
(* right behind it, and opens a new one otherwise.                          *)
Joins(out, s) == Len(out) > 0 /\ s.offset <= End(Last(out))

(* Mutant: a span inside the last one cuts it short. *)
JoinedCutShort(last, s) == [last EXCEPT !.length = End(s) - last.offset]

Joined(last, s) ==
    [last EXCEPT !.length = Max({End(last), End(s)}) - last.offset]

MergeOne(out, s) ==
    IF s.length <= 0 THEN out
    ELSE IF Joins(out, s) THEN Append(Front(out), Joined(Last(out), s))
    ELSE Append(out, s)

(* The marker files are listed in any order and sorted by offset.           *)
Sorted(spans) ==
    {list \in [1 .. Cardinality(spans) -> spans] :
        /\ \A s \in spans : \E i \in DOMAIN list : list[i] = s
        /\ \A i, j \in DOMAIN list : i < j => list[i].offset <= list[j].offset}

MergeSpans(list) ==
    LET out[i \in 0 .. Len(list)] == IF i = 0 THEN <<>> ELSE MergeOne(out[i - 1], list[i])
    IN out[Len(list)]

(* What lies between the cursor and the next span is missing. *)
Gap(from, to) == [offset |-> from, length |-> to - from]

MissOne(seen, s) ==
    [gaps   |-> IF s.offset > seen.cursor THEN Append(seen.gaps, Gap(seen.cursor, s.offset))
                                          ELSE seen.gaps,
     cursor |-> Max({seen.cursor, End(s)})]

MissingSpans(merged, size) ==
    LET seen[i \in 0 .. Len(merged)] ==
            IF i = 0 THEN [gaps |-> <<>>, cursor |-> 0] ELSE MissOne(seen[i - 1], merged[i])
        all == seen[Len(merged)]
    IN IF all.cursor < size THEN Append(all.gaps, Gap(all.cursor, size)) ELSE all.gaps

----------------------------------------------------------------------------
(* The cells of a list, and a list whose spans are in order, none touching. *)
CoveredBy(list) == Covered({list[i] : i \in DOMAIN list})
Apart(list) == \A i \in 1 .. Len(list) - 1 : End(list[i]) < list[i + 1].offset

(* Merged spans are ordered, no two of them touch, and together they cover  *)
(* the same cells as before.                                                *)
MergesExactly(spans) ==
    \A list \in Sorted(spans) :
        LET merged == MergeSpans(list)
        IN CoveredBy(merged) = Covered(spans) /\ Apart(merged)

(* What is missing is exactly what is not covered, each cell named once.    *)
MissesExactly(spans, size) ==
    \A list \in Sorted(spans) :
        LET missing == MissingSpans(MergeSpans(list), size)
        IN CoveredBy(missing) = (0 .. size - 1) \ Covered(spans) /\ Apart(missing)
=============================================================================
