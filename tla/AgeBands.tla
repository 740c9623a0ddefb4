------------------------------ MODULE AgeBands ------------------------------
(***************************************************************************)
(* The age bands of event.helpers.ts.  An event's groups state ages by a   *)
(* condition and a value; from them the server infers the band it labels   *)
(* the event with, in memory, and the condition by which the database      *)
(* finds the events of a band.  Both are written case by case.             *)
(***************************************************************************)
EXTENDS Integers, FiniteSets, SequencesExt

AgeCap == 120

\* BAND_BY_SLUG, in the order of CATEGORY_GROUP_SLUGS.
Bands == <<[lo |-> 6, hi |-> 10], [lo |-> 11, hi |-> 16], [lo |-> 17, hi |-> AgeCap]>>

Condition == {"UpTo", "DownTo", "Greater", "GreaterAndEqual", "Lower", "LowerAndEqual"}
AgeRow == [condition : Condition, value : Int]

Larger(a, b) == IF a >= b THEN a ELSE b
Smaller(a, b) == IF a <= b THEN a ELSE b

\* Mutated form: "lower than" includes the value.
YearRangeLoose(row) ==
  LET v == row.value
  IN  CASE row.condition \in {"GreaterAndEqual", "DownTo"} -> [lo |-> v, hi |-> AgeCap]
        [] row.condition = "Greater" -> [lo |-> v + 1, hi |-> AgeCap]
        [] OTHER -> [lo |-> 0, hi |-> v]

\* ageRowToYearRange; empty when lo > hi.
YearRange(row) ==
  LET v == row.value
  IN  CASE row.condition \in {"GreaterAndEqual", "DownTo"} -> [lo |-> v, hi |-> AgeCap]
        [] row.condition = "Greater" -> [lo |-> v + 1, hi |-> AgeCap]
        [] row.condition \in {"LowerAndEqual", "UpTo"} -> [lo |-> 0, hi |-> v]
        [] row.condition = "Lower" -> [lo |-> 0, hi |-> Larger(0, v - 1)]

OverlapSize(a, b) ==
  LET lo == Larger(a.lo, b.lo)
      hi == Smaller(a.hi, b.hi)
  IN  IF lo <= hi THEN hi - lo + 1 ELSE 0

\* sort((a, b) => a.lo - b.lo): ranges with the same start come in any order.
Sorted(ranges) ==
  CHOOSE s \in SetToSeqs(ranges) : \A i, j \in DOMAIN s : i < j => s[i].lo <= s[j].lo

\* A range that touches the last one widens it.
Widen(out, r) ==
  IF out # <<>> /\ r.lo <= out[Len(out)].hi + 1
  THEN [out EXCEPT ![Len(out)].hi = Larger(@, r.hi)]
  ELSE Append(out, r)

\* mergeYearRanges, after each of the sorted ranges s.
Merged(s) ==
  LET out[i \in 0..Len(s)] == IF i = 0 THEN <<>> ELSE Widen(out[i - 1], s[i])
  IN  out

MergeYearRanges(ranges) == Merged(Sorted(ranges))[Cardinality(ranges)]

\* The years of band in each of the first ranges of s.
Scores(s, band) ==
  LET score[i \in 0..Len(s)] == IF i = 0 THEN 0 ELSE score[i - 1] + OverlapSize(s[i], band)
  IN  score

Score(rows, band) ==
  LET merged == MergeYearRanges({YearRange(r) : r \in rows})
  IN  Scores(merged, band)[Len(merged)]

\* inferCategoryGroupSlugFromAgeRows: the first of the bands that overlap most,
\* or 0 for none.
InferBand(rows) ==
  LET score == [b \in DOMAIN Bands |-> Score(rows, Bands[b])]
      best[b \in 0..Len(Bands)] ==
        IF b = 0 THEN [band |-> 0, score |-> 0]
        ELSE IF score[b] > best[b - 1].score THEN [band |-> b, score |-> score[b]]
        ELSE best[b - 1]
  IN  best[Len(Bands)].band

\* buildAgeBandGroupWhere: the condition on a row of the table event_groups.
BandWhere(row, lo, hi) ==
  LET v == row.value
  IN  CASE row.condition \in {"GreaterAndEqual", "DownTo"} -> v <= hi
        [] row.condition = "Greater" -> v <= Larger(0, hi - 1)
        [] row.condition \in {"LowerAndEqual", "UpTo"} -> v >= lo
        [] row.condition = "Lower" -> v >= lo + 1

\* The years a row admits, and what InferBand should be by them.
Years(row) == YearRange(row).lo .. YearRange(row).hi
YearsInBand(rows, b) ==
  Cardinality((UNION {Years(r) : r \in rows}) \cap (Bands[b].lo .. Bands[b].hi))

=============================================================================
