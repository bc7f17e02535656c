------------------------------ MODULE Detection ------------------------------
(***************************************************************************)
(* From the boxes of the network to the status of a frame (ml_service.py): *)
(* clipping, suppression of overlapping boxes, the share of the frame's    *)
(* width that is covered, the status. Operators without state.             *)
(*                                                                         *)
(* Coordinates are in half pixels, so that int() has something to cut off; *)
(* the frame is "w" pixels wide and "h" high. A sequence of boxes is in    *)
(* the order of falling scores, all of them over CONF_THRESHOLD; of equal  *)
(* scores the order is whatever argsort makes it. The letterbox scaling is *)
(* left out.                                                               *)
(***************************************************************************)
EXTENDS Integers, Sequences, FiniteSets, SequencesExt, Lists

Box == [x1 : Int, x2 : Int, y1 : Int, y2 : Int]

Clip(x, limit) == IF x < 0 THEN 0 ELSE IF x > limit THEN limit ELSE x

\* _postprocess
Clipped(b, w, h) ==
  [x1 |-> Clip(b.x1, 2 * w), x2 |-> Clip(b.x2, 2 * w),
   y1 |-> Clip(b.y1, 2 * h), y2 |-> Clip(b.y2, 2 * h)]

-----------------------------------------------------------------------------
(***************************************************************************)
(* _nms                                                                    *)
(***************************************************************************)
Shared(a1, a2, b1, b2) ==
  LET low == IF a1 > b1 THEN a1 ELSE b1
      high == IF a2 < b2 THEN a2 ELSE b2
  IN IF high > low THEN high - low ELSE 0

Intersection(a, b) ==
  Shared(a.x1, a.x2, b.x1, b.x2) * Shared(a.y1, a.y2, b.y1, b.y2)

Area(b) == (b.x2 - b.x1) * (b.y2 - b.y1)

\* The intersection is more than IOU_THRESHOLD, a half, of the union.
Overlap(a, b) == 3 * Intersection(a, b) > Area(a) + Area(b)

\* The best box left is kept, and those that overlap it are dropped.
Suppressed(kept, b) ==
  IF \E i \in DOMAIN kept : Overlap(kept[i], b) THEN kept ELSE Append(kept, b)

KeptOf(boxes) ==
  LET kept[n \in 0 .. Len(boxes)] ==
        IF n = 0 THEN <<>> ELSE Suppressed(kept[n - 1], boxes[n])
  IN kept

Kept(boxes) == KeptOf(boxes)[Len(boxes)]

-----------------------------------------------------------------------------
(***************************************************************************)
(* _compute_coverage_pct and _status_from_pct                              *)
(***************************************************************************)

\* The pixel a coordinate lies in. Clipped coordinates are not negative.
Pixel(x) == x \div 2

Earlier(s, t) == s[1] < t[1] \/ (s[1] = t[1] /\ s[2] < t[2])

\* The spans of whole pixels, in order; equal ones count once.
Spans(boxes) ==
  LET wide == {i \in DOMAIN boxes : /\ Pixel(boxes[i].x2) > Pixel(boxes[i].x1)
                                    /\ boxes[i].y2 > boxes[i].y1}
  IN Sorted({<<Pixel(boxes[i].x1), Pixel(boxes[i].x2)>> : i \in wide}, Earlier)

\* A span that reaches into the last one takes its end.
MergedToLast(merged, span) ==
  IF merged = <<>> \/ span[1] > Last(merged)[2]
    THEN Append(merged, span)
    ELSE Append(Front(merged), <<Last(merged)[1], span[2]>>)

\* A span that reaches into the last one extends it, if it goes further.
Merged(merged, span) ==
  IF merged = <<>> \/ span[1] > Last(merged)[2]
    THEN Append(merged, span)
    ELSE Append(Front(merged),
                <<Last(merged)[1], IF span[2] > Last(merged)[2] THEN span[2] ELSE Last(merged)[2]>>)

MergedOf(spans) ==
  LET merged[n \in 0 .. Len(spans)] == IF n = 0 THEN <<>> ELSE Merged(merged[n - 1], spans[n])
  IN merged

Widths(spans) == [i \in DOMAIN spans |-> spans[i][2] - spans[i][1]]

BlockedWidth(boxes) ==
  LET spans == Spans(boxes)
  IN Total(Widths(MergedOf(spans)[Len(spans)]))

\* round(100 * width / w, 2), in hundredths of a percent.
Percentage(width, w) == (2 * 10000 * width + w) \div (2 * w)

Coverage(boxes, w) == Percentage(BlockedWidth(boxes), w)

StatusFromPct(pct) ==
  IF pct < 2000 THEN "clear"
  ELSE IF pct < 6000 THEN "partial"
  ELSE "blocked"

\* The percentage and the status of a frame, from the boxes of the network.
Inference(boxes, w, h) ==
  LET kept == Kept([i \in DOMAIN boxes |-> Clipped(boxes[i], w, h)])
      pct == Coverage(kept, w)
  IN [kept |-> kept, pct |-> pct, status |-> StatusFromPct(pct)]

-----------------------------------------------------------------------------
(***************************************************************************)
(* What it promises: "Union of detection-box widths over the full frame    *)
(* width, as a percentage".                                                *)
(***************************************************************************)

\* The columns of pixels that some box covers.
Columns(boxes, w) ==
  {c \in 0 .. w - 1 : \E i \in DOMAIN boxes :
     boxes[i].y1 < boxes[i].y2 /\ Pixel(boxes[i].x1) <= c /\ c < Pixel(boxes[i].x2)}

\* The kept boxes cover what the percentage says, no two of them overlap too
\* much, and each box that was dropped overlaps a better one that was kept.
IsUnion(boxes, w, h) ==
  LET found == Inference(boxes, w, h)
      clipped == [i \in DOMAIN boxes |-> Clipped(boxes[i], w, h)]
  IN /\ found.pct = Percentage(Cardinality(Columns(found.kept, w)), w)
     /\ \A i, j \in DOMAIN found.kept :
          i # j => ~Overlap(found.kept[i], found.kept[j])
     /\ \A i \in DOMAIN clipped :
          \/ \E k \in DOMAIN found.kept : found.kept[k] = clipped[i]
          \/ \E j \in DOMAIN clipped :
               /\ j < i /\ Overlap(clipped[j], clipped[i])
               /\ \E k \in DOMAIN found.kept : found.kept[k] = clipped[j]
=============================================================================
