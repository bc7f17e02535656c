-------------------------------- MODULE Reports --------------------------------
(***************************************************************************)
(* What the read-only endpoints show: the notification log with its         *)
(* analytics and export (notification_log.py), the alerts of a responder    *)
(* (notification_delivery.py, responder_app_service.py), the tables of      *)
(* readings and their trend. Operators without state.                       *)
(*                                                                         *)
(* Deliveries come in the order of created_at, which is that of sent_at     *)
(* where there is one:                                                      *)
(*   deliveries  [to, type, status, response]                               *)
(* with the response in seconds from sent_at, or NoResponse. A row of a     *)
(* query is the place of a delivery: a WHERE is a set of places, a COUNT    *)
(* its size, an ORDER BY a list of it.                                      *)
(***************************************************************************)
EXTENDS Integers, Sequences, SequencesExt, FiniteSetsExt, Lists

NoResponse == -1
NoAverage == [missing |-> TRUE]

\* The page of a response that fails to validate.
PageError == [error |-> TRUE]

To(deliveries, r) == {i \in DOMAIN deliveries : deliveries[i].to = r}
OfType(deliveries, rows, ty) == {i \in rows : ty \in {"any", deliveries[i].type}}
OfStatus(deliveries, rows, status) == {i \in rows : deliveries[i].status = status}
Acknowledged(deliveries, rows) == {i \in rows : deliveries[i].response # NoResponse}

NewestFirst(rows) == Sorted(rows, LAMBDA i, j : i > j)
OldestFirst(rows) == Sorted(rows, LAMBDA i, j : i < j)

-----------------------------------------------------------------------------
(***************************************************************************)
(* Pages.                                                                  *)
(***************************************************************************)

\* What an OFFSET and a LIMIT leave.
Rows(all, offset, limit) ==
  SubSeq(all, offset + 1, IF offset + limit < Len(all) THEN offset + limit ELSE Len(all))

\* A page that fetches no row more than it shows.
PeekedShort(all, page, size) ==
  LET rows == Rows(all, (page - 1) * size, size)
  IN [items |-> rows, has_more |-> Len(rows) > size]

\* "Fetch one extra to determine has_more"
Peeked(all, page, size) ==
  LET rows == Rows(all, (page - 1) * size, size + 1)
  IN [items |-> Rows(rows, 0, size), has_more |-> Len(rows) > size]

TotalPages(total, size) == (total + size - 1) \div size

\* A page beside the count of all rows.
Counted(all, page, size) ==
  [items |-> Rows(all, (page - 1) * size, size), total |-> Len(all),
   has_more |-> page < TotalPages(Len(all), size)]

-----------------------------------------------------------------------------
(***************************************************************************)
(* The notification log.                                                   *)
(***************************************************************************)

\* The row of a responder; last_notified_at 0 is NULL.
SummaryOf(deliveries, r) ==
  LET mine == To(deliveries, r) IN
    [responder |-> r,
     last_notified_at |-> Max({0} \cup mine),
     total |-> Cardinality(mine),
     sent |-> Cardinality(OfStatus(deliveries, mine, "sent")),
     failed |-> Cardinality(OfStatus(deliveries, mine, "failed")),
     pending |-> Cardinality(OfStatus(deliveries, mine, "pending")),
     acknowledged |-> Cardinality(Acknowledged(deliveries, mine))]

\* Last notified first, those who never were at the end, then by name.
RespondersInOrder(deliveries, responders) ==
  Sorted({SummaryOf(deliveries, r) : r \in responders},
         LAMBDA a, b : \/ a.last_notified_at > b.last_notified_at
                       \/ /\ a.last_notified_at = b.last_notified_at
                          /\ a.responder < b.responder)

RespondersPage(deliveries, responders, page, size) ==
  Counted(RespondersInOrder(deliveries, responders), page, size)

DeliveriesPage(deliveries, r, ty, page, size) ==
  Peeked(NewestFirst(OfType(deliveries, To(deliveries, r), ty)), page, size)

\* The responses of rows, added up.
Taken(deliveries, rows) ==
  LET order == NewestFirst(rows)
  IN Total([k \in DOMAIN order |-> deliveries[order[k]].response])

\* Of no answer, and of answers that took no time, there is no average.
AverageResponse(deliveries, rows) ==
  LET answered == Acknowledged(deliveries, rows)
      total == Taken(deliveries, answered)
  IN IF total = 0 THEN NoAverage ELSE [total |-> total, of |-> Cardinality(answered)]

Numbers(deliveries, rows) ==
  [sent |-> Cardinality(rows), acknowledged |-> Cardinality(Acknowledged(deliveries, rows)),
   average |-> AverageResponse(deliveries, rows)]

\* The deliveries sent between two times, the bounds included.
SentWithin(deliveries, from, to) ==
  OfStatus(deliveries, DOMAIN deliveries \cap (from .. to), "sent")

\* Types without a delivery are not in the breakdown.
Analytics(deliveries, from, to) ==
  LET sent == SentWithin(deliveries, from, to)
  IN [overall |-> Numbers(deliveries, sent),
      per_type |-> [ty \in {deliveries[i].type : i \in sent} |->
                      Numbers(deliveries, OfType(deliveries, sent, ty))]]

\* top_responders: those who have answered, the fastest first, ten at most. The
\* query leaves open which of two equals comes first.
MaxTop == 10
TopResponders(deliveries, from, to) ==
  LET answered == Acknowledged(deliveries, SentWithin(deliveries, from, to))
      Of(r) == answered \cap To(deliveries, r)
      Slower(a, b) == Taken(deliveries, Of(a)) * Cardinality(Of(b))
                        > Taken(deliveries, Of(b)) * Cardinality(Of(a))
      ranked == Sorted({deliveries[i].to : i \in answered},
                       LAMBDA a, b : Slower(b, a) \/ (~Slower(a, b) /\ a < b))
  IN Rows(ranked, 0, MaxTop)

Export(deliveries, from, to, limit) ==
  Rows(NewestFirst(SentWithin(deliveries, from, to)), 0, limit)

-----------------------------------------------------------------------------
(***************************************************************************)
(* The responder's app.                                                    *)
(***************************************************************************)

\* Descending sent_at: what has none comes first, in no order, those that were
\* sent newest first.
AlertOrders(deliveries, r) ==
  LET IsSent(i) == deliveries[i].status = "sent"
  IN Orderings(To(deliveries, r),
               LAMBDA i, j : IsSent(i) /\ (~IsSent(j) \/ i < j))

\* An alert has its timestamp, which a response cannot be without.
AlertsPage(deliveries, order, page, size) ==
  LET shown == Peeked(order, page, size)
  IN IF \E k \in DOMAIN shown.items : deliveries[shown.items[k]].status # "sent"
       THEN PageError ELSE shown

UnreadCount(deliveries, r) ==
  LET sent == OfStatus(deliveries, To(deliveries, r), "sent")
  IN Cardinality(sent \ Acknowledged(deliveries, sent))

-----------------------------------------------------------------------------
(***************************************************************************)
(* Readings: [time, pct] in the order of their times. A level is its pct.   *)
(***************************************************************************)

\* LAG over all of the readings that a WHERE leaves.
Lagged(readings) ==
  [i \in DOMAIN readings |->
     [time |-> readings[i].time, level |-> readings[i].pct,
      change |-> IF i = 1 THEN 0 ELSE readings[i].pct - readings[i - 1].pct]]

\* The page is cut from the readings after LAG.
ReadingsPage(readings, page, size) == Peeked(Reverse(Lagged(readings)), page, size)

ReadingsExport(readings, from, to) ==
  LET within == OldestFirst({i \in DOMAIN readings :
                               from <= readings[i].time /\ readings[i].time <= to})
  IN Reverse(Lagged([k \in DOMAIN within |-> readings[within[k]]]))

\* The levels of a bucket, and the buckets from that of the start until now.
Bucket(time, interval) == time - (time % interval)

InBucket(readings, start, interval, bucket) ==
  {i \in DOMAIN readings : readings[i].time >= start
                             /\ Bucket(readings[i].time, interval) = bucket}

Average(readings, rows) ==
  LET order == NewestFirst(rows)
  IN Total([k \in DOMAIN order |-> readings[order[k]].pct]) \div Cardinality(rows)

Trend(readings, start, now, interval) ==
  [t \in {t \in Bucket(start, interval) .. now : t % interval = 0} |->
     LET rows == InBucket(readings, start, interval, t)
     IN IF rows = {} THEN 0 ELSE Average(readings, rows)]

-----------------------------------------------------------------------------
(***************************************************************************)
(* Properties.                                                             *)
(***************************************************************************)

\* There is a first page, of no rows too.
LastPage(all, size) == IF all = <<>> THEN 1 ELSE TotalPages(Len(all), size)

\* The pages, taken one after another until none is left, show each row once.
PagesShow(all, pages) ==
  /\ Joined([p \in DOMAIN pages |-> pages[p].items]) = all
  /\ \A p \in DOMAIN pages : pages[p].has_more <=> p < Len(pages)

\* The tables lose and repeat no row, and the change a row shows is the same on
\* every page, and in an export but for its first reading.
TablesAreComplete(deliveries, responders, readings, size) ==
  /\ LET all == RespondersInOrder(deliveries, responders) IN
       /\ {all[k].responder : k \in DOMAIN all} = responders
       /\ PagesShow(all, [p \in 1 .. LastPage(all, size) |->
                            RespondersPage(deliveries, responders, p, size)])
  /\ \A r \in responders, ty \in {"any", "warning", "critical"} :
       LET all == NewestFirst(OfType(deliveries, To(deliveries, r), ty))
       IN PagesShow(all, [p \in 1 .. LastPage(all, size) |->
                            DeliveriesPage(deliveries, r, ty, p, size)])
  /\ LET all == Reverse(Lagged(readings))
     IN PagesShow(all, [p \in 1 .. LastPage(all, size) |-> ReadingsPage(readings, p, size)])
  /\ \A from \in {readings[i].time : i \in DOMAIN readings} :
       LET rows == ReadingsExport(readings, from, from + 20)
       IN \A k \in 1 .. Len(rows) - 1 : \E i \in DOMAIN readings : rows[k] = Lagged(readings)[i]

\* A responder's alerts are complete, or the first page is an error for a
\* delivery that failed.
AlertsAreComplete(deliveries, r, size) ==
  \A order \in AlertOrders(deliveries, r) :
    IF OfStatus(deliveries, To(deliveries, r), "sent") = To(deliveries, r)
      THEN PagesShow(order, [p \in 1 .. LastPage(order, size) |->
                               AlertsPage(deliveries, order, p, size)])
      ELSE AlertsPage(deliveries, order, 1, size) = PageError

\* Queries that count the same deliveries in different ways agree: the whole and
\* its types, the log by responder, two halves of the time, the unread count.
CountsAgree(deliveries, responders) ==
  LET n == Len(deliveries)
      whole == Analytics(deliveries, 1, n)
      Summary(r) == SummaryOf(deliveries, r)
  IN /\ whole.overall.sent
          = SumOf([ty \in DOMAIN whole.per_type |-> whole.per_type[ty].sent])
     /\ whole.overall.acknowledged
          = SumOf([ty \in DOMAIN whole.per_type |-> whole.per_type[ty].acknowledged])
     /\ whole.overall.sent = SumOf([r \in responders |-> Summary(r).sent])
     /\ whole.overall.sent = whole.overall.acknowledged
                               + SumOf([r \in responders |-> UnreadCount(deliveries, r)])
     /\ whole.overall.acknowledged <= SumOf([r \in responders |-> Summary(r).acknowledged])
     /\ \A k \in 0 .. n :
          whole.overall.sent = Analytics(deliveries, 1, k).overall.sent
                                + Analytics(deliveries, k + 1, n).overall.sent
     /\ LET top == TopResponders(deliveries, 1, n)
        IN {top[k] : k \in DOMAIN top}
             = {r \in responders : UnreadCount(deliveries, r) < Summary(r).sent}
     /\ Len(Export(deliveries, 1, n, n)) = whole.overall.sent
     /\ \A r \in responders :
          Summary(r).total = Summary(r).sent + Summary(r).failed + Summary(r).pending

\* The trend shows every reading of its time in some bucket, and a bucket's
\* level lies between those of its readings.
TrendShows(readings, start, now, interval) ==
  LET trend == Trend(readings, start, now, interval)
      asked == {i \in DOMAIN readings : readings[i].time \in start .. now}
      In(i) == Bucket(readings[i].time, interval)
  IN \A i \in asked :
       /\ In(i) \in DOMAIN trend
       /\ \E low, high \in asked :
            /\ In(low) = In(i) /\ In(high) = In(i)
            /\ readings[low].pct <= trend[In(i)] /\ trend[In(i)] <= readings[high].pct
=============================================================================
