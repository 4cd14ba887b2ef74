----------------------------- MODULE MCNwsIntervals -----------------------------
(***************************************************************************)
(* Small documents for NwsIntervals.  The unit of time is half an hour, so *)
(* that intervals begin and end between the hours too.                     *)
(***************************************************************************)
EXTENDS NwsIntervals

MCHour == 2

Datums(times, kinds) == [kind : kinds, start : times, end : times]

\* Up to two data of every kind, with any times, in any order.
AnyDatum ==
  Datums(0..4, Kind \ {"broken"}) \cup {[kind |-> "broken", start |-> 0, end |-> 0]}

AnyValues == UNION {[1..n -> AnyDatum] : n \in 0..2}

\* Three intervals that follow one another, with or without gaps.
Interval == {d \in Datums(0..5, {"good", "unusable"}) : d.start < d.end}

After(d) == {e \in Interval : d.end <= e.start}

OrderedValues ==
  UNION {{<<p[1], p[2], c>> : c \in After(p[2])} :
           p \in {q \in Interval \X Interval : q[1].end <= q[2].start}}

\* Three hours, two hours or one, or a range that is empty.
MCDocument == [start : {1, 3}, end : {3, 6}, values : AnyValues \cup OrderedValues]
=============================================================================
