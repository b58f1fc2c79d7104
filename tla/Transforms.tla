----------------------------- MODULE Transforms -----------------------------
(* The transforms of aw-transform that a query is made of, as functions on
   sequences of events (src/aw-transform/src), and the desktop query the client
   library builds from them (src/aw-client-rust/src/queries.rs).

   An event is a record [s, e, d]: the interval from s to before e, and the
   data.  A transform that moves a cursor through its lists is a step on the
   state of its loop, taken often enough. *)
EXTENDS Subsequences, Integers, SequencesExt

\* Iterated(Step, s, n): n steps of a loop whose step does nothing at its end.
Iterated(Step(_), s, n) == FoldLeft(LAMBDA t, k : Step(t), s, [k \in 1..n |-> k])

Later(x, y) == IF x >= y THEN x ELSE y
Earlier(x, y) == IF x <= y THEN x ELSE y

\* Vec::sort_by_key is stable.
SortByTimestamp(l) ==
    LET before(i, j) == l[i].s < l[j].s \/ (l[i].s = l[j].s /\ i < j)
        order == InOrder(DOMAIN l, before)
    IN  [k \in DOMAIN l |-> l[order[k]]]

(***************************************************************************)
(* Intervals (src/aw-models/src/timeinterval.rs).                          *)
(***************************************************************************)
Gap(p, q) == p.e < q.s \/ q.e < p.s
Union(p, q) == [p EXCEPT !.s = Earlier(p.s, q.s), !.e = Later(p.e, q.e)]
Intersects(p, q) == Later(p.s, q.s) < Earlier(p.e, q.e)

\* The units of time of an event; of a list; with their data; the lists in which
\* no time is counted twice; and how long all events of a list, or of a function,
\* last.
Span(v) == v.s..(v.e - 1)
TimeOf(l) == UNION {Span(l[k]) : k \in DOMAIN l}
Timed(l) == UNION {{l[k].d} \X Span(l[k]) : k \in DOMAIN l}
Disjoint(l) == \A k, n \in DOMAIN l : k # n => Span(l[k]) \cap Span(l[n]) = {}
Durations(l) == FoldLeft(LAMBDA sum, v : sum + (v.e - v.s), 0, l)
Total(m) == FoldFunction(LAMBDA v, sum : sum + (v.e - v.s), 0, m)

(***************************************************************************)
(* flood: small gaps between neighbours are filled, half by each, and      *)
(* neighbours with the same data become one.                               *)
(***************************************************************************)
\* Mutant: the merged event ends where the second one does.
JoinedAtSecond(p, q) == [p EXCEPT !.e = q.e]

Joined(p, q) == Union(p, q)

\* What becomes of the event at hand and the next one.
Meet(st, next, pulse) ==
    LET cur == st.cur
        gap == next.s - cur.e
        near == 0 <= gap /\ gap < pulse
    IN  IF cur.d = next.d /\ gap < Later(pulse, 0)
        THEN [st EXCEPT !.cur = Joined(cur, next)]
        ELSE IF near
        THEN [out |-> Append(st.out, [cur EXCEPT !.e = @ + gap \div 2]),
              cur |-> [next EXCEPT !.s = @ - gap \div 2]]
        ELSE [out |-> Append(st.out, cur), cur |-> next]

Flood(l, pulse) ==
    LET sorted == SortByTimestamp(l)
        end == FoldLeft(LAMBDA st, next : Meet(st, next, pulse),
                        [out |-> <<>>, cur |-> Head(sorted)], Tail(sorted))
    IN  IF l = <<>> THEN <<>> ELSE Append(end.out, end.cur)

(***************************************************************************)
(* filter_period_intersect: what of the events lies within the periods.    *)
(***************************************************************************)
\* Mutant: a period is left as soon as one event has been cut by it.
CutOnce(st) ==
    LET ev == Head(st.events)
        p == Head(st.periods)
        end == Earlier(ev.e, p.e)
    IN  [out |-> Append(st.out, [ev EXCEPT !.s = Later(@, p.s), !.e = end]),
         events |-> <<[ev EXCEPT !.s = end]>> \o Tail(st.events),
         periods |-> Tail(st.periods)]

\* The part of the first event in the first period is put out, and the event
\* goes on behind it.
Cut(st) ==
    LET ev == Head(st.events)
        p == Head(st.periods)
        end == Earlier(ev.e, p.e)
    IN  [st EXCEPT !.out = Append(@, [ev EXCEPT !.s = Later(@, p.s), !.e = end]),
                   !.events = <<[ev EXCEPT !.s = end]>> \o Tail(@)]

\* The first event or the first period is behind the other, or they overlap.
Intersect(st) ==
    IF st.events = <<>> \/ st.periods = <<>> THEN st
    ELSE LET ev == Head(st.events)
             p == Head(st.periods)
         IN  IF ev.s = ev.e \/ ev.e <= p.s THEN [st EXCEPT !.events = Tail(@)]
             ELSE IF ev.s >= p.e THEN [st EXCEPT !.periods = Tail(@)]
             ELSE Cut(st)

FilterPeriodIntersect(events, periods) ==
    LET start == [out |-> <<>>, events |-> SortByTimestamp(events),
                  periods |-> SortByTimestamp(periods)]
    IN  Iterated(Intersect, start, 2 * (Len(events) + Len(periods))).out

(***************************************************************************)
(* period_union: the time of both lists, without overlaps and without data.*)
(***************************************************************************)
\* An event makes the last period longer, or begins a new one.
Unite(out, ev) ==
    IF out = <<>> \/ Gap(ev, Last(out))
    THEN Append(out, ev)
    ELSE Append(Front(out), [Last(out) EXCEPT !.e = Union(ev, Last(out)).e])

PeriodUnion(l1, l2) ==
    LET united == FoldLeft(Unite, <<>>, SortByTimestamp(l1 \o l2))
    IN  [k \in DOMAIN united |-> [united[k] EXCEPT !.d = {}]]

(***************************************************************************)
(* union_no_overlap: both lists; where they overlap, the first one's.      *)
(***************************************************************************)
\* Mutant: the second part starts where the whole event did.
BehindUncut(ev, t) == IF ev.s < t /\ t < ev.e THEN <<ev>> ELSE <<>>

\* split_event: the part of an event before t, and the part behind it, if any.
Before(ev, t) == IF ev.s < t /\ t < ev.e THEN [ev EXCEPT !.e = t] ELSE ev
Behind(ev, t) == IF ev.s < t /\ t < ev.e THEN <<[ev EXCEPT !.s = t]>> ELSE <<>>

\* The first event of one list is put out, cut where the other begins or ends.
PutNext(st) ==
    IF st.a = <<>> \/ st.b = <<>> THEN st
    ELSE LET x == Head(st.a)
             y == Head(st.b)
             first(rest) == [out |-> Append(st.out, x), a |-> Tail(st.a), b |-> rest]
             second(ev, rest) == [st EXCEPT !.out = Append(@, ev), !.b = rest \o Tail(@)]
         IN  IF Intersects(x, y) /\ x.s <= y.s THEN first(Behind(y, x.e) \o Tail(st.b))
             ELSE IF Intersects(x, y) THEN second(Before(y, x.s), Behind(y, x.s))
             ELSE IF x.s <= y.s THEN first(st.b) ELSE second(y, <<>>)

UnionNoOverlap(l1, l2) ==
    LET end == Iterated(PutNext, [out |-> <<>>, a |-> l1, b |-> l2],
                        2 * (Len(l1) + Len(l2)))
    IN  end.out \o end.a \o end.b

(***************************************************************************)
(* Selecting and adding up.                                                *)
(***************************************************************************)
FilterKeyvals(l, vals) == Subsequence(l, {k \in DOMAIN l : l[k].d \in vals})

\* Neighbours with the same value become one that lasts as long as both.
Chunk(out, ev) ==
    IF out # <<>> /\ Last(out).d = ev.d
    THEN Append(Front(out), [Last(out) EXCEPT !.e = @ + (ev.e - ev.s)])
    ELSE Append(out, ev)

ChunkEventsByKey(l) == FoldLeft(Chunk, <<>>, l)

\* All events with the same value become one; HashMap::drain gives them in any
\* order, here by value.
MergeEventsByKey(l) ==
    [d \in {l[k].d : k \in DOMAIN l} |->
        ChunkEventsByKey(FilterKeyvals(l, {d}))[1]]

\* The deepest category that matches; of several the last.  A rule is a
\* category, a path, and the data it matches.
Categorize(ev, rules) ==
    LET pick(cat, rule) == IF ev.d \in rule.matches /\ Len(rule.path) >= Len(cat)
                           THEN rule.path ELSE cat
    IN  [ev EXCEPT !.d = FoldLeft(pick, <<"Uncategorized">>, rules)]

(***************************************************************************)
(* build_desktop_canonical_events, without browsers: window events while    *)
(* the user was there, or in an application that is always taken as active;*)
(* and the totals full_desktop_query makes of them.                        *)
(***************************************************************************)
NotAfk(window, afk, pulse, alwaysActive) ==
    PeriodUnion(FilterKeyvals(Flood(afk, pulse), {"not-afk"}),
                FilterKeyvals(Flood(window, pulse), alwaysActive))

CanonicalEvents(window, afk, pulse, alwaysActive) ==
    FilterPeriodIntersect(Flood(window, pulse),
                          NotAfk(window, afk, pulse, alwaysActive))

AppEvents(events) == MergeEventsByKey(events)
CatEvents(events, rules) ==
    MergeEventsByKey([k \in DOMAIN events |-> Categorize(events[k], rules)])
=============================================================================
