----------------------------- MODULE MCTagPath -----------------------------
(***************************************************************************)
(* Paths of one and two switches for TLC.                                  *)
(***************************************************************************)
EXTENDS TagPath

tag(p, d, v) == [pcp |-> p, de |-> d, vid |-> v]

\* Untagged; best effort, background and two frames of one priority; with a
\* VLAN, without one, and with a number that is none.
FiveTags == {NoTag, tag(0, FALSE, 7), tag(1, FALSE, 0), tag(5, TRUE, 7), tag(5, FALSE, 4095)}

hop(n, fast, preempts, v) ==
  [queues |-> n, express |-> fast, interface |-> "preemptable", preempting |-> preempts,
   bounded |-> FALSE, pvid |-> v]
plain(n, fast, v) == [hop(n, fast, FALSE, v) EXCEPT !.interface = "plain"]
bounded(h) == [h EXCEPT !.bounded = TRUE]

AnyPriority == {tag(p, FALSE, 0) : p \in 0 .. 7}

through(app, hops) == [app |-> app, tags |-> FiveTags, hops |-> hops, pvid |-> 3]

\* Preemption between two switches; a path that loses queues on its way, and
\* one that gains some and has little room at its end.
Shrinking == <<hop(8, {5, 6, 7}, TRUE, 1), hop(2, {1}, FALSE, 2)>>
Growing == <<hop(3, {1, 2}, TRUE, 1), bounded(hop(6, 0 .. 7, FALSE, 2))>>

\* Plain ports: all queues express, and one that is not.
Plain == <<plain(5, 0 .. 7, 1), plain(7, 0 .. 7, 2)>>
Sink == <<plain(4, {1, 2, 3}, 1)>>

AllPaths ==
  {through(app, hops) : app \in {"full load", "scheduled"}, hops \in {Shrinking, Sink}}
    \cup {through("burst", hops) : hops \in {Shrinking, Growing, Plain, Sink}}
    \cup {[through("scheduled", <<hop(n, {}, FALSE, 1)>>) EXCEPT !.tags = AnyPriority] :
            n \in 1 .. 8}

SinkOnly == {through("burst", Sink)}
=============================================================================
