------------------------------- MODULE MCRelay -------------------------------
(***************************************************************************)
(* Two switches for TLC: hosts a and b at the first one, c at the second   *)
(* one; a and c form a multicast group.                                    *)
(***************************************************************************)
EXTENDS Relay

CONSTANTS a, b, c, low, high

Switches == {1, 2}
Hosts == {a, b, c}
GroupMembers == {a, c}
Ports == {<<1, 0>>, <<1, 1>>, <<1, 2>>, <<2, 0>>, <<2, 1>>}

Links == {<<a, <<1, 0>>>>, <<b, <<1, 1>>>>, <<<<1, 2>>, <<2, 0>>>>, <<c, <<2, 1>>>>}
Other == [x \in Ports \cup Hosts |->
            CHOOSE y \in Ports \cup Hosts : <<x, y>> \in Links \/ <<y, x>> \in Links]

Way == [s \in Switches |->
          IF s = 1 THEN [h \in Hosts |-> CASE h = a -> 0 [] h = b -> 1 [] h = c -> 2]
                   ELSE [h \in Hosts |-> IF h = c THEN 1 ELSE 0]]

GroupEntry(s) == {<<s, Way[s][h]>> : h \in GroupMembers}

\* The database of every switch names the group only, or hosts as well.
GroupOnly == [s \in Switches |-> [x \in {Group} |-> GroupEntry(s)]]
Complete ==
  [s \in Switches |-> [x \in Hosts \cup {Group} |->
     IF x = Group THEN GroupEntry(s) ELSE {<<s, Way[s][x]>>}]]

\* The only host behind the second switch has to be learned, and is forgotten
\* when this database replaces what was learned.
EdgeUnknown ==
  [s \in Switches |-> [x \in {a, b, Group} |-> Complete[s][x]]]

MaybeEdge == {Complete, EdgeUnknown}

Priorities == {low, high}

\* Every port of a switch has a queue for each priority, a host has one.
Queues == [x \in Ports \cup Hosts |->
             [p \in Priorities |-> IF x \in Ports /\ p = high THEN 1 ELSE 0]]

stream(h, x, p) == [src |-> h, dest |-> x, priority |-> p]

\* Hosts send to each other with any priority; what goes to many is urgent.
AnyStream ==
  {t \in [src : Hosts, dest : Hosts, priority : Priorities] : t.dest # t.src}
    \cup {stream(a, Broadcast, high), stream(c, Broadcast, high), stream(a, Group, high)}

\* One priority for what the hosts at the first switch send to single hosts.
OnePriority == {t \in AnyStream : t.src \in {a, b} /\ t.dest \in Hosts => t.priority = low}

network(initial, later, flooding, frames) ==
  [initial |-> initial, later |-> later, flooding |-> flooding, frames |-> frames,
   streams |-> AnyStream, queueOf |-> Queues, lossy |-> {}]

\* Everything is learned, and nothing is loaded later.
Learning == [network(GroupOnly, {}, {}, 3) EXCEPT !.streams = OnePriority]

\* Databases are replaced, in any order and number.
Swapping == network(EdgeUnknown, MaybeEdge, {}, 2)

\* A flooding switch sends frames for its other hosts on to a forwarding one,
\* which returns them if it has located the destination there; at the second
\* switch, with its only host, this does not happen.
Flooding == {network(d, {}, f, 2) : d \in {GroupOnly, Complete}, f \in {{2}, {1, 2}}}

\* The ports between the switches and the one to host a lose frames; one port
\* does while databases are replaced.
Losing == {[Learning EXCEPT !.lossy = {<<1, 2>>, <<2, 0>>, <<1, 0>>}],
           [network(EdgeUnknown, {Complete}, {}, 2) EXCEPT !.lossy = {<<1, 2>>}]}

Networks == {Learning, Swapping} \cup Flooding \cup Losing
ASSUME NetworksAssumption ==
  \A k \in Networks : HasRightDatabases(k) /\ WaysStayKnown(k) /\ KeepsOrder(k)

\* What does not work: learned entries are replaced, only the first switch
\* floods, or an answer of high priority overtakes a frame that is flooded.
Forgetting == {network(GroupOnly, {GroupOnly}, {}, 2)}
Mixed == {network(Complete, {}, {1}, 2)}
Overtaking == {network(GroupOnly, {}, {}, 2)}
=============================================================================
