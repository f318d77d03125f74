------------------------------ MODULE TagPath ------------------------------
(***************************************************************************)
(* The VLAN tag of a frame on its way from a host through switches to      *)
(* another host: VLANEncap and QueuingFrames at every hop, and the queues  *)
(* and the two lanes of the links between which a tag decides.             *)
(*                                                                         *)
(* A link is the frames in the order in which they will be complete at its *)
(* end.  Gates, shapers and the hold of a MAC decide when a queue is       *)
(* served; here any queue may be next.  Lengths and addresses are left     *)
(* out: a queue of bounded capacity may have no room for any frame, and    *)
(* the relay only knows the port on the path.                              *)
(***************************************************************************)
EXTENDS Integers, Sequences, Functions

CONSTANTS
  NoTag,      \* no tag, or a frame without a VLAN header
  Paths,      \* a generator and its parameters, switches, and the last host
  MaxFrames,  \* bound on the frames sent
  MaxBurst    \* bound on numPacketsPerBurst

kNumberOfPCPValues == 8
kMinValidVID == 1
kMaxValidVID == 4094

LowestShort == -32768
HighestShort == 32767
Short == LowestShort .. HighestShort

\* uint8_t pcp, bool de, short VID; a PCP of more than three bits is not one.
Tag == [pcp : 0 .. kNumberOfPCPValues - 1, de : BOOLEAN, vid : Short]

\* The port of a switch at which the path leaves it, and the pvid of the one
\* at which it enters.
Hop == [queues : 1 .. kNumberOfPCPValues, express : SUBSET (0 .. 7),
        interface : {"plain", "preemptable"}, preempting : BOOLEAN,
        bounded : BOOLEAN, pvid : kMinValidVID .. kMaxValidVID]

\* The MAC of a host knows no fragments, and neither does that of a plain port.
PathAssumption(p) ==
  /\ p.app \in {"burst", "full load", "scheduled"} /\ p.tags \subseteq Tag \cup {NoTag}
  /\ p.hops \in Seq(Hop) /\ p.hops # <<>>
  /\ p.pvid \in kMinValidVID .. kMaxValidVID
  /\ ~p.hops[Len(p.hops)].preempting
  /\ \A h \in DOMAIN p.hops :
       p.hops[h].preempting => \A g \in {h, h + 1} : p.hops[g].interface = "preemptable"

ASSUME TagAssumption == NoTag \notin Tag
ASSUME PathsAssumption == \A p \in Paths : PathAssumption(p)
ASSUME BoundsAssumption == MaxFrames \in Nat /\ MaxBurst \in Nat

VARIABLES
  path,     \* chosen at the start
  sent,     \* history: the tags asked for, in the order of the frames
  wire,     \* link to every switch, and to the last host
  waiting,  \* queues of every switch
  stalled,  \* switches whose MAC waits for a frame that went to the sink
  lost,     \* history: the frames dropped by a queue or overwritten in a MAC
  received  \* what the application of the last host got

vars == <<path, sent, wire, waiting, stalled, lost, received>>

Hops == DOMAIN path.hops
Last == Len(path.hops) + 1

-----------------------------------------------------------------------------
(* The conversions of a frame.  Its tag is a request or an indication, the *)
(* control information of the packet, or it is in the header.              *)

Frame(id, tag) ==
  [id |-> id, req |-> tag, ind |-> NoTag, header |-> NoTag,
   cut |-> FALSE, interrupts |-> FALSE]

\* processPacketFromHigherLevel
Encapsulate(f) ==
  IF f.req = NoTag THEN f ELSE [f EXCEPT !.header = f.req, !.req = NoTag]

\* The control information of a frame that arrives without a tag.
DefaultTag(pvid) == [pcp |-> 0, de |-> FALSE, vid |-> pvid]

\* Mutant: the VLAN of the port replaces that of the tag.
PortVid(vid, pvid) == pvid

ValidVid(vid, pvid) == IF vid \in kMinValidVID .. kMaxValidVID THEN vid ELSE pvid

\* processPacketFromLowerLevel
Decapsulate(f, pvid) ==
  [f EXCEPT !.header = NoTag,
            !.ind = IF f.header = NoTag THEN DefaultTag(pvid)
                    ELSE [f.header EXCEPT !.vid = ValidVid(@, pvid)]]

\* QueuingFrames: what was indicated is requested.
SwitchTag(f) == [f EXCEPT !.req = f.ind, !.ind = NoTag]

\* A row for every number of queues, an entry for every PCP.
standardTrafficClassMapping ==
  << <<0, 0, 0, 0, 0, 0, 0, 0>>,
     <<0, 0, 0, 0, 1, 1, 1, 1>>,
     <<0, 0, 0, 0, 1, 1, 2, 2>>,
     <<0, 0, 1, 1, 2, 2, 3, 3>>,
     <<0, 0, 1, 1, 2, 2, 3, 4>>,
     <<1, 0, 2, 2, 3, 3, 4, 5>>,
     <<1, 0, 2, 3, 4, 4, 5, 6>>,
     <<1, 0, 2, 3, 4, 5, 6, 7>> >>

\* Mutant: classes of equal width, with background traffic the lowest.
QueueByWidth(hop, tag) == (tag.pcp * hop.queues) \div kNumberOfPCPValues

\* Mutant: frames that may be dropped have a queue of their own.
QueueByEligibility(hop, tag) ==
  IF tag.de THEN 0 ELSE standardTrafficClassMapping[hop.queues][tag.pcp + 1]

QueueOf(hop, tag) == standardTrafficClassMapping[hop.queues][tag.pcp + 1]

-----------------------------------------------------------------------------
Init ==
  /\ path \in Paths
  /\ sent = <<>>
  /\ wire = [h \in 1 .. Last |-> <<>>]
  /\ waiting = [h \in Hops |-> [q \in 0 .. path.hops[h].queues - 1 |-> <<>>]]
  /\ stalled = {}
  /\ lost = {}
  /\ received = <<>>

\* A host hands frames with these tags to its MAC.
Send(tags) ==
  LET first == Len(sent) IN
    /\ first + Len(tags) <= MaxFrames
    /\ sent' = sent \o tags
    /\ wire' = [wire EXCEPT ![1] =
         @ \o [i \in DOMAIN tags |-> Encapsulate(Frame(first + i, tags[i]))]]
    /\ UNCHANGED <<path, waiting, stalled, lost, received>>

\* VlanEtherTrafGen; its parameters are read again for every frame.
sendBurstPackets ==
  /\ path.app = "burst"
  /\ \E n \in 1 .. MaxBurst : \E tags \in [1 .. n -> path.tags] : Send(tags)

\* EtherTrafGenQueue: the MAC asks once its last frame is gone.
requestPacket ==
  /\ path.app = "full load"
  /\ wire[1] = <<>>
  /\ \E tag \in path.tags : Send(<<tag>>)

\* VlanEtherTrafGenSched: always a tag, but for no VLAN.
sendPacket ==
  /\ path.app = "scheduled"
  /\ \E tag \in path.tags \ {NoTag} : Send(<<[tag EXCEPT !.de = FALSE, !.vid = 0]>>)

\* LengthAwareQueue: a frame may find no room in a queue of bounded capacity.
Enqueue(h, q, f) ==
  \/ /\ waiting' = [waiting EXCEPT ![h][q] = Append(@, f)]
     /\ UNCHANGED lost
  \/ /\ path.hops[h].bounded
     /\ lost' = lost \cup {f.id}
     /\ UNCHANGED waiting

\* A frame is complete at a switch: VLANEncap, FrameForward, the relay, and
\* QueuingFrames of the port at which it leaves.
Arrive(h) ==
  /\ wire[h] # <<>>
  /\ LET hop == path.hops[h]
         f == SwitchTag(Decapsulate(Head(wire[h]), hop.pvid))
     IN Enqueue(h, QueueOf(hop, f.req), f)
  /\ wire' = [wire EXCEPT ![h] = Tail(@)]
  /\ UNCHANGED <<path, sent, stalled, received>>

\* The frames of a link with one more.  An express frame may interrupt the
\* frame that is being sent.  If the checksum of the fragment for an earlier
\* one is still being sent, it takes the place of that one.
Placements(link, f) ==
  LET n == Len(link)
      before == Append(SubSeq(link, 1, n - 1), f) \o <<link[n]>>
      instead == [link EXCEPT ![n - 1] = f]
  IN IF ~f.interrupts THEN {Append(link, f)}
     ELSE IF n = 0 \/ f.cut \/ ~link[n].cut THEN {}
     ELSE IF n = 1 \/ ~link[n - 1].interrupts THEN {before}
     ELSE {before, instead}

Ids(link) == {f.id : f \in Range(link)}

\* Mutant: only the express output of TransmissionSelection is connected.
IsDiscardedAlways(hop, q) == q \notin hop.express

\* The other output of a plain port ends in a sink.
IsDiscarded(hop, q) == hop.interface = "plain" /\ q \notin hop.express

\* TransmissionSelection sends a frame of an open queue to the MAC that asked.
Transmit(h, q) ==
  /\ h \notin stalled
  /\ waiting[h][q] # <<>>
  /\ ~IsDiscarded(path.hops[h], q)
  /\ LET hop == path.hops[h]
         f(now) == [Encapsulate(Head(waiting[h][q]))
                      EXCEPT !.cut = hop.preempting /\ q \notin hop.express,
                             !.interrupts = now]
     IN \E now \in BOOLEAN : \E link \in Placements(wire[h + 1], f(now)) :
          /\ wire' = [wire EXCEPT ![h + 1] = link]
          /\ lost' = lost \cup (Ids(wire[h + 1]) \ Ids(link))
  /\ waiting' = [waiting EXCEPT ![h][q] = Tail(@)]
  /\ UNCHANGED <<path, sent, stalled, received>>

\* The MAC got nothing for its request and makes no other.
Discard(h, q) ==
  /\ h \notin stalled
  /\ waiting[h][q] # <<>>
  /\ IsDiscarded(path.hops[h], q)
  /\ waiting' = [waiting EXCEPT ![h][q] = Tail(@)]
  /\ stalled' = stalled \cup {h}
  /\ UNCHANGED <<path, sent, wire, lost, received>>

\* receivePacket of the application, behind the VLANEncap of its host.
Receive ==
  /\ wire[Last] # <<>>
  /\ received' = Append(received, Decapsulate(Head(wire[Last]), path.pvid))
  /\ wire' = [wire EXCEPT ![Last] = Tail(@)]
  /\ UNCHANGED <<path, sent, waiting, stalled, lost>>

Serve(h, q) == Transmit(h, q) \/ Discard(h, q)

Next ==
  \/ sendBurstPackets
  \/ requestPacket
  \/ sendPacket
  \/ \E h \in Hops : Arrive(h)
  \/ \E h \in Hops : \E q \in DOMAIN waiting[h] : Serve(h, q)
  \/ Receive

MaxHops == CHOOSE n \in {Len(p.hops) : p \in Paths} : \A p \in Paths : Len(p.hops) <= n

\* The simulation keeps handling events, and no gate stays closed for ever.
Fairness ==
  /\ \A h \in 1 .. MaxHops : WF_vars(h \in Hops /\ Arrive(h))
  /\ \A h \in 1 .. MaxHops : \A q \in 0 .. kNumberOfPCPValues - 1 :
       WF_vars(h \in Hops /\ q \in DOMAIN waiting[h] /\ Serve(h, q))
  /\ WF_vars(Receive)

Spec == Init /\ [][Next]_vars /\ Fairness

-----------------------------------------------------------------------------
(* Properties *)

Waiting == UNION {UNION {Range(waiting[h][q]) : q \in DOMAIN waiting[h]} : h \in Hops}

\* The tag of a frame from its first switch on: that of the generator, or the
\* defaults; the VLAN of that switch for a frame that names none.
Promised(i) ==
  LET tag == IF sent[i] = NoTag THEN [pcp |-> 0, de |-> FALSE, vid |-> 0] ELSE sent[i]
  IN [tag EXCEPT !.vid = IF @ >= 1 /\ @ <= 4094 THEN @ ELSE path.hops[1].pvid]

\* Priority, eligibility and VLAN of a frame are decided once, where it enters
\* the network, and are the same in every queue, on every link and at the last
\* application, whatever the ports behind have for a default (VLANEncap.cc:113,
\* QueuingFrames.cc:41).
TagIsKept ==
  /\ \A f \in Waiting : f.req = Promised(f.id)
  /\ \A h \in 2 .. Last : \A f \in Range(wire[h]) : f.header = Promised(f.id)
  /\ \A f \in Range(received) : f.ind = Promised(f.id)

\* Background traffic, PCP 1, is the least urgent: 1 < 0 < 2 < ... < 7.
Urgency(pcp) == CASE pcp = 0 -> 1 [] pcp = 1 -> 0 [] OTHER -> pcp

\* With any number of queues the frame of a later queue, which is served first,
\* is the more urgent one (QueuingFrames.h:41).
LaterQueuesAreMoreUrgent ==
  \A h \in Hops : \A p, q \in DOMAIN waiting[h] :
    p < q => \A f \in Range(waiting[h][p]), g \in Range(waiting[h][q]) :
               Urgency(f.req.pcp) < Urgency(g.req.pcp)

\* Frames of one priority arrive in the order in which they were sent, and once
\* each: no hop splits them between two queues, or between the express and the
\* preemptable lane, although frames of other priorities may overtake them
\* (QueuingFrames.cc:76, TransmissionSelection.cc:79).
InOrderPerPriority ==
  \A i, j \in DOMAIN received :
    i < j /\ received[i].ind.pcp = received[j].ind.pcp => received[i].id < received[j].id

\* Every frame arrives, whatever its tag, unless a queue of bounded capacity has
\* dropped it (LengthAwareQueue.cc:78), a MAC has overwritten it by a second
\* express frame (EtherMACFullDuplexPreemptable.cc:215), or a plain port on the
\* path has swallowed a frame of a queue that is not express and has stopped for
\* good (VlanEthernetInterfaceSwitch.ned).
EventuallyArrives ==
  \A i \in 1 .. MaxFrames :
    Len(sent) >= i ~> \/ \E f \in Range(received) : f.id = i
                      \/ i \in lost
                      \/ \E h \in stalled : path.hops[h].interface = "plain"

\* Does not hold: a plain port with a queue that is not express stops.
NeverStalls == stalled = {}
=============================================================================
