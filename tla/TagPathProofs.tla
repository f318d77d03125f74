---------------------------- MODULE TagPathProofs ----------------------------
(***************************************************************************)
(* Tags, queues and order of the frames on any path through any number of  *)
(* switches, whatever their numbers of queues, their express queues and    *)
(* the kinds of their ports, for any tags, and any number of frames, any   *)
(* of which a bounded queue or a preempting MAC may lose.                  *)
(*                                                                         *)
(* What a frame carries at a place of the path follows from what was sent  *)
(* (LinkFrames, QueueFrames, ReceivedFrames).  A frame's priority then     *)
(* decides its queue and its lane everywhere, so that two frames of one    *)
(* priority meet nowhere but in a first-in-first-out line: at the same     *)
(* place in the order of sending (InLine), at two places the later one     *)
(* behind (OrderInv).                                                      *)
(***************************************************************************)
EXTENDS TagPath, SequenceTheorems, TLAPS

TagOrNone == Tag \cup {NoTag}

FrameType ==
  [id : Nat, req : TagOrNone, ind : TagOrNone, header : TagOrNone,
   cut : BOOLEAN, interrupts : BOOLEAN]

SentIds == 1 .. Len(sent)

\* The frames of a queue, and of a link.  A frame is cut on the link behind a
\* port exactly if that port preempts its queue.
QueueFrames(h, q) ==
  {f \in FrameType :
     /\ f.id \in SentIds
     /\ f.req = Promised(f.id)
     /\ QueueOf(path.hops[h], Promised(f.id)) = q}

IsCut(h, id) ==
  /\ path.hops[h].preempting
  /\ QueueOf(path.hops[h], Promised(id)) \notin path.hops[h].express

LinkFrames(h) ==
  {f \in FrameType :
     /\ f.id \in SentIds
     /\ f.req = NoTag
     /\ h = 1 => f.header = sent[f.id]
     /\ h > 1 => f.header = Promised(f.id) /\ (f.cut <=> IsCut(h - 1, f.id))}

ReceivedFrames ==
  {f \in FrameType : f.id \in SentIds /\ f.ind = Promised(f.id)}

Boxes == UNION {[0 .. n - 1 -> Seq(FrameType)] : n \in 1 .. kNumberOfPCPValues}

PlaceInv ==
  /\ path \in Paths
  /\ sent \in Seq(TagOrNone)
  /\ wire \in [1 .. Last -> Seq(FrameType)]
  /\ \A h \in 1 .. Last : wire[h] \in Seq(LinkFrames(h))
  /\ waiting \in [Hops -> Boxes]
  /\ \A h \in Hops :
       /\ waiting[h] \in [0 .. path.hops[h].queues - 1 -> Seq(FrameType)]
       /\ \A q \in 0 .. path.hops[h].queues - 1 : waiting[h][q] \in Seq(QueueFrames(h, q))
  /\ received \in Seq(ReceivedFrames)

\* Two frames of one priority.
Same(i, j) == Promised(i).pcp = Promised(j).pcp

InLine(s) ==
  \A i, j \in 1 .. Len(s) : i < j /\ Same(s[i].id, s[j].id) => s[i].id < s[j].id

IsIn(s, id) == \E i \in 1 .. Len(s) : s[i].id = id

\* The places of the path, in the order in which a frame comes to them.
IsAt(n, id) ==
  \/ \E h \in 1 .. Last : n = 2 * h - 1 /\ IsIn(wire[h], id)
  \/ \E h \in Hops : n = 2 * h /\ \E q \in 0 .. path.hops[h].queues - 1 : IsIn(waiting[h][q], id)
  \/ n = 2 * Last /\ IsIn(received, id)

LinesInv ==
  /\ \A h \in 1 .. Last : InLine(wire[h])
  /\ \A h \in Hops : \A q \in 0 .. path.hops[h].queues - 1 : InLine(waiting[h][q])
  /\ InLine(received)

OrderInv ==
  \A m, n, i, j \in Nat : IsAt(m, i) /\ IsAt(n, j) /\ m < n /\ Same(i, j) => i > j

PathInv == PlaceInv /\ LinesInv /\ OrderInv

-----------------------------------------------------------------------------
(* The table of queues *)

QueueIn(n, pcp) == standardTrafficClassMapping[n][pcp + 1]

LEMMA EveryPriorityHasAQueue ==
  \A n \in 1 .. kNumberOfPCPValues : \A p \in 0 .. 7 : QueueIn(n, p) \in 0 .. n - 1
  <1>1. TAKE n \in 1 .. kNumberOfPCPValues
  <1>2. TAKE p \in 0 .. 7
  <1>3. n \in {1, 2, 3, 4, 5, 6, 7, 8} /\ p \in {0, 1, 2, 3, 4, 5, 6, 7}
    BY DEF kNumberOfPCPValues
  <1>4. CASE n \in {1, 2}
    BY <1>3, <1>4 DEF QueueIn, standardTrafficClassMapping
  <1>5. CASE n \in {3, 4}
    BY <1>3, <1>5 DEF QueueIn, standardTrafficClassMapping
  <1>6. CASE n \in {5, 6}
    BY <1>3, <1>6 DEF QueueIn, standardTrafficClassMapping
  <1>7. CASE n \in {7, 8}
    BY <1>3, <1>7 DEF QueueIn, standardTrafficClassMapping
  <1>8. QED
    BY <1>3, <1>4, <1>5, <1>6, <1>7

LEMMA LaterIsMoreUrgent ==
  \A n \in 1 .. kNumberOfPCPValues : \A p, r \in 0 .. 7 :
    QueueIn(n, p) < QueueIn(n, r) => Urgency(p) < Urgency(r)
  <1>1. TAKE n \in 1 .. kNumberOfPCPValues
  <1>2. TAKE p, r \in 0 .. 7
  <1>3. /\ n \in {1, 2, 3, 4, 5, 6, 7, 8}
        /\ p \in {0, 1, 2, 3, 4, 5, 6, 7} /\ r \in {0, 1, 2, 3, 4, 5, 6, 7}
    BY DEF kNumberOfPCPValues
  <1>4. CASE n \in {1, 2}
    BY <1>3, <1>4 DEF QueueIn, standardTrafficClassMapping, Urgency
  <1>5. CASE n \in {3, 4}
    BY <1>3, <1>5 DEF QueueIn, standardTrafficClassMapping, Urgency
  <1>6. CASE n \in {5, 6}
    BY <1>3, <1>6 DEF QueueIn, standardTrafficClassMapping, Urgency
  <1>7. CASE n \in {7, 8}
    BY <1>3, <1>7 DEF QueueIn, standardTrafficClassMapping, Urgency
  <1>8. QED
    BY <1>3, <1>4, <1>5, <1>6, <1>7

-----------------------------------------------------------------------------
(* Paths and tags *)

LEMMA PathFacts ==
  ASSUME path \in Paths
  PROVE  /\ Len(path.hops) \in Nat /\ Hops = 1 .. Len(path.hops) /\ 1 \in Hops
         /\ Last = Len(path.hops) + 1
         /\ path.pvid \in kMinValidVID .. kMaxValidVID
         /\ path.tags \subseteq TagOrNone
         /\ \A h \in Hops :
              /\ path.hops[h].queues \in 1 .. kNumberOfPCPValues
              /\ path.hops[h].pvid \in kMinValidVID .. kMaxValidVID
  <1>1. PathAssumption(path)
    BY PathsAssumption
  <1>2. path.hops \in Seq(Hop) /\ path.hops # <<>>
    BY <1>1 DEF PathAssumption
  <1>3. Len(path.hops) \in Nat /\ Hops = 1 .. Len(path.hops) /\ 1 \in Hops
    BY <1>2 DEF Hops
  <1>4. \A h \in Hops : path.hops[h] \in Hop
    BY <1>2, <1>3
  <1>5. QED
    BY <1>1, <1>3, <1>4 DEF PathAssumption, Last, Hop, TagOrNone

\* The numbers of VLANs, and that of no VLAN, fit into a short.
LEMMA Vids ==
  /\ 0 \in Short /\ Short \subseteq Int
  /\ \A v \in kMinValidVID .. kMaxValidVID : v \in Short /\ v >= 1 /\ v <= 4094
  /\ \A v \in Short, w \in kMinValidVID .. kMaxValidVID :
       /\ (IF v >= 1 /\ v <= 4094 THEN v ELSE w) = ValidVid(v, w)
       /\ ValidVid(v, w) \in kMinValidVID .. kMaxValidVID
       /\ v \in kMinValidVID .. kMaxValidVID => ValidVid(v, w) = v
  <1>1. /\ LowestShort \in Int /\ LowestShort <= 0
        /\ HighestShort \in Int /\ 4094 <= HighestShort
    BY DEF LowestShort, HighestShort
  <1>2. /\ 0 \in Short /\ Short \subseteq Int
        /\ \A v \in kMinValidVID .. kMaxValidVID : v \in Short /\ v >= 1 /\ v <= 4094
    <2>1. 0 \in Short /\ Short \subseteq Int
      BY <1>1 DEF Short
    <2>2. \A v \in kMinValidVID .. kMaxValidVID : v \in Int /\ v >= 1 /\ v <= 4094
      BY DEF kMinValidVID, kMaxValidVID
    <2>3. \A v \in Int : v >= 1 /\ v <= 4094 => v \in Short
      BY <1>1 DEF Short
    <2>4. QED
      BY <2>1, <2>2, <2>3
  <1>3. \A v \in Int : v >= 1 /\ v <= 4094 <=> v \in kMinValidVID .. kMaxValidVID
    BY DEF kMinValidVID, kMaxValidVID
  <1>4. QED
    BY <1>1, <1>2, <1>3 DEF ValidVid

\* A tag with another VLAN.
LEMMA TagWithVid ==
  ASSUME NEW t \in Tag, NEW v \in Short
  PROVE  /\ [t EXCEPT !.vid = v] \in Tag
         /\ [t EXCEPT !.vid = v].vid = v
         /\ [t EXCEPT !.vid = v].pcp = t.pcp
         /\ [t EXCEPT !.vid = v] = [pcp |-> t.pcp, de |-> t.de, vid |-> v]
         /\ t.pcp \in 0 .. 7 /\ t.vid \in Short
         /\ v = t.vid => [t EXCEPT !.vid = v] = t
  BY DEF Tag, kNumberOfPCPValues

LEMMA ValidVidOfTag ==
  ASSUME NEW t \in Tag, NEW w \in kMinValidVID .. kMaxValidVID
  PROVE  /\ (IF t.vid >= 1 /\ t.vid <= 4094 THEN t.vid ELSE w) = ValidVid(t.vid, w)
         /\ ValidVid(t.vid, w) \in kMinValidVID .. kMaxValidVID
         /\ ValidVid(t.vid, w) \in Short
         /\ t.vid \in kMinValidVID .. kMaxValidVID => ValidVid(t.vid, w) = t.vid
  <1>1. t.vid \in Short
    BY DEF Tag
  <1>2. PICK v \in Short : v = t.vid
    BY <1>1
  <1>3. /\ (IF v >= 1 /\ v <= 4094 THEN v ELSE w) = ValidVid(v, w)
        /\ ValidVid(v, w) \in kMinValidVID .. kMaxValidVID
        /\ v \in kMinValidVID .. kMaxValidVID => ValidVid(v, w) = v
    BY Vids
  <1>4. ValidVid(v, w) \in Short
    BY <1>3, Vids
  <1>5. QED
    BY <1>2, <1>3, <1>4

LEMMA NoPriority ==
  ASSUME NEW v \in Short
  PROVE  [pcp |-> 0, de |-> FALSE, vid |-> v] \in Tag
  <1>1. 0 \in 0 .. kNumberOfPCPValues - 1
    BY DEF kNumberOfPCPValues
  <1>2. FALSE \in BOOLEAN
    OBVIOUS
  <1>3. QED
    BY <1>1, <1>2, Zenon DEF Tag

LEMMA PromisedIsTag ==
  ASSUME path \in Paths, NEW i, sent[i] \in TagOrNone
  PROVE  /\ Promised(i) \in Tag /\ Promised(i) # NoTag
         /\ Promised(i).pcp \in 0 .. 7
         /\ Promised(i).vid \in kMinValidVID .. kMaxValidVID
  <1> DEFINE none == [pcp |-> 0, de |-> FALSE, vid |-> 0]
             tag == IF sent[i] = NoTag THEN none ELSE sent[i]
  <1>1. path.hops[1].pvid \in kMinValidVID .. kMaxValidVID
    BY PathFacts, Zenon
  <1>2. tag \in Tag
    <2>1. 0 \in Short
      BY Vids
    <2>2. none \in Tag
      BY <2>1, NoPriority
    <2> HIDE DEF none
    <2>3. QED
      BY <2>2 DEF TagOrNone
  <1> HIDE DEF tag
  <1>3. Promised(i) = [tag EXCEPT !.vid = IF @ >= 1 /\ @ <= 4094 THEN @ ELSE path.hops[1].pvid]
    BY DEF Promised, tag
  <1> DEFINE v == ValidVid(tag.vid, path.hops[1].pvid)
  <1>4. /\ Promised(i) \in Tag /\ Promised(i).pcp \in 0 .. 7
        /\ Promised(i).vid \in kMinValidVID .. kMaxValidVID
    <2>1. /\ (IF tag.vid >= 1 /\ tag.vid <= 4094 THEN tag.vid ELSE path.hops[1].pvid) = v
          /\ v \in kMinValidVID .. kMaxValidVID /\ v \in Short
      BY <1>1, <1>2, ValidVidOfTag
    <2> HIDE DEF v
    <2>2. Promised(i) = [tag EXCEPT !.vid = v]
      BY <1>3, <2>1
    <2>3. /\ [tag EXCEPT !.vid = v] \in Tag
          /\ [tag EXCEPT !.vid = v].vid = v
          /\ [tag EXCEPT !.vid = v].pcp \in 0 .. 7
      <3>1. tag \in Tag /\ v \in Short
        BY <1>2, <2>1
      <3>2. QED
        BY <3>1, TagWithVid
    <2>4. QED
      BY <2>1, <2>2, <2>3
  <1>5. QED
    BY <1>4, TagAssumption

\* A sent frame has a queue at every port.
LEMMA QueueExists ==
  ASSUME path \in Paths, NEW i, sent[i] \in TagOrNone, NEW h \in Hops
  PROVE  /\ QueueOf(path.hops[h], Promised(i)) = QueueIn(path.hops[h].queues, Promised(i).pcp)
         /\ QueueOf(path.hops[h], Promised(i)) \in 0 .. path.hops[h].queues - 1
  BY PathFacts, PromisedIsTag, EveryPriorityHasAQueue DEF QueueOf, QueueIn

\* The conversions turn the frame of one place into that of the next.
LEMMA Conversions ==
  ASSUME NEW f \in FrameType, NEW v \in kMinValidVID .. kMaxValidVID
  PROVE  /\ Encapsulate(f) \in FrameType /\ Encapsulate(f).id = f.id
         /\ Encapsulate(f).req = NoTag
         /\ f.req # NoTag => Encapsulate(f).header = f.req
         /\ Decapsulate(f, v) \in FrameType /\ Decapsulate(f, v).id = f.id
         /\ f.header = NoTag => Decapsulate(f, v).ind = DefaultTag(v)
         /\ f.header # NoTag =>
              Decapsulate(f, v).ind = [f.header EXCEPT !.vid = ValidVid(@, v)]
         /\ SwitchTag(f) \in FrameType /\ SwitchTag(f).id = f.id
         /\ SwitchTag(f).req = f.ind
  <1>1. NoTag \in TagOrNone
    BY DEF TagOrNone
  <1>2. /\ Encapsulate(f) \in FrameType /\ Encapsulate(f).id = f.id
        /\ Encapsulate(f).req = NoTag
        /\ f.req # NoTag => Encapsulate(f).header = f.req
    BY <1>1 DEF FrameType, Encapsulate
  <1>3. SwitchTag(f) \in FrameType /\ SwitchTag(f).id = f.id /\ SwitchTag(f).req = f.ind
    BY <1>1 DEF FrameType, SwitchTag
  <1> DEFINE d == IF f.header = NoTag THEN DefaultTag(v)
                  ELSE [f.header EXCEPT !.vid = ValidVid(@, v)]
  <1>4. d \in TagOrNone
    <2>1. v \in Short
      BY Vids
    <2>2. DefaultTag(v) \in Tag
      BY <2>1, NoPriority DEF DefaultTag
    <2>3. ASSUME f.header # NoTag
          PROVE  [f.header EXCEPT !.vid = ValidVid(@, v)] \in Tag
      <3>1. f.header \in Tag
        BY <2>3 DEF FrameType, TagOrNone
      <3>2. ValidVid(f.header.vid, v) \in Short
        BY <3>1, ValidVidOfTag
      <3>3. QED
        BY <3>1, <3>2, TagWithVid
    <2>4. QED
      BY <2>2, <2>3 DEF TagOrNone
  <1>5. Decapsulate(f, v) = [f EXCEPT !.header = NoTag, !.ind = d]
    BY DEF Decapsulate
  <1> HIDE DEF d
  <1>6. /\ Decapsulate(f, v) \in FrameType /\ Decapsulate(f, v).id = f.id
        /\ Decapsulate(f, v).ind = d
    BY <1>1, <1>4, <1>5 DEF FrameType
  <1>7. QED
    BY <1>2, <1>3, <1>6 DEF d

\* Where a frame enters the network its tag becomes what is promised,
LEMMA EntersWithItsTag ==
  ASSUME path \in Paths, NEW f \in FrameType, f.header = sent[f.id]
  PROVE  Decapsulate(f, path.hops[1].pvid).ind = Promised(f.id)
  <1> DEFINE v == path.hops[1].pvid
             none == [pcp |-> 0, de |-> FALSE, vid |-> 0]
  <1>1. v \in kMinValidVID .. kMaxValidVID
    BY PathFacts, Zenon
  <1>2. v \in Short /\ 0 \in Short
    BY <1>1, Vids
  <1>3. CASE f.header = NoTag
    <2>1. Promised(f.id) = [none EXCEPT !.vid = IF @ >= 1 /\ @ <= 4094 THEN @ ELSE v]
      BY <1>3 DEF Promised
    <2>2. Promised(f.id) = [none EXCEPT !.vid = v]
      BY <2>1
    <2>3. Promised(f.id) = DefaultTag(v)
      BY <2>2 DEF DefaultTag
    <2> HIDE DEF v
    <2>4. QED
      BY <1>1, <1>3, <2>3, Conversions DEF v
  <1>4. CASE f.header # NoTag
    <2>1. Promised(f.id) = [f.header EXCEPT !.vid = IF @ >= 1 /\ @ <= 4094 THEN @ ELSE v]
      BY <1>4 DEF Promised
    <2>2. f.header \in Tag
      BY <1>4 DEF FrameType, TagOrNone
    <2> HIDE DEF v
    <2>3. ValidVid(f.header.vid, v) =
            IF f.header.vid >= 1 /\ f.header.vid <= 4094 THEN f.header.vid ELSE v
      BY <1>1, <2>2, ValidVidOfTag
    <2>4. Promised(f.id) = [f.header EXCEPT !.vid = ValidVid(@, v)]
      BY <2>1, <2>3
    <2>5. QED
      BY <1>1, <1>4, <2>4, Conversions DEF v
  <1>5. QED
    BY <1>3, <1>4

\* and stays that.
LEMMA KeepsItsTag ==
  ASSUME path \in Paths, NEW f \in FrameType, f.header = Promised(f.id),
         sent[f.id] \in TagOrNone, NEW v \in kMinValidVID .. kMaxValidVID
  PROVE  Decapsulate(f, v).ind = Promised(f.id)
  <1> DEFINE t == Promised(f.id)
  <1>1. t \in Tag /\ t # NoTag /\ t.vid \in kMinValidVID .. kMaxValidVID
    BY PromisedIsTag
  <1>2. t.vid \in Short /\ ValidVid(t.vid, v) = t.vid
    BY <1>1, Vids, ValidVidOfTag
  <1> HIDE DEF t
  <1>3. [t EXCEPT !.vid = ValidVid(@, v)] = t
    BY <1>1, <1>2, TagWithVid
  <1>4. f.header = t
    BY DEF t
  <1>5. QED
    BY <1>1, <1>3, <1>4, Conversions DEF t

-----------------------------------------------------------------------------
(* Lines *)

LEMMA TailLine ==
  ASSUME NEW S \in SUBSET FrameType, NEW s \in Seq(S), s # <<>>, InLine(s)
  PROVE  /\ Head(s) \in S /\ Tail(s) \in Seq(S) /\ InLine(Tail(s))
         /\ IsIn(s, Head(s).id)
         /\ \A id : IsIn(Tail(s), id) =>
              /\ IsIn(s, id)
              /\ Same(Head(s).id, id) => id > Head(s).id
  <1>1. /\ Len(s) \in Nat /\ 1 \in 1 .. Len(s) /\ Head(s) = s[1] /\ Head(s) \in S
        /\ Tail(s) \in Seq(S) /\ Len(Tail(s)) = Len(s) - 1
        /\ \A i \in 1 .. Len(s) - 1 : Tail(s)[i] = s[i + 1] /\ i + 1 \in 1 .. Len(s)
    OBVIOUS
  <1> DEFINE r == Tail(s)
  <1> HIDE DEF r
  <1>2. \A i \in 1 .. Len(r) : r[i] = s[i + 1] /\ i + 1 \in 1 .. Len(s) /\ 1 < i + 1
    BY <1>1 DEF r
  <1>3. \A i \in 1 .. Len(s) : s[i].id \in Nat
    <2>1. \A i \in 1 .. Len(s) : s[i] \in FrameType
      BY <1>1
    <2>2. QED
      BY <2>1 DEF FrameType
  <1>4. InLine(r)
    <2>1. SUFFICES ASSUME NEW i \in 1 .. Len(r), NEW j \in 1 .. Len(r), i < j,
                          Same(r[i].id, r[j].id)
                   PROVE  r[i].id < r[j].id
      BY DEF InLine
    <2>2. i + 1 < j + 1
      BY <1>1, <2>1 DEF r
    <2>3. QED
      BY <1>2, <2>1, <2>2 DEF InLine
  <1>5. ASSUME NEW id, IsIn(r, id)
        PROVE  IsIn(s, id) /\ (Same(Head(s).id, id) => id > Head(s).id)
    <2>1. PICK i \in 1 .. Len(r) : r[i].id = id
      BY <1>5 DEF IsIn
    <2>2. i + 1 \in 1 .. Len(s) /\ s[i + 1].id = id /\ 1 < i + 1
      BY <1>2, <2>1
    <2>3. Same(s[1].id, s[i + 1].id) => s[1].id < s[i + 1].id
      BY <1>1, <2>2 DEF InLine
    <2>4. QED
      BY <1>1, <1>3, <2>2, <2>3 DEF IsIn
  <1>6. QED
    BY <1>1, <1>4, <1>5 DEF IsIn, r

LEMMA AppendLine ==
  ASSUME NEW S \in SUBSET FrameType, NEW s \in Seq(S), InLine(s), NEW f \in S,
         \A id : IsIn(s, id) /\ Same(f.id, id) => id < f.id
  PROVE  /\ Append(s, f) \in Seq(S) /\ InLine(Append(s, f))
         /\ \A id : IsIn(Append(s, f), id) => IsIn(s, id) \/ id = f.id
  <1> DEFINE r == Append(s, f)
  <1>1. /\ Len(s) \in Nat /\ r \in Seq(S) /\ Len(r) = Len(s) + 1
        /\ \A i \in 1 .. Len(s) : r[i] = s[i]
        /\ r[Len(s) + 1] = f
    OBVIOUS
  <1> HIDE DEF r
  <1>2. \A i \in 1 .. Len(r) : i \in 1 .. Len(s) \/ i = Len(s) + 1
    BY <1>1
  <1>3. InLine(r)
    <2>1. SUFFICES ASSUME NEW i \in 1 .. Len(r), NEW j \in 1 .. Len(r), i < j,
                          Same(r[i].id, r[j].id)
                   PROVE  r[i].id < r[j].id
      BY DEF InLine
    <2>2. i \in 1 .. Len(s) /\ r[i] = s[i]
      BY <1>1, <2>1
    <2>3. CASE j \in 1 .. Len(s)
      BY <1>1, <2>1, <2>2, <2>3 DEF InLine
    <2>4. CASE j = Len(s) + 1
      <3>1. IsIn(s, s[i].id) /\ Same(f.id, s[i].id)
        BY <1>1, <2>1, <2>2, <2>4 DEF IsIn, Same
      <3>2. QED
        BY <1>1, <2>2, <2>4, <3>1
    <2>5. QED
      BY <1>2, <2>3, <2>4
  <1>4. \A id : IsIn(r, id) => IsIn(s, id) \/ id = f.id
    BY <1>1, <1>2 DEF IsIn
  <1>5. QED
    BY <1>1, <1>3, <1>4 DEF r

\* An express frame goes before the frame that it interrupts, which has another
\* priority, or takes the place of an earlier one there.
LEMMA PlacedLine ==
  ASSUME NEW S \in SUBSET FrameType, NEW s \in Seq(S), InLine(s), NEW f \in S,
         \A id : IsIn(s, id) /\ Same(f.id, id) => id < f.id,
         \A g \in S : Same(f.id, g.id) => (f.cut <=> g.cut),
         NEW r \in Placements(s, f)
  PROVE  /\ r \in Seq(S) /\ InLine(r)
         /\ \A id : IsIn(r, id) => IsIn(s, id) \/ id = f.id
  <1>1. CASE r = Append(s, f)
    BY <1>1, AppendLine
  <1> DEFINE n == Len(s)
  <1>2. CASE n > 0 /\ ~f.cut /\ s[n].cut /\ r = Append(SubSeq(s, 1, n - 1), f) \o <<s[n]>>
    <2>1. /\ n \in Nat /\ n > 0 /\ ~f.cut /\ s[n].cut
          /\ r = Append(SubSeq(s, 1, n - 1), f) \o <<s[n]>>
      BY <1>2
    <2>2. s[n] \in S /\ n \in 1 .. n
      BY <2>1
    <2>3. /\ SubSeq(s, 1, n - 1) \in Seq(S) /\ Len(SubSeq(s, 1, n - 1)) = n - 1
          /\ \A i \in 1 .. n - 1 : SubSeq(s, 1, n - 1)[i] = s[i]
      <3>1. 1 \in Int /\ n - 1 \in Int /\ \A i \in 1 .. n - 1 : i \in 1 .. Len(s) /\ s[i] \in S
        BY <2>1
      <3>2. QED
        BY <2>1, <3>1, SubSeqProperties
    <2> DEFINE q == SubSeq(s, 1, n - 1)
               a == Append(q, f)
    <2>4. q \in Seq(S) /\ Len(q) = n - 1 /\ \A i \in 1 .. n - 1 : q[i] = s[i]
      BY <2>3
    <2> HIDE DEF q
    <2>5. /\ a \in Seq(S) /\ Len(a) = n
          /\ \A i \in 1 .. n - 1 : a[i] = s[i]
          /\ a[n] = f
      BY <2>1, <2>4
    <2> HIDE DEF a, n
    <2>6. r = a \o <<s[n]>>
      BY <2>1 DEF a, q, n
    <2>7. /\ r \in Seq(S) /\ Len(r) = n + 1
          /\ \A i \in 1 .. n : r[i] = a[i]
          /\ r[n + 1] = s[n]
      BY <2>1, <2>2, <2>5, <2>6
    <2>8. /\ \A i \in 1 .. n - 1 : r[i] = s[i]
          /\ r[n] = f /\ r[n + 1] = s[n]
      BY <2>1, <2>5, <2>7
    <2>9. \A i \in 1 .. Len(r) : i \in 1 .. n - 1 \/ i = n \/ i = n + 1
      BY <2>1, <2>7
    <2>10. ~Same(f.id, s[n].id)
      BY <2>1, <2>2
    <2>11. InLine(r)
      <3>1. SUFFICES ASSUME NEW i \in 1 .. Len(r), NEW j \in 1 .. Len(r), i < j,
                            Same(r[i].id, r[j].id)
                     PROVE  r[i].id < r[j].id
        BY DEF InLine
      <3>2. CASE j \in 1 .. n - 1
        <4>1. i \in 1 .. n /\ j \in 1 .. n /\ r[i] = s[i] /\ r[j] = s[j]
          BY <2>1, <2>8, <3>1, <3>2
        <4>2. QED
          BY <3>1, <4>1 DEF InLine, n
      <3>3. CASE j = n
        <4>1. i \in 1 .. n /\ r[i] = s[i] /\ r[j] = f
          BY <2>1, <2>8, <3>1, <3>3
        <4>2. IsIn(s, s[i].id) /\ Same(f.id, s[i].id)
          BY <3>1, <4>1 DEF IsIn, Same, n
        <4>3. QED
          BY <4>1, <4>2
      <3>4. CASE j = n + 1
        <4>1. r[j] = s[n] /\ i \in 1 .. n
          BY <2>1, <2>8, <3>1, <3>4
        <4>2. i # n
          BY <2>8, <2>10, <3>1, <4>1
        <4>3. r[i] = s[i] /\ i < n
          BY <2>1, <2>8, <4>1, <4>2
        <4>4. QED
          BY <2>2, <3>1, <4>1, <4>3 DEF InLine, n
      <3>5. QED
        BY <2>9, <3>2, <3>3, <3>4
    <2>12. ASSUME NEW id, IsIn(r, id) PROVE IsIn(s, id) \/ id = f.id
      <3>1. PICK i \in 1 .. Len(r) : r[i].id = id
        BY <2>12 DEF IsIn
      <3>2. CASE i \in 1 .. n - 1
        BY <2>1, <2>8, <3>1, <3>2 DEF IsIn, n
      <3>3. CASE i = n
        BY <2>8, <3>1, <3>3
      <3>4. CASE i = n + 1
        BY <2>2, <2>8, <3>1, <3>4 DEF IsIn, n
      <3>5. QED
        BY <2>9, <3>2, <3>3, <3>4
    <2>13. QED
      BY <2>7, <2>11, <2>12
  <1>3. CASE n > 1 /\ ~f.cut /\ s[n].cut /\ r = [s EXCEPT ![n - 1] = f]
    <2>1. n \in Nat /\ n - 1 \in 1 .. n /\ n \in 1 .. n /\ s[n] \in S
      BY <1>3
    <2>2. /\ r \in Seq(S) /\ Len(r) = n /\ r[n - 1] = f
          /\ \A i \in 1 .. n : i # n - 1 => r[i] = s[i]
      BY <1>3, <2>1
    <2>3. ~Same(f.id, s[n].id)
      BY <1>3, <2>1
    <2>4. ASSUME NEW i \in 1 .. Len(r), NEW j \in 1 .. Len(r), i < j,
                 Same(r[i].id, r[j].id)
          PROVE  r[i].id < r[j].id
      <3>1. i \in 1 .. n /\ j \in 1 .. n
        BY <2>2, <2>4
      <3> HIDE DEF n
      <3>2. CASE i # n - 1 /\ j # n - 1
        BY <2>2, <2>4, <3>1, <3>2 DEF InLine, n
      <3>3. CASE j = n - 1
        <4>1. i # n - 1 /\ r[i] = s[i] /\ r[j] = f
          BY <2>1, <2>2, <2>4, <3>1, <3>3
        <4>2. IsIn(s, s[i].id) /\ Same(f.id, s[i].id)
          BY <2>4, <3>1, <4>1 DEF IsIn, Same, n
        <4>3. QED
          BY <4>1, <4>2
      <3>4. CASE i = n - 1
        <4>1. j = n /\ r[i] = f /\ r[j] = s[n]
          BY <2>1, <2>2, <2>4, <3>1, <3>4
        <4>2. QED
          BY <2>3, <2>4, <4>1
      <3>5. QED
        BY <3>2, <3>3, <3>4
    <2>5. ASSUME NEW id, IsIn(r, id) PROVE IsIn(s, id) \/ id = f.id
      BY <2>2, <2>5 DEF IsIn
    <2>6. QED
      BY <2>2, <2>4, <2>5 DEF InLine
  <1>4. QED
    <2>1. \/ r = Append(s, f)
          \/ /\ n # 0 /\ ~f.cut /\ s[n].cut
             /\ \/ r = Append(SubSeq(s, 1, n - 1), f) \o <<s[n]>>
                \/ n # 1 /\ r = [s EXCEPT ![n - 1] = f]
      BY DEF Placements
    <2>2. n \in Nat
      OBVIOUS
    <2>3. QED
      BY <1>1, <1>2, <1>3, <2>1, <2>2

-----------------------------------------------------------------------------
(* One frame at a time *)

\* Nothing but sending changes what is promised.
LEMMA SamePromises ==
  ASSUME UNCHANGED <<path, sent>>
  PROVE  /\ Last' = Last /\ Hops' = Hops
         /\ \A h, q : QueueFrames(h, q)' = QueueFrames(h, q)
         /\ \A h : LinkFrames(h)' = LinkFrames(h)
         /\ ReceivedFrames' = ReceivedFrames
         /\ \A i, j : Same(i, j)' <=> Same(i, j)
         /\ \A s : InLine(s)' <=> InLine(s)
  <1>1. Last' = Last /\ Hops' = Hops
    BY DEF Last, Hops
  <1>2. \A i : Promised(i)' = Promised(i)
    BY DEF Promised
  <1>3. SentIds' = SentIds
    BY DEF SentIds
  <1>4. \A h, q : QueueFrames(h, q)' = QueueFrames(h, q)
    BY <1>2, <1>3 DEF QueueFrames, QueueOf
  <1>5. \A h, i : IsCut(h, i)' <=> IsCut(h, i)
    BY <1>2 DEF IsCut, QueueOf
  <1>6. \A h : LinkFrames(h)' = LinkFrames(h)
    BY <1>2, <1>3, <1>5 DEF LinkFrames
  <1>7. ReceivedFrames' = ReceivedFrames
    BY <1>2, <1>3 DEF ReceivedFrames
  <1>8. \A i, j : Same(i, j)' <=> Same(i, j)
    BY <1>2 DEF Same
  <1>9. \A s : InLine(s)' <=> InLine(s)
    BY <1>8 DEF InLine
  <1>10. QED
    BY <1>1, <1>4, <1>6, <1>7, <1>8, <1>9

LEMMA PlacesNow ==
  ASSUME UNCHANGED <<path, sent>>, NEW n, NEW j, IsAt(n, j)'
  PROVE  \/ \E g \in 1 .. Last : n = 2 * g - 1 /\ IsIn(wire'[g], j)
         \/ \E g \in Hops : n = 2 * g /\ \E r \in 0 .. path.hops[g].queues - 1 :
                                           IsIn(waiting'[g][r], j)
         \/ n = 2 * Last /\ IsIn(received', j)
  <1>1. Last' = Last /\ Hops' = Hops /\ path' = path
    BY SamePromises
  <1>2. QED
    BY <1>1, Zenon DEF IsAt, IsIn

\* The first frame of its priority at one place goes on to the next.
LEMMA Advance ==
  ASSUME OrderInv, UNCHANGED <<path, sent>>,
         NEW m \in Nat, NEW i \in Nat, IsAt(m, i),
         \A n, j \in Nat : IsAt(n, j)' => IsAt(n, j) \/ (n = m + 1 /\ j = i),
         \A j \in Nat : IsAt(m, j)' /\ Same(i, j) => j > i
  PROVE  OrderInv'
  <1>1. SUFFICES ASSUME NEW a \in Nat, NEW b \in Nat, NEW x \in Nat, NEW y \in Nat,
                        IsAt(a, x)', IsAt(b, y)', a < b, Same(x, y)
                 PROVE  x > y
    BY SamePromises DEF OrderInv
  <1>2. Same(y, x)
    BY <1>1 DEF Same
  <1>3. CASE IsAt(a, x) /\ IsAt(b, y)
    BY <1>1, <1>3 DEF OrderInv
  <1>4. CASE a = m + 1 /\ x = i /\ IsAt(b, y)
    BY <1>1, <1>4 DEF OrderInv
  <1>5. CASE b = m + 1 /\ y = i /\ IsAt(a, x)
    <2>1. CASE a < m
      BY <1>1, <1>5, <2>1 DEF OrderInv
    <2>2. CASE a = m
      BY <1>1, <1>2, <1>5, <2>2
    <2>3. QED
      BY <1>1, <1>5, <2>1, <2>2
  <1>6. QED
    BY <1>1, <1>3, <1>4, <1>5

\* Without any frame that comes to a place the order stays.
LEMMA Removal ==
  ASSUME OrderInv, UNCHANGED <<path, sent>>,
         \A n, j \in Nat : IsAt(n, j)' => IsAt(n, j)
  PROVE  OrderInv'
  BY SamePromises DEF OrderInv

\* A queue of a port is replaced by another.
Replaces(h, q, s) == waiting' = [waiting EXCEPT ![h][q] = s]

LEMMA QueueUpdate ==
  ASSUME PlaceInv, UNCHANGED path, NEW h \in Hops,
         NEW q \in 0 .. path.hops[h].queues - 1, NEW s \in Seq(FrameType),
         Replaces(h, q, s)
  PROVE  /\ waiting' \in [Hops -> Boxes]
         /\ \A g \in Hops :
              waiting'[g] \in [0 .. path.hops[g].queues - 1 -> Seq(FrameType)]
         /\ waiting'[h][q] = s
         /\ \A g \in Hops : \A r \in 0 .. path.hops[g].queues - 1 :
              (g = h /\ r = q) \/ waiting'[g][r] = waiting[g][r]
  <1> DEFINE box == [waiting[h] EXCEPT ![q] = s]
             n == path.hops[h].queues
  <1>1. n \in 1 .. kNumberOfPCPValues
    BY PathFacts DEF PlaceInv
  <1>2. box \in [0 .. n - 1 -> Seq(FrameType)]
    BY DEF PlaceInv
  <1>3. box \in Boxes
    BY <1>1, <1>2 DEF Boxes
  <1>4. box[q] = s /\ \A r \in 0 .. n - 1 : r # q => box[r] = waiting[h][r]
    BY DEF PlaceInv
  <1>5. waiting' = [waiting EXCEPT ![h] = box]
    BY DEF Replaces
  <1>6. waiting \in [Hops -> Boxes]
    BY DEF PlaceInv
  <1> HIDE DEF box
  <1>7. waiting' \in [Hops -> Boxes]
    BY <1>3, <1>5, <1>6
  <1>8. waiting'[h] = box /\ \A g \in Hops : g # h => waiting'[g] = waiting[g]
    BY <1>5, <1>6
  <1>9. ASSUME NEW g \in Hops
        PROVE  waiting'[g] \in [0 .. path.hops[g].queues - 1 -> Seq(FrameType)]
    BY <1>2, <1>8 DEF PlaceInv
  <1>10. QED
    BY <1>4, <1>7, <1>8, <1>9

LEMMA SeqWidens ==
  ASSUME NEW S, NEW T, S \subseteq T, NEW s \in Seq(S)
  PROVE  s \in Seq(T)
  BY SeqDef

LEMMA FrameIds ==
  ASSUME PlaceInv
  PROVE  /\ \A h, q : \A f \in QueueFrames(h, q) : f.id \in Nat /\ sent[f.id] \in TagOrNone
         /\ \A h : \A f \in LinkFrames(h) : f.id \in Nat /\ sent[f.id] \in TagOrNone
         /\ \A f \in ReceivedFrames : f.id \in Nat /\ sent[f.id] \in TagOrNone
         /\ Len(sent) \in Nat
  <1>1. Len(sent) \in Nat /\ \A i \in SentIds : i \in Nat /\ sent[i] \in TagOrNone
    BY DEF PlaceInv, SentIds
  <1>2. QED
    BY <1>1 DEF QueueFrames, LinkFrames, ReceivedFrames

\* A frame that a queue has no room for leaves the others in order.
LEMMA DropStep ==
  ASSUME PathInv, NEW h \in Hops, Arrive(h), UNCHANGED waiting
  PROVE  PathInv'
  <1> DEFINE w == wire[h]
  <1>1. PlaceInv /\ LinesInv /\ OrderInv /\ path \in Paths
    BY DEF PathInv, PlaceInv
  <1>2. Last \in Nat /\ h \in 1 .. Last /\ Hops = 1 .. Last - 1
    BY <1>1, PathFacts
  <1>3. /\ w \in Seq(LinkFrames(h)) /\ w # <<>> /\ InLine(w)
        /\ LinkFrames(h) \in SUBSET FrameType
    BY <1>1, <1>2 DEF PlaceInv, LinesInv, LinkFrames, Arrive
  <1>4. /\ Tail(w) \in Seq(LinkFrames(h)) /\ InLine(Tail(w))
        /\ \A id : IsIn(Tail(w), id) => IsIn(w, id)
    BY <1>3, TailLine
  <1>5. wire' = [wire EXCEPT ![h] = Tail(w)] /\ UNCHANGED <<path, sent, waiting, received>>
    BY DEF Arrive
  <1>6. /\ wire' \in [1 .. Last -> Seq(FrameType)]
        /\ wire'[h] = Tail(w)
        /\ \A g \in 1 .. Last : g = h \/ wire'[g] = wire[g]
    <2>1. Tail(w) \in Seq(FrameType)
      BY <1>3, <1>4, SeqWidens
    <2>2. QED
      BY <1>1, <1>2, <1>5, <2>1 DEF PlaceInv
  <1> HIDE DEF w
  <1>7. PlaceInv'
    <2>1. \A g \in 1 .. Last : wire'[g] \in Seq(LinkFrames(g))
      BY <1>1, <1>4, <1>6 DEF PlaceInv
    <2>2. QED
      BY <1>1, <1>5, <1>6, <2>1, SamePromises DEF PlaceInv
  <1>8. LinesInv'
    <2>1. \A g \in 1 .. Last : InLine(wire'[g])
      BY <1>1, <1>4, <1>6 DEF LinesInv
    <2>2. QED
      BY <1>1, <1>5, <2>1, SamePromises DEF LinesInv
  <1>9. ASSUME NEW n \in Nat, NEW j \in Nat, IsAt(n, j)'
        PROVE  IsAt(n, j)
    <2>1. \A g \in 1 .. Last : IsIn(wire'[g], j) => IsIn(wire[g], j)
      BY <1>4, <1>6 DEF w
    <2>2. \/ \E g \in 1 .. Last : n = 2 * g - 1 /\ IsIn(wire'[g], j)
          \/ \E g \in Hops : n = 2 * g /\ \E r \in 0 .. path.hops[g].queues - 1 :
                                            IsIn(waiting[g][r], j)
          \/ n = 2 * Last /\ IsIn(received, j)
      BY <1>5, <1>9, PlacesNow
    <2>3. QED
      BY <2>1, <2>2 DEF IsAt
  <1>10. QED
    BY <1>1, <1>5, <1>7, <1>8, <1>9, Removal DEF PathInv

\* VLANEncap, the relay and QueuingFrames put a frame behind those of its
\* priority.
LEMMA EnqueueStep ==
  ASSUME PathInv, NEW h \in Hops, Arrive(h), waiting' # waiting
  PROVE  PathInv'
  <1> DEFINE f0 == Head(wire[h])
             hop == path.hops[h]
             f == SwitchTag(Decapsulate(f0, hop.pvid))
             q == QueueOf(hop, Promised(f0.id))
             s == waiting[h][q]
  <1>1. PlaceInv /\ LinesInv /\ OrderInv
    BY DEF PathInv
  <1>2. /\ Last \in Nat /\ h \in 1 .. Last /\ h \in Nat /\ hop.pvid \in kMinValidVID .. kMaxValidVID
        /\ path \in Paths /\ Hops = 1 .. Last - 1
    BY <1>1, PathFacts DEF PlaceInv
  <1>3. /\ wire[h] \in Seq(LinkFrames(h)) /\ wire[h] # <<>> /\ InLine(wire[h])
        /\ LinkFrames(h) \in SUBSET FrameType
    BY <1>1, <1>2 DEF PlaceInv, LinesInv, LinkFrames, Arrive
  <1>4. /\ f0 \in LinkFrames(h) /\ Tail(wire[h]) \in Seq(LinkFrames(h)) /\ InLine(Tail(wire[h]))
        /\ IsIn(wire[h], f0.id)
        /\ \A id : IsIn(Tail(wire[h]), id) =>
             IsIn(wire[h], id) /\ (Same(f0.id, id) => id > f0.id)
    BY <1>3, TailLine
  <1>5. /\ f0 \in FrameType /\ f0.id \in SentIds /\ f0.id \in Nat
        /\ sent[f0.id] \in TagOrNone
    BY <1>1, <1>4, FrameIds DEF LinkFrames
  <1>6. Decapsulate(f0, hop.pvid).ind = Promised(f0.id)
    <2> HIDE DEF f0
    <2>1. CASE h = 1
      BY <1>2, <1>4, <1>5, <2>1, EntersWithItsTag DEF LinkFrames
    <2>2. CASE h # 1
      <3>1. f0.header = Promised(f0.id)
        BY <1>2, <1>4, <2>2 DEF LinkFrames
      <3>2. QED
        BY <1>2, <1>5, <3>1, KeepsItsTag
    <2>3. QED
      BY <2>1, <2>2
  <1>7. f \in FrameType /\ f.id = f0.id /\ f.req = Promised(f0.id)
    <2> HIDE DEF f0, hop
    <2>1. Decapsulate(f0, hop.pvid) \in FrameType /\ Decapsulate(f0, hop.pvid).id = f0.id
      BY <1>2, <1>5, Conversions
    <2>2. \A d \in FrameType : /\ SwitchTag(d) \in FrameType /\ SwitchTag(d).id = d.id
                               /\ SwitchTag(d).req = d.ind
      BY <1>2, Conversions
    <2>3. QED
      BY <1>6, <2>1, <2>2
  <1>8. q \in 0 .. hop.queues - 1
    BY <1>2, <1>5, QueueExists
  <1>9. /\ wire' = [wire EXCEPT ![h] = Tail(wire[h])]
        /\ waiting' = [waiting EXCEPT ![h][q] = Append(s, f)]
        /\ UNCHANGED <<path, sent, received>>
    BY <1>7 DEF Arrive, Enqueue
  <1>10. /\ s \in Seq(QueueFrames(h, q)) /\ InLine(s)
         /\ QueueFrames(h, q) \in SUBSET FrameType
    BY <1>1, <1>8 DEF PlaceInv, LinesInv, QueueFrames
  <1>11. f \in QueueFrames(h, q)
    BY <1>5, <1>7 DEF QueueFrames
  <1> HIDE DEF f0, hop, f, q, s
  <1>12. IsAt(2 * h - 1, f0.id)
    BY <1>2, <1>4 DEF IsAt
  <1>13. \A id : IsIn(s, id) => IsAt(2 * h, id) /\ id \in Nat
    <2>1. \A id : IsIn(s, id) => IsAt(2 * h, id)
      BY <1>8 DEF IsAt, s, hop
    <2>2. \A i \in 1 .. Len(s) : s[i] \in QueueFrames(h, q)
      BY <1>10
    <2>3. QED
      BY <1>1, <2>1, <2>2, FrameIds DEF IsIn
  <1>14. \A id : IsIn(s, id) /\ Same(f.id, id) => id < f.id
    <2>1. 2 * h - 1 \in Nat /\ 2 * h \in Nat /\ 2 * h - 1 < 2 * h
      BY <1>2
    <2>2. QED
      BY <1>1, <1>5, <1>7, <1>12, <1>13, <2>1 DEF OrderInv
  <1>15. /\ Append(s, f) \in Seq(QueueFrames(h, q)) /\ InLine(Append(s, f))
         /\ \A id : IsIn(Append(s, f), id) => IsIn(s, id) \/ id = f.id
    BY <1>10, <1>11, <1>14, AppendLine
  <1>16. Append(s, f) \in Seq(FrameType) /\ Tail(wire[h]) \in Seq(FrameType)
    BY <1>3, <1>4, <1>10, <1>15, SeqWidens
  <1>17. /\ waiting' \in [Hops -> Boxes]
         /\ \A g \in Hops :
              waiting'[g] \in [0 .. path.hops[g].queues - 1 -> Seq(FrameType)]
         /\ waiting'[h][q] = Append(s, f)
         /\ \A g \in Hops : \A r \in 0 .. path.hops[g].queues - 1 :
              (g = h /\ r = q) \/ waiting'[g][r] = waiting[g][r]
    <2> DEFINE t == Append(s, f)
    <2> HIDE DEF t, q
    <2>1. /\ PlaceInv /\ q \in 0 .. path.hops[h].queues - 1 /\ UNCHANGED path
          /\ Replaces(h, q, t) /\ t \in Seq(FrameType)
      BY <1>1, <1>8, <1>9, <1>16 DEF hop, t, q, Replaces
    <2>2. /\ waiting' \in [Hops -> Boxes]
          /\ \A g \in Hops :
               waiting'[g] \in [0 .. path.hops[g].queues - 1 -> Seq(FrameType)]
          /\ waiting'[h][q] = t
          /\ \A g \in Hops : \A r \in 0 .. path.hops[g].queues - 1 :
               (g = h /\ r = q) \/ waiting'[g][r] = waiting[g][r]
      BY <2>1, QueueUpdate
    <2>3. QED
      BY <2>2 DEF t
  <1>18. /\ wire' \in [1 .. Last -> Seq(FrameType)]
         /\ wire'[h] = Tail(wire[h])
         /\ \A g \in 1 .. Last : g = h \/ wire'[g] = wire[g]
    BY <1>1, <1>2, <1>9, <1>16 DEF PlaceInv
  <1>19. PlaceInv'
    <2>1. \A g \in 1 .. Last : wire'[g] \in Seq(LinkFrames(g))
      BY <1>1, <1>4, <1>18 DEF PlaceInv
    <2>2. \A g \in Hops : \A r \in 0 .. path.hops[g].queues - 1 :
            waiting'[g][r] \in Seq(QueueFrames(g, r))
      BY <1>1, <1>15, <1>17 DEF PlaceInv
    <2>3. QED
      BY <1>1, <1>9, <1>17, <1>18, <2>1, <2>2, SamePromises DEF PlaceInv
  <1>20. LinesInv'
    <2>1. \A g \in 1 .. Last : InLine(wire'[g])
      BY <1>1, <1>4, <1>18 DEF LinesInv
    <2>2. \A g \in Hops : \A r \in 0 .. path.hops[g].queues - 1 : InLine(waiting'[g][r])
      BY <1>1, <1>15, <1>17 DEF LinesInv
    <2>3. QED
      BY <1>1, <1>9, <2>1, <2>2, SamePromises DEF LinesInv
  <1>21. ASSUME NEW n \in Nat, NEW j \in Nat, IsAt(n, j)'
         PROVE  /\ IsAt(n, j) \/ (n = (2 * h - 1) + 1 /\ j = f0.id)
                /\ n = 2 * h - 1 /\ Same(f0.id, j) => j > f0.id
    <2>1. CASE \E g \in 1 .. Last : n = 2 * g - 1 /\ IsIn(wire'[g], j)
      <3>1. PICK g \in 1 .. Last : n = 2 * g - 1 /\ IsIn(wire'[g], j)
        BY <2>1
      <3>2. IsIn(wire[g], j)
        BY <1>4, <1>18, <3>1
      <3>3. n = 2 * h - 1 => g = h
        BY <1>2, <3>1
      <3>4. QED
        BY <1>4, <1>18, <3>1, <3>2, <3>3 DEF IsAt
    <2>2. CASE \E g \in Hops : n = 2 * g /\ \E r \in 0 .. path.hops[g].queues - 1 :
                                              IsIn(waiting'[g][r], j)
      <3> PICK g \in Hops : n = 2 * g /\ \E r \in 0 .. path.hops[g].queues - 1 :
                                            IsIn(waiting'[g][r], j)
        BY <2>2
      <3>1. PICK r \in 0 .. path.hops[g].queues - 1 : n = 2 * g /\ IsIn(waiting'[g][r], j)
        OBVIOUS
      <3>2. n # 2 * h - 1
        BY <1>2, <3>1
      <3>3. CASE IsIn(waiting[g][r], j)
        BY <3>1, <3>2, <3>3 DEF IsAt
      <3>4. CASE ~IsIn(waiting[g][r], j)
        <4>1. g = h /\ r = q
          BY <1>17, <3>1, <3>4
        <4>2. j = f.id
          BY <1>15, <1>17, <3>1, <3>4, <4>1 DEF s
        <4>3. QED
          BY <1>2, <1>7, <3>1, <3>2, <4>1, <4>2
      <3>5. QED
        BY <3>3, <3>4
    <2>3. CASE n = 2 * Last /\ IsIn(received, j)
      BY <1>2, <2>3 DEF IsAt
    <2> HIDE DEF f0, f, hop, q, s
    <2>4. UNCHANGED <<Last, Hops, received>> /\ path' = path
      BY <1>9, SamePromises
    <2>5. QED
      BY <1>21, <2>1, <2>2, <2>3, <2>4 DEF IsAt, IsIn
  <1>22. OrderInv'
    <2>1. 2 * h - 1 \in Nat
      BY <1>2
    <2>2. QED
      BY <1>1, <1>5, <1>9, <1>12, <1>21, <2>1, Advance
  <1>23. QED
    BY <1>19, <1>20, <1>22 DEF PathInv

\* A frame of a port's queue, on the link behind.
OnTheLink(h, q, f, now) ==
  [Encapsulate(f) EXCEPT !.cut = path.hops[h].preempting /\ q \notin path.hops[h].express,
                         !.interrupts = now]

LEMMA SentFrame ==
  ASSUME PathInv, NEW h \in Hops, NEW q \in 0 .. path.hops[h].queues - 1,
         NEW f0 \in QueueFrames(h, q), NEW now \in BOOLEAN
  PROVE  /\ OnTheLink(h, q, f0, now) \in LinkFrames(h + 1)
         /\ OnTheLink(h, q, f0, now).id = f0.id
  <1> DEFINE f == OnTheLink(h, q, f0, now)
  <1>1. /\ f0 \in FrameType /\ f0.id \in SentIds /\ f0.req = Promised(f0.id)
        /\ QueueOf(path.hops[h], Promised(f0.id)) = q
        /\ sent[f0.id] \in TagOrNone /\ path \in Paths
    BY FrameIds DEF PathInv, PlaceInv, QueueFrames
  <1>2. Promised(f0.id) # NoTag /\ 1 \in kMinValidVID .. kMaxValidVID
    <2>1. Promised(f0.id) # NoTag
      BY <1>1, PromisedIsTag
    <2>2. QED
      BY <2>1 DEF kMinValidVID, kMaxValidVID
  <1>3. /\ Encapsulate(f0) \in FrameType /\ Encapsulate(f0).id = f0.id
        /\ Encapsulate(f0).req = NoTag /\ Encapsulate(f0).header = Promised(f0.id)
    BY <1>1, <1>2, Conversions
  <1> DEFINE e == Encapsulate(f0)
             c == path.hops[h].preempting /\ q \notin path.hops[h].express
  <1> HIDE DEF e
  <1>4. /\ f \in FrameType /\ f.id = e.id /\ f.req = e.req /\ f.header = e.header
        /\ f.cut <=> c
    BY <1>3 DEF FrameType, e, OnTheLink
  <1> HIDE DEF f
  <1>5. c <=> IsCut(h, f0.id)
    BY <1>1 DEF IsCut
  <1>6. (h + 1) - 1 = h /\ h + 1 > 1 /\ h + 1 # 1
    BY <1>1, PathFacts
  <1>7. /\ f \in FrameType /\ f.id = f0.id /\ f.id \in SentIds
        /\ f.req = NoTag /\ f.header = Promised(f.id)
    BY <1>1, <1>3, <1>4 DEF e
  <1>8. f.cut <=> IsCut((h + 1) - 1, f.id)
    BY <1>4, <1>5, <1>6, <1>7
  <1> HIDE DEF c
  <1>9. QED
    BY <1>6, <1>7, <1>8 DEF LinkFrames, f

\* TransmissionSelection sends the first frame of a queue, and the MAC puts it
\* behind those of its priority.
LEMMA TransmitStep ==
  ASSUME PathInv, NEW h \in Hops, NEW q \in DOMAIN waiting[h], Transmit(h, q)
  PROVE  PathInv'
  <1>0. PICK now \in BOOLEAN :
          \E link \in Placements(wire[h + 1], OnTheLink(h, q, Head(waiting[h][q]), now)) :
            wire' = [wire EXCEPT ![h + 1] = link]
    BY DEF Transmit, OnTheLink
  <1> DEFINE s == waiting[h][q]
             f0 == Head(s)
             f == OnTheLink(h, q, f0, now)
             w == wire[h + 1]
  <1>1. PlaceInv /\ LinesInv /\ OrderInv /\ path \in Paths
    BY DEF PathInv, PlaceInv
  <1>2. /\ Last \in Nat /\ h \in Nat /\ h + 1 \in 1 .. Last /\ h > 0 /\ h # Last
        /\ Hops = 1 .. Last - 1
    BY <1>1, PathFacts
  <1>3. q \in 0 .. path.hops[h].queues - 1
    BY <1>1 DEF PlaceInv
  <1>4. /\ s \in Seq(QueueFrames(h, q)) /\ s # <<>> /\ InLine(s)
        /\ QueueFrames(h, q) \in SUBSET FrameType
    BY <1>1, <1>3 DEF PlaceInv, LinesInv, QueueFrames, Transmit
  <1>5. /\ f0 \in QueueFrames(h, q) /\ Tail(s) \in Seq(QueueFrames(h, q)) /\ InLine(Tail(s))
        /\ IsIn(s, f0.id)
        /\ \A id : IsIn(Tail(s), id) => IsIn(s, id) /\ (Same(f0.id, id) => id > f0.id)
    BY <1>4, TailLine
  <1>6. f \in LinkFrames(h + 1) /\ f.id = f0.id /\ f0.id \in Nat
    <2> HIDE DEF f0
    <2>2. PathInv /\ f0 \in QueueFrames(h, q) /\ q \in 0 .. path.hops[h].queues - 1
      BY <1>3, <1>5
    <2>3. f \in LinkFrames(h + 1) /\ f.id = f0.id
      BY <2>2, SentFrame
    <2>4. QED
      BY <1>1, <2>2, <2>3, FrameIds
  <1>7. PICK link \in Placements(w, f) : wire' = [wire EXCEPT ![h + 1] = link]
    BY <1>0
  <1>8. waiting' = [waiting EXCEPT ![h][q] = Tail(s)] /\ UNCHANGED <<path, sent, received>>
    BY DEF Transmit
  <1> HIDE DEF f0, f
  <1>9. /\ w \in Seq(LinkFrames(h + 1)) /\ InLine(w)
        /\ LinkFrames(h + 1) \in SUBSET FrameType
    BY <1>1, <1>2 DEF PlaceInv, LinesInv, LinkFrames
  <1>10. IsAt(2 * h, f0.id)
    BY <1>3, <1>5 DEF IsAt
  <1>11. \A id : IsIn(w, id) => IsAt(2 * (h + 1) - 1, id) /\ id \in Nat
    <2>1. \A id : IsIn(w, id) => IsAt(2 * (h + 1) - 1, id)
      BY <1>2 DEF IsAt
    <2>2. \A i \in 1 .. Len(w) : w[i] \in LinkFrames(h + 1)
      BY <1>9
    <2>3. QED
      BY <1>1, <2>1, <2>2, FrameIds DEF IsIn
  <1>12. \A id : IsIn(w, id) /\ Same(f.id, id) => id < f.id
    <2>1. 2 * h \in Nat /\ 2 * (h + 1) - 1 \in Nat /\ 2 * h < 2 * (h + 1) - 1
      BY <1>2
    <2>2. QED
      BY <1>1, <1>6, <1>10, <1>11, <2>1 DEF OrderInv
  <1>13. \A g \in LinkFrames(h + 1) : Same(f.id, g.id) => (f.cut <=> g.cut)
    <2>1. (h + 1) - 1 = h /\ h + 1 > 1
      BY <1>2
    <2>2. \A g \in LinkFrames(h + 1) : g.cut <=> IsCut(h, g.id)
      BY <2>1 DEF LinkFrames
    <2>3. QED
      BY <1>6, <2>2 DEF IsCut, Same, QueueOf
  <1> HIDE DEF w
  <1>14. /\ link \in Seq(LinkFrames(h + 1)) /\ InLine(link)
         /\ \A id : IsIn(link, id) => IsIn(w, id) \/ id = f.id
    BY <1>6, <1>7, <1>9, <1>12, <1>13, PlacedLine
  <1>15. link \in Seq(FrameType) /\ Tail(s) \in Seq(FrameType)
    BY <1>4, <1>5, <1>9, <1>14, SeqWidens
  <1>16. /\ waiting' \in [Hops -> Boxes]
         /\ \A g \in Hops :
              waiting'[g] \in [0 .. path.hops[g].queues - 1 -> Seq(FrameType)]
         /\ waiting'[h][q] = Tail(s)
         /\ \A g \in Hops : \A r \in 0 .. path.hops[g].queues - 1 :
              (g = h /\ r = q) \/ waiting'[g][r] = waiting[g][r]
    <2> DEFINE t == Tail(s)
    <2> HIDE DEF t
    <2>1. /\ PlaceInv /\ q \in 0 .. path.hops[h].queues - 1 /\ UNCHANGED path
          /\ Replaces(h, q, t) /\ t \in Seq(FrameType)
      BY <1>1, <1>3, <1>8, <1>15 DEF t, Replaces
    <2>2. /\ waiting' \in [Hops -> Boxes]
          /\ \A g \in Hops :
               waiting'[g] \in [0 .. path.hops[g].queues - 1 -> Seq(FrameType)]
          /\ waiting'[h][q] = t
          /\ \A g \in Hops : \A r \in 0 .. path.hops[g].queues - 1 :
               (g = h /\ r = q) \/ waiting'[g][r] = waiting[g][r]
      BY <2>1, QueueUpdate
    <2>3. QED
      BY <2>2 DEF t
  <1>17. /\ wire' \in [1 .. Last -> Seq(FrameType)]
         /\ wire'[h + 1] = link
         /\ \A g \in 1 .. Last : g = h + 1 \/ wire'[g] = wire[g]
    BY <1>1, <1>2, <1>7, <1>15 DEF PlaceInv
  <1>18. PlaceInv'
    <2>1. \A g \in 1 .. Last : wire'[g] \in Seq(LinkFrames(g))
      BY <1>1, <1>14, <1>17 DEF PlaceInv
    <2>2. \A g \in Hops : \A r \in 0 .. path.hops[g].queues - 1 :
            waiting'[g][r] \in Seq(QueueFrames(g, r))
      BY <1>1, <1>5, <1>16 DEF PlaceInv
    <2>3. QED
      BY <1>1, <1>8, <1>16, <1>17, <2>1, <2>2, SamePromises DEF PlaceInv
  <1>19. LinesInv'
    <2>1. \A g \in 1 .. Last : InLine(wire'[g])
      BY <1>1, <1>14, <1>17 DEF LinesInv
    <2>2. \A g \in Hops : \A r \in 0 .. path.hops[g].queues - 1 : InLine(waiting'[g][r])
      BY <1>1, <1>5, <1>16 DEF LinesInv
    <2>3. QED
      BY <1>1, <1>8, <2>1, <2>2, SamePromises DEF LinesInv
  <1>20. ASSUME NEW n \in Nat, NEW j \in Nat, IsAt(n, j)'
         PROVE  /\ IsAt(n, j) \/ (n = 2 * h + 1 /\ j = f0.id)
                /\ n = 2 * h /\ Same(f0.id, j) => j > f0.id
    <2>1. CASE \E g \in 1 .. Last : n = 2 * g - 1 /\ IsIn(wire'[g], j)
      <3>1. PICK g \in 1 .. Last : n = 2 * g - 1 /\ IsIn(wire'[g], j)
        BY <2>1
      <3>2. n # 2 * h
        BY <1>2, <3>1
      <3>3. CASE IsIn(wire[g], j)
        BY <3>1, <3>2, <3>3 DEF IsAt
      <3>4. CASE ~IsIn(wire[g], j)
        <4>1. g = h + 1
          BY <1>17, <3>1, <3>4
        <4>2. j = f.id
          BY <1>14, <1>17, <3>1, <3>4, <4>1 DEF w
        <4>3. QED
          BY <1>2, <1>6, <3>1, <3>2, <4>1, <4>2
      <3>5. QED
        BY <3>3, <3>4
    <2>2. CASE \E g \in Hops : n = 2 * g /\ \E r \in 0 .. path.hops[g].queues - 1 :
                                              IsIn(waiting'[g][r], j)
      <3> PICK g \in Hops : n = 2 * g /\ \E r \in 0 .. path.hops[g].queues - 1 :
                                            IsIn(waiting'[g][r], j)
        BY <2>2
      <3>1. PICK r \in 0 .. path.hops[g].queues - 1 : n = 2 * g /\ IsIn(waiting'[g][r], j)
        OBVIOUS
      <3>2. IsIn(waiting[g][r], j)
        BY <1>5, <1>16, <3>1 DEF s
      <3>3. ASSUME n = 2 * h, Same(f0.id, j)
            PROVE  j > f0.id
        <4>1. g = h
          BY <1>2, <3>1, <3>3
        <4>2. CASE r = q
          BY <1>5, <1>16, <3>1, <3>3, <4>1, <4>2
        <4>3. CASE r # q
          <5>1. PICK i \in 1 .. Len(waiting[h][r]) : waiting[h][r][i].id = j
            BY <3>2, <4>1 DEF IsIn
          <5>2. waiting[h][r] \in Seq(QueueFrames(h, r))
            BY <1>1, <3>1, <4>1 DEF PlaceInv
          <5>3. waiting[h][r][i] \in QueueFrames(h, r)
            BY <5>1, <5>2
          <5>4. /\ QueueOf(path.hops[h], Promised(j)) = r
                /\ QueueOf(path.hops[h], Promised(f0.id)) = q
            BY <1>5, <5>1, <5>3 DEF QueueFrames
          <5>5. QED
            BY <3>3, <4>3, <5>4 DEF Same, QueueOf
        <4>4. QED
          BY <4>2, <4>3
      <3>4. QED
        BY <3>1, <3>2, <3>3 DEF IsAt
    <2>3. CASE n = 2 * Last /\ IsIn(received, j)
      BY <1>2, <2>3 DEF IsAt
    <2>4. UNCHANGED <<Last, Hops, received>> /\ path' = path
      BY <1>8, SamePromises
    <2> HIDE DEF f0, f, s, w
    <2>5. QED
      BY <1>20, <2>1, <2>2, <2>3, <2>4 DEF IsAt, IsIn
  <1>21. OrderInv'
    <2>1. 2 * h \in Nat
      BY <1>2
    <2>2. QED
      BY <1>1, <1>6, <1>8, <1>10, <1>20, <2>1, Advance
  <1>22. QED
    BY <1>18, <1>19, <1>21 DEF PathInv

\* A frame that goes to the sink of a plain port leaves the others in order.
LEMMA DiscardStep ==
  ASSUME PathInv, NEW h \in Hops, NEW q \in DOMAIN waiting[h], Discard(h, q)
  PROVE  PathInv'
  <1> DEFINE s == waiting[h][q]
  <1>1. PlaceInv /\ LinesInv /\ OrderInv /\ path \in Paths
    BY DEF PathInv, PlaceInv
  <1>2. q \in 0 .. path.hops[h].queues - 1
    BY <1>1 DEF PlaceInv
  <1>3. /\ s \in Seq(QueueFrames(h, q)) /\ s # <<>> /\ InLine(s)
        /\ QueueFrames(h, q) \in SUBSET FrameType
    BY <1>1, <1>2 DEF PlaceInv, LinesInv, QueueFrames, Discard
  <1>4. /\ Tail(s) \in Seq(QueueFrames(h, q)) /\ InLine(Tail(s))
        /\ \A id : IsIn(Tail(s), id) => IsIn(s, id)
    BY <1>3, TailLine
  <1>5. /\ waiting' = [waiting EXCEPT ![h][q] = Tail(s)]
        /\ UNCHANGED <<path, sent, received, wire>>
    BY DEF Discard
  <1>6. Tail(s) \in Seq(FrameType)
    BY <1>3, <1>4, SeqWidens
  <1>7. /\ waiting' \in [Hops -> Boxes]
        /\ \A g \in Hops :
             waiting'[g] \in [0 .. path.hops[g].queues - 1 -> Seq(FrameType)]
        /\ waiting'[h][q] = Tail(s)
        /\ \A g \in Hops : \A r \in 0 .. path.hops[g].queues - 1 :
             (g = h /\ r = q) \/ waiting'[g][r] = waiting[g][r]
    <2> DEFINE t == Tail(s)
    <2> HIDE DEF t
    <2>1. /\ PlaceInv /\ q \in 0 .. path.hops[h].queues - 1 /\ UNCHANGED path
          /\ Replaces(h, q, t) /\ t \in Seq(FrameType)
      BY <1>1, <1>2, <1>5, <1>6 DEF t, Replaces
    <2>2. /\ waiting' \in [Hops -> Boxes]
          /\ \A g \in Hops :
               waiting'[g] \in [0 .. path.hops[g].queues - 1 -> Seq(FrameType)]
          /\ waiting'[h][q] = t
          /\ \A g \in Hops : \A r \in 0 .. path.hops[g].queues - 1 :
               (g = h /\ r = q) \/ waiting'[g][r] = waiting[g][r]
      BY <2>1, QueueUpdate
    <2>3. QED
      BY <2>2 DEF t
  <1> HIDE DEF s
  <1>8. PlaceInv'
    <2>1. \A g \in Hops : \A r \in 0 .. path.hops[g].queues - 1 :
            waiting'[g][r] \in Seq(QueueFrames(g, r))
      BY <1>1, <1>4, <1>7 DEF PlaceInv
    <2>2. QED
      BY <1>1, <1>5, <1>7, <2>1, SamePromises DEF PlaceInv
  <1>9. LinesInv'
    <2>1. \A g \in Hops : \A r \in 0 .. path.hops[g].queues - 1 : InLine(waiting'[g][r])
      BY <1>1, <1>4, <1>7 DEF LinesInv
    <2>2. QED
      BY <1>1, <1>5, <2>1, SamePromises DEF LinesInv
  <1>10. ASSUME NEW n \in Nat, NEW j \in Nat, IsAt(n, j)'
         PROVE  IsAt(n, j)
    <2>1. \A g \in Hops : \A r \in 0 .. path.hops[g].queues - 1 :
            IsIn(waiting'[g][r], j) => IsIn(waiting[g][r], j)
      BY <1>4, <1>7 DEF s
    <2>2. \/ \E g \in 1 .. Last : n = 2 * g - 1 /\ IsIn(wire[g], j)
          \/ \E g \in Hops : n = 2 * g /\ \E r \in 0 .. path.hops[g].queues - 1 :
                                            IsIn(waiting'[g][r], j)
          \/ n = 2 * Last /\ IsIn(received, j)
      BY <1>5, <1>10, PlacesNow
    <2>3. QED
      BY <2>1, <2>2 DEF IsAt
  <1>11. QED
    BY <1>1, <1>5, <1>8, <1>9, <1>10, Removal DEF PathInv

\* The application gets the frames of a priority in their order.
LEMMA ReceiveStep ==
  ASSUME PathInv, Receive
  PROVE  PathInv'
  <1> DEFINE w == wire[Last]
             f0 == Head(w)
             f == Decapsulate(f0, path.pvid)
  <1>1. PlaceInv /\ LinesInv /\ OrderInv /\ path \in Paths
    BY DEF PathInv, PlaceInv
  <1>2. /\ Last \in Nat /\ Last > 1 /\ Last \in 1 .. Last /\ Hops = 1 .. Last - 1
        /\ path.pvid \in kMinValidVID .. kMaxValidVID
    BY <1>1, PathFacts
  <1>3. /\ w \in Seq(LinkFrames(Last)) /\ w # <<>> /\ InLine(w)
        /\ LinkFrames(Last) \in SUBSET FrameType
    BY <1>1, <1>2 DEF PlaceInv, LinesInv, LinkFrames, Receive
  <1>4. /\ f0 \in LinkFrames(Last) /\ Tail(w) \in Seq(LinkFrames(Last)) /\ InLine(Tail(w))
        /\ IsIn(w, f0.id)
        /\ \A id : IsIn(Tail(w), id) => IsIn(w, id) /\ (Same(f0.id, id) => id > f0.id)
    BY <1>3, TailLine
  <1>5. /\ f0 \in FrameType /\ f0.id \in SentIds /\ f0.id \in Nat
        /\ sent[f0.id] \in TagOrNone /\ f0.header = Promised(f0.id)
    BY <1>1, <1>2, <1>4, FrameIds DEF LinkFrames
  <1>6. received' = Append(received, f) /\ wire' = [wire EXCEPT ![Last] = Tail(w)]
        /\ UNCHANGED <<path, sent, waiting>>
    BY DEF Receive
  <1> HIDE DEF f0
  <1>7. f \in ReceivedFrames /\ f.id = f0.id
    <2>1. f \in FrameType /\ f.id = f0.id
      BY <1>2, <1>5, Conversions
    <2>2. f.ind = Promised(f0.id)
      BY <1>1, <1>2, <1>5, KeepsItsTag
    <2>3. QED
      BY <1>5, <2>1, <2>2 DEF ReceivedFrames
  <1> HIDE DEF f, w
  <1>8. received \in Seq(ReceivedFrames) /\ InLine(received)
        /\ ReceivedFrames \in SUBSET FrameType
    BY <1>1 DEF PlaceInv, LinesInv, ReceivedFrames
  <1>9. IsAt(2 * Last - 1, f0.id)
    BY <1>2, <1>4 DEF IsAt, w
  <1>10. \A id : IsIn(received, id) => IsAt(2 * Last, id) /\ id \in Nat
    <2>1. \A i \in 1 .. Len(received) : received[i] \in ReceivedFrames
      BY <1>8
    <2>2. QED
      BY <1>1, <2>1, FrameIds DEF IsIn, IsAt
  <1>11. \A id : IsIn(received, id) /\ Same(f.id, id) => id < f.id
    <2>1. 2 * Last \in Nat /\ 2 * Last - 1 \in Nat /\ 2 * Last - 1 < 2 * Last
      BY <1>2
    <2>2. QED
      BY <1>1, <1>5, <1>7, <1>9, <1>10, <2>1 DEF OrderInv
  <1>12. /\ received' \in Seq(ReceivedFrames) /\ InLine(received')
         /\ \A id : IsIn(received', id) => IsIn(received, id) \/ id = f.id
    BY <1>6, <1>7, <1>8, <1>11, AppendLine
  <1>13. /\ wire' \in [1 .. Last -> Seq(FrameType)]
         /\ wire'[Last] = Tail(w)
         /\ \A g \in 1 .. Last : g = Last \/ wire'[g] = wire[g]
    <2>1. Tail(w) \in Seq(FrameType)
      BY <1>3, <1>4, SeqWidens
    <2>2. QED
      BY <1>1, <1>2, <1>6, <2>1 DEF PlaceInv
  <1>14. PlaceInv'
    <2>1. \A g \in 1 .. Last : wire'[g] \in Seq(LinkFrames(g))
      BY <1>1, <1>4, <1>13 DEF PlaceInv
    <2>2. QED
      BY <1>1, <1>6, <1>12, <1>13, <2>1, SamePromises DEF PlaceInv
  <1>15. LinesInv'
    <2>1. \A g \in 1 .. Last : InLine(wire'[g])
      BY <1>1, <1>4, <1>13 DEF LinesInv
    <2>2. QED
      BY <1>1, <1>6, <1>12, <2>1, SamePromises DEF LinesInv
  <1>16. ASSUME NEW n \in Nat, NEW j \in Nat, IsAt(n, j)'
         PROVE  /\ IsAt(n, j) \/ (n = (2 * Last - 1) + 1 /\ j = f0.id)
                /\ n = 2 * Last - 1 /\ Same(f0.id, j) => j > f0.id
    <2>1. CASE \E g \in 1 .. Last : n = 2 * g - 1 /\ IsIn(wire'[g], j)
      <3>1. PICK g \in 1 .. Last : n = 2 * g - 1 /\ IsIn(wire'[g], j)
        BY <2>1
      <3>2. IsIn(wire[g], j)
        BY <1>4, <1>13, <3>1 DEF w
      <3>3. n = 2 * Last - 1 => g = Last
        BY <1>2, <3>1
      <3>4. QED
        BY <1>4, <1>13, <3>1, <3>2, <3>3 DEF IsAt
    <2>2. CASE \E g \in Hops : n = 2 * g /\ \E r \in 0 .. path.hops[g].queues - 1 :
                                              IsIn(waiting[g][r], j)
      <3>1. n # 2 * Last - 1
        BY <1>2, <2>2
      <3>2. QED
        BY <2>2, <3>1 DEF IsAt
    <2>3. CASE n = 2 * Last /\ IsIn(received', j)
      <3>1. n = (2 * Last - 1) + 1 /\ n # 2 * Last - 1
        BY <1>2, <2>3
      <3>2. QED
        BY <1>7, <1>12, <2>3, <3>1 DEF IsAt
    <2>4. UNCHANGED <<Last, Hops, waiting>> /\ path' = path
      BY <1>6, SamePromises
    <2> HIDE DEF f0, f, w
    <2>5. QED
      BY <1>16, <2>1, <2>2, <2>3, <2>4 DEF IsAt, IsIn
  <1>17. OrderInv'
    <2>1. 2 * Last - 1 \in Nat
      BY <1>2
    <2>2. QED
      BY <1>1, <1>5, <1>6, <1>9, <1>16, <2>1, Advance
  <1>18. QED
    BY <1>14, <1>15, <1>17 DEF PathInv

-----------------------------------------------------------------------------
(* A host sends *)

\* What was promised stays promised.
LEMMA OldPromises ==
  ASSUME PlaceInv, NEW tags \in Seq(TagOrNone), sent' = sent \o tags, UNCHANGED path
  PROVE  /\ sent' \in Seq(TagOrNone) /\ Len(sent') = Len(sent) + Len(tags)
         /\ SentIds \subseteq SentIds'
         /\ \A i \in SentIds : sent'[i] = sent[i] /\ Promised(i)' = Promised(i)
         /\ \A i \in 1 .. Len(tags) : /\ Len(sent) + i \in SentIds'
                                      /\ sent'[Len(sent) + i] = tags[i]
  <1>1. sent \in Seq(TagOrNone) /\ Len(sent) \in Nat /\ Len(tags) \in Nat
    BY DEF PlaceInv
  <1>2. /\ sent' \in Seq(TagOrNone) /\ Len(sent') = Len(sent) + Len(tags)
        /\ \A i \in 1 .. Len(sent) : sent'[i] = sent[i]
        /\ \A i \in 1 .. Len(tags) : sent'[Len(sent) + i] = tags[i]
    BY <1>1
  <1>3. SentIds = 1 .. Len(sent) /\ SentIds' = 1 .. Len(sent')
    BY DEF SentIds
  <1>4. \A i \in SentIds : sent'[i] = sent[i]
    BY <1>2, <1>3
  <1>5. \A i \in SentIds : Promised(i)' = Promised(i)
    <2>1. SUFFICES ASSUME NEW i \in SentIds PROVE Promised(i)' = Promised(i)
      OBVIOUS
    <2>2. PICK t : t = sent[i]
      OBVIOUS
    <2>3. sent'[i] = t
      BY <1>4, <2>2
    <2> DEFINE tag == IF t = NoTag THEN [pcp |-> 0, de |-> FALSE, vid |-> 0] ELSE t
    <2>4. Promised(i) = [tag EXCEPT !.vid = IF @ >= 1 /\ @ <= 4094 THEN @ ELSE path.hops[1].pvid]
      BY <2>2 DEF Promised
    <2>5. Promised(i)' = [tag EXCEPT !.vid = IF @ >= 1 /\ @ <= 4094 THEN @ ELSE path.hops[1].pvid]
      BY <2>3 DEF Promised
    <2>6. QED
      BY <2>4, <2>5
  <1>6. SentIds \subseteq SentIds' /\ \A i \in 1 .. Len(tags) : Len(sent) + i \in SentIds'
    BY <1>1, <1>2, <1>3
  <1>7. QED
    BY <1>2, <1>4, <1>5, <1>6

\* All frames stay what they were.
LEMMA OldFrames ==
  ASSUME PlaceInv, NEW tags \in Seq(TagOrNone), sent' = sent \o tags, UNCHANGED path
  PROVE  /\ \A h, q : QueueFrames(h, q) \subseteq QueueFrames(h, q)'
         /\ \A h : LinkFrames(h) \subseteq LinkFrames(h)'
         /\ ReceivedFrames \subseteq ReceivedFrames'
         /\ \A i, j \in SentIds : Same(i, j)' <=> Same(i, j)
         /\ Last' = Last /\ Hops' = Hops
  <1>1. /\ SentIds \subseteq SentIds'
        /\ \A i \in SentIds : sent'[i] = sent[i] /\ Promised(i)' = Promised(i)
    BY OldPromises
  <1>2. \A h, q : QueueFrames(h, q) \subseteq QueueFrames(h, q)'
    BY <1>1 DEF QueueFrames, QueueOf
  <1>3. \A h : \A i \in SentIds : IsCut(h, i)' <=> IsCut(h, i)
    BY <1>1 DEF IsCut, QueueOf
  <1>4. \A h : LinkFrames(h) \subseteq LinkFrames(h)'
    BY <1>1, <1>3 DEF LinkFrames
  <1>5. ReceivedFrames \subseteq ReceivedFrames'
    BY <1>1 DEF ReceivedFrames
  <1>6. \A i, j \in SentIds : Same(i, j)' <=> Same(i, j)
    BY <1>1 DEF Same
  <1>7. Last' = Last /\ Hops' = Hops
    BY DEF Last, Hops
  <1>8. QED
    BY <1>2, <1>4, <1>5, <1>6, <1>7

\* A line of old frames stays in line.
LEMMA OldLine ==
  ASSUME PlaceInv, NEW tags \in Seq(TagOrNone), sent' = sent \o tags, UNCHANGED path
  PROVE  \A s : InLine(s) /\ (\A i \in 1 .. Len(s) : s[i].id \in SentIds) => InLine(s)'
  <1>1. \A i, j \in SentIds : Same(i, j)' <=> Same(i, j)
    BY OldFrames
  <1>2. QED
    BY <1>1 DEF InLine

LEMMA IdsOfPlaces ==
  ASSUME PlaceInv
  PROVE  /\ \A h \in 1 .. Last : \A i \in 1 .. Len(wire[h]) : wire[h][i].id \in SentIds
         /\ \A h \in Hops : \A q \in 0 .. path.hops[h].queues - 1 :
              \A i \in 1 .. Len(waiting[h][q]) : waiting[h][q][i].id \in SentIds
         /\ \A i \in 1 .. Len(received) : received[i].id \in SentIds
         /\ \A n, id : IsAt(n, id) => id \in SentIds /\ n >= 1 /\ n \in Nat
  <1>1. \A h \in 1 .. Last : \A i \in 1 .. Len(wire[h]) : wire[h][i].id \in SentIds
    <2>1. SUFFICES ASSUME NEW h \in 1 .. Last, NEW i \in 1 .. Len(wire[h])
                   PROVE  wire[h][i].id \in SentIds
      OBVIOUS
    <2>2. wire[h][i] \in LinkFrames(h)
      BY DEF PlaceInv
    <2>3. QED
      BY <2>2 DEF LinkFrames
  <1>2. \A h \in Hops : \A q \in 0 .. path.hops[h].queues - 1 :
          \A i \in 1 .. Len(waiting[h][q]) : waiting[h][q][i].id \in SentIds
    <2>1. SUFFICES ASSUME NEW h \in Hops, NEW q \in 0 .. path.hops[h].queues - 1,
                          NEW i \in 1 .. Len(waiting[h][q])
                   PROVE  waiting[h][q][i].id \in SentIds
      OBVIOUS
    <2>2. waiting[h][q][i] \in QueueFrames(h, q)
      BY DEF PlaceInv
    <2>3. QED
      BY <2>2 DEF QueueFrames
  <1>3. \A i \in 1 .. Len(received) : received[i].id \in SentIds
    <2>1. SUFFICES ASSUME NEW i \in 1 .. Len(received) PROVE received[i].id \in SentIds
      OBVIOUS
    <2>2. received[i] \in ReceivedFrames
      BY DEF PlaceInv
    <2>3. QED
      BY <2>2 DEF ReceivedFrames
  <1>4. Last \in Nat /\ Last >= 1 /\ Hops = 1 .. Last - 1
    BY PathFacts DEF PlaceInv
  <1>5. ASSUME NEW n, NEW id, IsAt(n, id)
        PROVE  id \in SentIds /\ n >= 1 /\ n \in Nat
    <2>1. CASE \E h \in 1 .. Last : n = 2 * h - 1 /\ IsIn(wire[h], id)
      BY <1>1, <1>4, <2>1 DEF IsIn
    <2>2. CASE \E h \in Hops : n = 2 * h /\ \E q \in 0 .. path.hops[h].queues - 1 :
                                              IsIn(waiting[h][q], id)
      <3> PICK h \in Hops : n = 2 * h /\ \E q \in 0 .. path.hops[h].queues - 1 :
                                            IsIn(waiting[h][q], id)
        BY <2>2
      <3>1. PICK q \in 0 .. path.hops[h].queues - 1 : IsIn(waiting[h][q], id)
        OBVIOUS
      <3>2. id \in SentIds
        BY <1>2, <3>1 DEF IsIn
      <3>3. QED
        BY <1>4, <3>2
    <2>3. CASE n = 2 * Last /\ IsIn(received, id)
      BY <1>3, <1>4, <2>3 DEF IsIn
    <2>4. QED
      BY <1>5, <2>1, <2>2, <2>3 DEF IsAt
  <1>6. QED
    BY <1>1, <1>2, <1>3, <1>5

\* The new frames get numbers of their own behind all others.
LEMMA SendStep ==
  ASSUME PathInv, NEW tags \in Seq(TagOrNone), Send(tags)
  PROVE  PathInv'
  <1> DEFINE first == Len(sent)
             new == [i \in DOMAIN tags |-> Encapsulate(Frame(first + i, tags[i]))]
             w == wire[1]
             v == w \o new
  <1>1. PlaceInv /\ LinesInv /\ OrderInv /\ path \in Paths
    BY DEF PathInv, PlaceInv
  <1>2. Last \in Nat /\ Last > 1 /\ 1 \in 1 .. Last
    BY <1>1, PathFacts
  <1>3. /\ sent' = sent \o tags /\ wire' = [wire EXCEPT ![1] = v]
        /\ UNCHANGED <<path, waiting, received>>
    BY DEF Send
  <1>4. first \in Nat /\ Len(tags) \in Nat /\ DOMAIN tags = 1 .. Len(tags)
    BY <1>1 DEF PlaceInv
  <1>5. \A i \in 1 .. Len(tags) :
          LET e == Encapsulate(Frame(first + i, tags[i])) IN
            /\ e \in FrameType /\ e.id = first + i
            /\ e.req = NoTag /\ e.header = tags[i]
    <2>1. SUFFICES ASSUME NEW i \in 1 .. Len(tags)
                   PROVE  LET e == Encapsulate(Frame(first + i, tags[i])) IN
                            /\ e \in FrameType /\ e.id = first + i
                            /\ e.req = NoTag /\ e.header = tags[i]
      OBVIOUS
    <2>2. tags[i] \in TagOrNone /\ first + i \in Nat /\ NoTag \in TagOrNone
      BY <1>4 DEF TagOrNone
    <2> HIDE DEF first
    <2>3. QED
      BY <2>2 DEF Frame, Encapsulate, FrameType
  <1>6. /\ new \in Seq(FrameType) /\ Len(new) = Len(tags)
        /\ \A i \in 1 .. Len(tags) :
             /\ new[i] \in FrameType /\ new[i].id = first + i
             /\ new[i].req = NoTag /\ new[i].header = tags[i]
    <2>1. \A i \in 1 .. Len(tags) :
             /\ new[i] \in FrameType /\ new[i].id = first + i
             /\ new[i].req = NoTag /\ new[i].header = tags[i]
      BY <1>4, <1>5
    <2>2. new \in [1 .. Len(tags) -> FrameType]
      BY <1>4, <1>5
    <2>3. QED
      BY <1>4, <2>1, <2>2, SeqDef
  <1> HIDE DEF new
  <1>7. /\ SentIds \subseteq SentIds'
        /\ sent' \in Seq(TagOrNone)
        /\ \A i \in SentIds : sent'[i] = sent[i]
        /\ \A i \in 1 .. Len(tags) : /\ first + i \in SentIds'
                                     /\ sent'[first + i] = tags[i]
    BY <1>1, <1>3, OldPromises
  <1>8. /\ \A h, q : QueueFrames(h, q) \subseteq QueueFrames(h, q)'
        /\ \A h : LinkFrames(h) \subseteq LinkFrames(h)'
        /\ ReceivedFrames \subseteq ReceivedFrames'
        /\ \A i, j \in SentIds : Same(i, j)' <=> Same(i, j)
        /\ Last' = Last /\ Hops' = Hops
    BY <1>1, <1>3, OldFrames
  <1>9. \A i \in 1 .. Len(tags) : new[i] \in LinkFrames(1)'
    BY <1>6, <1>7 DEF LinkFrames
  <1>10. w \in Seq(LinkFrames(1)') /\ w \in Seq(FrameType) /\ Len(w) \in Nat
    <2>1. w \in Seq(LinkFrames(1)) /\ w \in Seq(FrameType)
      BY <1>1, <1>2 DEF PlaceInv
    <2>2. LinkFrames(1) \subseteq LinkFrames(1)'
      BY <1>8
    <2>3. QED
      BY <2>1, <2>2, SeqWidens
  <1>11. new \in Seq(LinkFrames(1)')
    BY <1>4, <1>6, <1>9, SeqDef
  <1> DEFINE L == LinkFrames(1)'
  <1> HIDE DEF L, w
  <1>12. /\ v \in Seq(L) /\ v \in Seq(FrameType) /\ Len(v) = Len(w) + Len(tags)
         /\ \A i \in 1 .. Len(w) : v[i] = w[i]
         /\ \A i \in 1 .. Len(tags) : v[Len(w) + i] = new[i]
    <2>1. w \in Seq(L) /\ new \in Seq(L)
      BY <1>10, <1>11 DEF L
    <2>2. v \in Seq(L) /\ Len(w) \in Nat /\ Len(new) \in Nat /\ Len(v) = Len(w) + Len(new)
      BY <2>1
    <2>3. \A i \in 1 .. Len(v) : v[i] = IF i <= Len(w) THEN w[i] ELSE new[i - Len(w)]
      BY <2>1
    <2>4. v \in Seq(FrameType)
      BY <1>6, <1>10
    <2>5. \A i \in 1 .. Len(w) : v[i] = w[i]
      BY <2>2, <2>3
    <2>6. \A i \in 1 .. Len(tags) : v[Len(w) + i] = new[i]
      <3>1. TAKE i \in 1 .. Len(tags)
      <3>2. Len(w) + i \in 1 .. Len(v) /\ ~(Len(w) + i <= Len(w)) /\ (Len(w) + i) - Len(w) = i
        BY <1>6, <2>2
      <3>3. QED
        BY <2>3, <3>2
    <2>7. QED
      BY <1>6, <2>2, <2>4, <2>5, <2>6
  <1> HIDE DEF v, first
  <1>22. PICK x : x = v
    OBVIOUS
  <1>23. /\ x \in Seq(L) /\ x \in Seq(FrameType) /\ Len(x) = Len(w) + Len(tags)
         /\ \A i \in 1 .. Len(w) : x[i] = w[i]
         /\ \A i \in 1 .. Len(tags) : x[Len(w) + i] = new[i]
    BY <1>12, <1>22
  <1>13. \A i \in 1 .. Len(x) :
           \/ i \in 1 .. Len(w) /\ x[i] = w[i] /\ w[i].id \in SentIds
           \/ \E k \in 1 .. Len(tags) : i = Len(w) + k /\ x[i].id = first + k
    <2>1. SUFFICES ASSUME NEW i \in 1 .. Len(x), i \notin 1 .. Len(w)
                   PROVE  \E k \in 1 .. Len(tags) : i = Len(w) + k /\ x[i].id = first + k
      BY <1>1, <1>2, <1>23, IdsOfPlaces DEF w
    <2>2. i - Len(w) \in 1 .. Len(tags) /\ i = Len(w) + (i - Len(w))
      BY <1>4, <1>10, <1>23, <2>1
    <2>3. QED
      BY <1>6, <1>23, <2>2
  <1>14. \A i \in SentIds : i \in Nat /\ i <= first
    BY <1>4 DEF SentIds, first
  <1>15. InLine(x)'
    <2>1. SUFFICES ASSUME NEW i \in 1 .. Len(x), NEW j \in 1 .. Len(x), i < j,
                          Same(x[i].id, x[j].id)'
                   PROVE  x[i].id < x[j].id
      BY <1>23 DEF InLine
    <2>2. CASE j \in 1 .. Len(w)
      <3>1. i \in 1 .. Len(w)
        BY <1>10, <2>1, <2>2
      <3>2. x[i] = w[i] /\ x[j] = w[j] /\ w[i].id \in SentIds /\ w[j].id \in SentIds
        BY <1>1, <1>2, <1>23, <2>2, <3>1, IdsOfPlaces DEF w
      <3>3. InLine(w)
        BY <1>1, <1>2 DEF LinesInv, w
      <3>4. QED
        BY <1>8, <2>1, <2>2, <3>1, <3>2, <3>3 DEF InLine
    <2>3. CASE j \notin 1 .. Len(w)
      <3>1. PICK k \in 1 .. Len(tags) : j = Len(w) + k /\ x[j].id = first + k
        BY <1>13, <2>3
      <3>2. CASE i \in 1 .. Len(w)
        <4>1. x[i].id \in Nat /\ x[i].id <= first
          BY <1>10, <1>13, <1>14, <3>2
        <4>2. QED
          BY <1>4, <3>1, <4>1
      <3>3. CASE i \notin 1 .. Len(w)
        <4>1. PICK m \in 1 .. Len(tags) : i = Len(w) + m /\ x[i].id = first + m
          BY <1>13, <3>3
        <4>2. QED
          BY <1>4, <1>10, <2>1, <3>1, <4>1
      <3>4. QED
        BY <3>2, <3>3
    <2>4. QED
      BY <2>2, <2>3
  <1>16. /\ wire' \in [1 .. Last -> Seq(FrameType)] /\ wire'[1] = x
         /\ \A h \in 1 .. Last : h = 1 \/ wire'[h] = wire[h]
    BY <1>1, <1>2, <1>3, <1>12, <1>22 DEF PlaceInv
  <1>17. PlaceInv'
    <2>1. \A h \in 1 .. Last : wire'[h] \in Seq(LinkFrames(h)')
      <3>1. TAKE h \in 1 .. Last
      <3>2. CASE h = 1
        BY <1>16, <1>23, <3>2 DEF L
      <3>3. CASE h # 1
        <4>1. wire[h] \in Seq(LinkFrames(h)) /\ LinkFrames(h) \subseteq LinkFrames(h)'
          BY <1>1, <1>8 DEF PlaceInv
        <4>2. QED
          BY <1>16, <3>3, <4>1, SeqWidens
      <3>4. QED
        BY <3>2, <3>3
    <2>2. \A h \in Hops : \A q \in 0 .. path.hops[h].queues - 1 :
            waiting[h][q] \in Seq(QueueFrames(h, q)')
      <3>1. TAKE h \in Hops
      <3>2. TAKE q \in 0 .. path.hops[h].queues - 1
      <3>3. /\ waiting[h][q] \in Seq(QueueFrames(h, q))
            /\ QueueFrames(h, q) \subseteq QueueFrames(h, q)'
        BY <1>1, <1>8 DEF PlaceInv
      <3>4. QED
        BY <3>3, SeqWidens
    <2>3. received \in Seq(ReceivedFrames')
      <3>1. received \in Seq(ReceivedFrames) /\ ReceivedFrames \subseteq ReceivedFrames'
        BY <1>1, <1>8 DEF PlaceInv
      <3>2. QED
        BY <3>1, SeqWidens
    <2>4. QED
      BY <1>1, <1>3, <1>7, <1>8, <1>16, <2>1, <2>2, <2>3 DEF PlaceInv
  <1>24. \A s : InLine(s) /\ (\A i \in 1 .. Len(s) : s[i].id \in SentIds) => InLine(s)'
    BY <1>1, <1>3, OldLine
  <1>18. LinesInv'
    <2>1. ASSUME NEW h \in 1 .. Last
          PROVE  InLine(wire[h])'
      <3>1. CASE h = 1
        BY <1>15, <1>16, <3>1 DEF InLine
      <3>2. CASE h # 1
        <4>1. PICK s : s = wire[h]
          OBVIOUS
        <4>2. wire'[h] = s /\ InLine(s) /\ \A i \in 1 .. Len(s) : s[i].id \in SentIds
          BY <1>1, <1>16, <3>2, <4>1, IdsOfPlaces DEF LinesInv
        <4>3. InLine(s)'
          BY <1>24, <4>2
        <4>4. QED
          BY <4>2, <4>3 DEF InLine
      <3>3. QED
        BY <3>1, <3>2
    <2>2. ASSUME NEW h \in Hops, NEW q \in 0 .. path.hops[h].queues - 1
          PROVE  InLine(waiting[h][q])'
      <3>1. PICK s : s = waiting[h][q]
        OBVIOUS
      <3>2. waiting'[h][q] = s /\ InLine(s) /\ \A i \in 1 .. Len(s) : s[i].id \in SentIds
        BY <1>1, <1>3, <3>1, IdsOfPlaces DEF LinesInv
      <3>3. InLine(s)'
        BY <1>24, <3>2
      <3>4. QED
        BY <3>2, <3>3 DEF InLine
    <2>3. InLine(received)'
      <3>1. PICK s : s = received
        OBVIOUS
      <3>2. received' = s /\ InLine(s) /\ \A i \in 1 .. Len(s) : s[i].id \in SentIds
        BY <1>1, <1>3, <3>1, IdsOfPlaces DEF LinesInv
      <3>3. InLine(s)'
        BY <1>24, <3>2
      <3>4. QED
        BY <3>2, <3>3 DEF InLine
    <2>4. QED
      BY <1>3, <1>8, <2>1, <2>2, <2>3 DEF LinesInv
  <1>19. ASSUME NEW n \in Nat, NEW j \in Nat, IsAt(n, j)'
         PROVE  n >= 1 /\ (IsAt(n, j) \/ (n = 1 /\ j > first))
    <2>1. CASE \E h \in 1 .. Last : n = 2 * h - 1 /\ IsIn(wire'[h], j)
      <3>1. PICK h \in 1 .. Last : n = 2 * h - 1 /\ IsIn(wire'[h], j)
        BY <2>1
      <3>2. CASE h = 1
        <4>1. PICK i \in 1 .. Len(x) : x[i].id = j
          BY <1>16, <3>1, <3>2 DEF IsIn
        <4>2. CASE i \in 1 .. Len(w)
          <5>1. IsIn(wire[h], j)
            BY <1>23, <3>2, <4>1, <4>2 DEF IsIn, w
          <5>2. QED
            BY <1>2, <3>1, <3>2, <5>1 DEF IsAt
        <4>3. CASE i \notin 1 .. Len(w)
          <5>1. PICK k \in 1 .. Len(tags) : x[i].id = first + k
            BY <1>13, <4>3
          <5>2. QED
            BY <1>4, <3>1, <3>2, <4>1, <5>1
        <4>4. QED
          BY <4>2, <4>3
      <3>3. CASE h # 1
        <4>1. IsIn(wire[h], j)
          BY <1>16, <3>1, <3>3
        <4>2. QED
          BY <1>2, <3>1, <4>1 DEF IsAt
      <3>4. QED
        BY <3>2, <3>3
    <2>2. CASE \E h \in Hops : n = 2 * h /\ \E q \in 0 .. path.hops[h].queues - 1 :
                                              IsIn(waiting[h][q], j)
      <3>1. IsAt(n, j)
        BY <2>2 DEF IsAt
      <3>2. QED
        BY <1>1, <3>1, IdsOfPlaces
    <2>3. CASE n = 2 * Last /\ IsIn(received, j)
      BY <1>2, <2>3 DEF IsAt
    <2>4. QED
      BY <1>3, <1>8, <1>19, <2>1, <2>2, <2>3 DEF IsAt, IsIn
  <1>20. OrderInv'
    <2>1. SUFFICES ASSUME NEW a \in Nat, NEW b \in Nat, NEW c \in Nat, NEW d \in Nat,
                          IsAt(a, c)', IsAt(b, d)', a < b, Same(c, d)'
                   PROVE  c > d
      BY DEF OrderInv
    <2>2. IsAt(b, d) /\ d \in SentIds /\ b > 1
      <3>1. a >= 1 /\ b > 1
        BY <1>19, <2>1
      <3>2. IsAt(b, d)
        BY <1>19, <2>1, <3>1
      <3>3. QED
        BY <1>1, <3>1, <3>2, IdsOfPlaces
    <2>3. CASE IsAt(a, c)
      <3>1. c \in SentIds
        BY <1>1, <2>3, IdsOfPlaces
      <3>2. Same(c, d)
        BY <1>8, <2>1, <2>2, <3>1
      <3>3. QED
        BY <1>1, <2>1, <2>2, <2>3, <3>2 DEF OrderInv
    <2>4. CASE a = 1 /\ c > first
      BY <1>4, <1>14, <2>2, <2>4
    <2>5. QED
      BY <1>19, <2>1, <2>3, <2>4
  <1>21. QED
    BY <1>17, <1>18, <1>20 DEF PathInv

-----------------------------------------------------------------------------
(* The inductive invariant *)

LEMMA InitPathInv ==
  ASSUME Init
  PROVE  PathInv
  <1>1. path \in Paths /\ sent = <<>> /\ received = <<>>
    BY DEF Init
  <1>2. /\ Last \in Nat /\ Hops = 1 .. Last - 1
        /\ \A h \in Hops : path.hops[h].queues \in 1 .. kNumberOfPCPValues
    BY <1>1, PathFacts
  <1>3. /\ wire = [h \in 1 .. Last |-> <<>>]
        /\ waiting = [h \in Hops |-> [q \in 0 .. path.hops[h].queues - 1 |-> <<>>]]
    BY DEF Init
  <1>4. \A h \in Hops : /\ waiting[h] = [q \in 0 .. path.hops[h].queues - 1 |-> <<>>]
                        /\ waiting[h] \in [0 .. path.hops[h].queues - 1 -> Seq(FrameType)]
    BY <1>3
  <1>5. waiting \in [Hops -> Boxes]
    <2>1. \A h \in Hops : waiting[h] \in Boxes
      BY <1>2, <1>4 DEF Boxes
    <2>2. QED
      BY <1>3, <2>1
  <1>6. PlaceInv
    BY <1>1, <1>3, <1>4, <1>5 DEF PlaceInv
  <1>7. /\ \A h \in 1 .. Last : Len(wire[h]) = 0
        /\ \A h \in Hops : \A q \in 0 .. path.hops[h].queues - 1 : Len(waiting[h][q]) = 0
        /\ Len(received) = 0
    BY <1>1, <1>3, <1>4
  <1>8. LinesInv
    BY <1>7 DEF LinesInv, InLine
  <1>9. \A n, id : ~IsAt(n, id)
    BY <1>7 DEF IsAt, IsIn
  <1>10. OrderInv
    BY <1>9 DEF OrderInv
  <1>11. QED
    BY <1>6, <1>8, <1>10 DEF PathInv

\* Whatever a generator sends is a sequence of tags.
LEMMA GeneratorStep ==
  ASSUME PathInv, sendBurstPackets \/ requestPacket \/ sendPacket
  PROVE  PathInv'
  <1>1. path.tags \subseteq TagOrNone
    BY PathFacts DEF PathInv, PlaceInv
  <1>2. CASE sendBurstPackets
    <2>1. PICK n \in 1 .. MaxBurst : \E tags \in [1 .. n -> path.tags] : Send(tags)
      BY <1>2 DEF sendBurstPackets
    <2>2. PICK tags \in [1 .. n -> path.tags] : Send(tags)
      BY <2>1
    <2>3. n \in Nat
      BY <2>1, BoundsAssumption
    <2>4. tags \in [1 .. n -> TagOrNone]
      BY <1>1
    <2>5. tags \in Seq(TagOrNone)
      BY <2>3, <2>4, SeqDef
    <2>6. QED
      BY <2>2, <2>5, SendStep
  <1>3. CASE requestPacket
    <2>1. PICK tag \in path.tags : Send(<<tag>>)
      BY <1>3 DEF requestPacket
    <2>2. <<tag>> \in Seq(TagOrNone)
      BY <1>1
    <2>3. QED
      BY <2>1, <2>2, SendStep
  <1>4. CASE sendPacket
    <2>1. PICK tag \in path.tags \ {NoTag} : Send(<<[tag EXCEPT !.de = FALSE, !.vid = 0]>>)
      BY <1>4 DEF sendPacket
    <2>2. [tag EXCEPT !.de = FALSE, !.vid = 0] \in TagOrNone
      <3>1. tag \in Tag /\ 0 \in Short
        BY <1>1, Vids DEF TagOrNone
      <3>2. QED
        BY <3>1 DEF Tag, TagOrNone
    <2>3. PICK t \in TagOrNone : t = [tag EXCEPT !.de = FALSE, !.vid = 0]
      BY <2>2
    <2>4. <<t>> \in Seq(TagOrNone) /\ Send(<<t>>)
      BY <2>1, <2>3
    <2>5. QED
      BY <2>4, SendStep
  <1>5. QED
    BY <1>2, <1>3, <1>4

LEMMA NextPathInv ==
  ASSUME PathInv, [Next]_vars
  PROVE  PathInv'
  <1>1. CASE sendBurstPackets \/ requestPacket \/ sendPacket
    BY <1>1, GeneratorStep
  <1>2. CASE \E h \in Hops : Arrive(h)
    BY <1>2, DropStep, EnqueueStep
  <1>3. CASE \E h \in Hops : \E q \in DOMAIN waiting[h] : Serve(h, q)
    BY <1>3, TransmitStep, DiscardStep DEF Serve
  <1>4. CASE Receive
    BY <1>4, ReceiveStep
  <1>5. CASE UNCHANGED vars
    <2>1. UNCHANGED <<path, sent, wire, waiting, received>>
      BY <1>5 DEF vars
    <2>2. PlaceInv'
      BY <2>1, SamePromises DEF PathInv, PlaceInv
    <2>3. LinesInv'
      BY <2>1, SamePromises DEF PathInv, LinesInv
    <2>4. \A n, j \in Nat : IsAt(n, j)' => IsAt(n, j)
      BY <2>1, SamePromises DEF IsAt, IsIn
    <2>5. QED
      BY <2>1, <2>2, <2>3, <2>4, Removal DEF PathInv
  <1>6. QED
    BY <1>1, <1>2, <1>3, <1>4, <1>5 DEF Next

\* Everywhere on the path a frame carries what was promised when it was sent,
\* and is in the queue, on the lane and behind the frames that this decides.
THEOREM PathIsConsistent == Spec => []PathInv
  BY InitPathInv, NextPathInv, PTL DEF Spec

-----------------------------------------------------------------------------
(* The properties *)

LEMMA TagIsKeptThen ==
  ASSUME PathInv
  PROVE  TagIsKept
  <1>1. PlaceInv
    BY DEF PathInv
  <1>2. Last \in Nat /\ Hops = 1 .. Last - 1
    BY <1>1, PathFacts DEF PlaceInv
  <1>3. \A f \in Waiting : f.req = Promised(f.id)
    <2>1. SUFFICES ASSUME NEW f \in Waiting PROVE f.req = Promised(f.id)
      OBVIOUS
    <2>2. PICK h \in Hops : f \in UNION {Range(waiting[h][q]) : q \in DOMAIN waiting[h]}
      BY DEF Waiting
    <2>3. PICK q \in DOMAIN waiting[h] : f \in Range(waiting[h][q])
      BY <2>2
    <2>4. waiting[h][q] \in Seq(QueueFrames(h, q))
      BY <1>1 DEF PlaceInv
    <2>5. f \in QueueFrames(h, q)
      BY <2>3, <2>4 DEF Range
    <2>6. QED
      BY <2>5 DEF QueueFrames
  <1>4. \A h \in 2 .. Last : \A f \in Range(wire[h]) : f.header = Promised(f.id)
    <2>1. SUFFICES ASSUME NEW h \in 2 .. Last, NEW f \in Range(wire[h])
                   PROVE  f.header = Promised(f.id)
      OBVIOUS
    <2>2. h \in 1 .. Last /\ h > 1
      BY <1>2
    <2>3. wire[h] \in Seq(LinkFrames(h))
      BY <1>1, <2>2 DEF PlaceInv
    <2>4. f \in LinkFrames(h)
      BY <2>3 DEF Range
    <2>5. QED
      BY <2>2, <2>4 DEF LinkFrames
  <1>5. \A f \in Range(received) : f.ind = Promised(f.id)
    <2>1. received \in Seq(ReceivedFrames)
      BY <1>1 DEF PlaceInv
    <2>2. \A f \in Range(received) : f \in ReceivedFrames
      BY <2>1 DEF Range
    <2>3. QED
      BY <2>2 DEF ReceivedFrames
  <1>6. QED
    BY <1>3, <1>4, <1>5 DEF TagIsKept

LEMMA LaterQueuesAreMoreUrgentThen ==
  ASSUME PathInv
  PROVE  LaterQueuesAreMoreUrgent
  <1>1. PlaceInv /\ path \in Paths
    BY DEF PathInv, PlaceInv
  <1>2. SUFFICES ASSUME NEW h \in Hops, NEW p \in DOMAIN waiting[h], NEW q \in DOMAIN waiting[h],
                        p < q,
                        NEW f \in Range(waiting[h][p]), NEW g \in Range(waiting[h][q])
                 PROVE  Urgency(f.req.pcp) < Urgency(g.req.pcp)
    BY DEF LaterQueuesAreMoreUrgent
  <1>3. waiting[h][p] \in Seq(QueueFrames(h, p)) /\ waiting[h][q] \in Seq(QueueFrames(h, q))
    BY <1>1 DEF PlaceInv
  <1>4. f \in QueueFrames(h, p) /\ g \in QueueFrames(h, q)
    BY <1>3 DEF Range
  <1>5. /\ f.req = Promised(f.id) /\ g.req = Promised(g.id)
        /\ QueueOf(path.hops[h], Promised(f.id)) = p
        /\ QueueOf(path.hops[h], Promised(g.id)) = q
        /\ sent[f.id] \in TagOrNone /\ sent[g.id] \in TagOrNone
    BY <1>1, <1>4, FrameIds DEF QueueFrames
  <1>6. /\ Promised(f.id).pcp \in 0 .. 7 /\ Promised(g.id).pcp \in 0 .. 7
        /\ path.hops[h].queues \in 1 .. kNumberOfPCPValues
        /\ QueueIn(path.hops[h].queues, Promised(f.id).pcp) = p
        /\ QueueIn(path.hops[h].queues, Promised(g.id).pcp) = q
    BY <1>1, <1>5, PathFacts, PromisedIsTag, QueueExists
  <1>7. QED
    BY <1>2, <1>5, <1>6, LaterIsMoreUrgent

LEMMA InOrderPerPriorityThen ==
  ASSUME PathInv
  PROVE  InOrderPerPriority
  <1>1. received \in Seq(ReceivedFrames) /\ InLine(received)
    BY DEF PathInv, PlaceInv, LinesInv
  <1>2. DOMAIN received = 1 .. Len(received)
    BY <1>1
  <1>3. \A i \in 1 .. Len(received) : received[i] \in ReceivedFrames
    BY <1>1
  <1>4. \A i \in 1 .. Len(received) : received[i].ind = Promised(received[i].id)
    BY <1>3 DEF ReceivedFrames
  <1>5. QED
    BY <1>1, <1>2, <1>4 DEF InOrderPerPriority, InLine, Same

\* Priority, eligibility and VLAN of a frame are decided once, where it enters
\* the network, on paths of any length through any ports (VLANEncap.cc:113,
\* QueuingFrames.cc:41).
THEOREM TagsAreKept == Spec => []TagIsKept
  BY PathIsConsistent, TagIsKeptThen, PTL

\* With any number of queues at any switch the frames of a queue that is served
\* first are the more urgent ones (QueuingFrames.h:41).
THEOREM QueuesFollowUrgency == Spec => []LaterQueuesAreMoreUrgent
  BY PathIsConsistent, LaterQueuesAreMoreUrgentThen, PTL

\* Frames of one priority arrive in the order in which they were sent and at
\* most once, through any number of switches with any express queues
\* (QueuingFrames.cc:76, TransmissionSelection.cc:79).
THEOREM PrioritiesArriveInOrder == Spec => []InOrderPerPriority
  BY PathIsConsistent, InOrderPerPriorityThen, PTL
=============================================================================
