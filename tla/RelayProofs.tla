---------------------------- MODULE RelayProofs -----------------------------
(***************************************************************************)
(* Proofs about Relay, for every tree of switches, every configuration     *)
(* whose databases are right, in which the ways stay known and the ports   *)
(* keep the order that matters, and any number of frames, of which any may *)
(* be lost: entries lead to hosts, frames move away from their sources,    *)
(* nobody gets a frame twice, and the group is always known.               *)
(*                                                                         *)
(* The hard part is that a located frame is not sent back: the switch that *)
(* flooded it did not know its destination, so no frame from there had     *)
(* passed that switch; and those that pass it later stand behind the       *)
(* flooded one in the same queue (KeepsOrder), where none overtakes it.    *)
(***************************************************************************)
EXTENDS Relay, SequenceTheorems, TLAPS

-----------------------------------------------------------------------------
(* Invariants *)

\* The parts of TypeOK that speak of frames.
FramesOK ==
  /\ configuration \in Configurations
  /\ wire \in [Port -> Seq(Frame)]
  /\ received \in [Host -> [1 .. MaxFrames -> Nat]]
  /\ sent \in Seq(Frame) /\ Len(sent) <= MaxFrames

\* The parts that speak of databases.
DatabasesOK ==
  /\ DOMAIN operFdb = Switch
  /\ DOMAIN adminFdb = Switch
  /\ DOMAIN changeDatabase = Switch
  /\ \A s \in Switch : IsDatabase(operFdb[s], s) /\ IsDatabase(adminFdb[s], s)

\* Entries that wait come from a list that ScheduleSwap may load.
WaitingIsLoaded ==
  \A s \in Switch :
    changeDatabase[s] => \E d \in configuration.later : adminFdb[s] = d[s]

\* A forwarding switch knows the group.
GroupHasEntry ==
  \A s \in Switch \ configuration.flooding : Group \in DOMAIN operFdb[s]

AlwaysKnown ==
  \A s \in Switch, h \in Host :
    AlwaysNames(configuration, s, h) => h \in DOMAIN operFdb[s]

StreamOf(f) == [src |-> f.src, dest |-> f.dest, priority |-> f.priority]

\* A frame is not for its source, belongs to a stream, and has been sent.
FramesAreSent ==
  \A q \in Port : \A i \in 1 .. Len(wire[q]) :
    /\ wire[q][i].dest # wire[q][i].src
    /\ wire[q][i].number <= Len(sent)
    /\ StreamOf(wire[q][i]) \in configuration.streams

\* A forwarding switch sees this host and others behind the port.
Shares(q, h) ==
  /\ q[1] \notin configuration.flooding
  /\ Leads(q, h)
  /\ \E x \in Host : x # h /\ Leads(q, x)

Teaches(f, h) == f.src = h /\ f.dest \in Host

\* What such a switch knows of the host, or is about to learn, the next switch
\* on the way knows.
NextKnows ==
  \A q \in Port, h \in Host :
    Shares(q, h) =>
      /\ h \in DOMAIN operFdb[q[1]] => h \in DOMAIN operFdb[Peer[q][1]]
      /\ \A i \in 1 .. Len(wire[q]) :
           Teaches(wire[q][i], h) => h \in DOMAIN operFdb[Peer[q][1]]

\* A forwarding switch to which a frame comes from where its destination is
\* does not know the destination, and does not learn it before it gets the frame.
Astray(q, f) ==
  q[1] \notin configuration.flooding /\ f.dest \in Host /\ Leads(q, f.dest)

StrayIsFlooded ==
  \A q \in Port : \A i \in 1 .. Len(wire[q]) :
    Astray(q, wire[q][i]) =>
      /\ wire[q][i].dest \notin DOMAIN operFdb[q[1]]
      /\ ~AlwaysNames(configuration, Peer[q][1], wire[q][i].dest)
      /\ \A j \in 1 .. i - 1 : ~Teaches(wire[q][j], wire[q][i].dest)

\* Two copies of a frame go to different hosts, and to none that has it.
CopiesAreApart ==
  /\ \A h \in Host, n \in 1 .. MaxFrames : n > Len(sent) => received[h][n] = 0
  /\ \A q \in Port : \A i \in 1 .. Len(wire[q]), h \in Host :
       ~Leads(q, h) => received[h][wire[q][i].number] = 0
  /\ \A q, r \in Port : \A i \in 1 .. Len(wire[q]), j \in 1 .. Len(wire[r]) :
       wire[q][i].number = wire[r][j].number /\ (q # r \/ i # j) =>
         \A h \in Host : Leads(q, h) \/ Leads(r, h)

DatabaseInv ==
  /\ DatabasesOK /\ WaitingIsLoaded /\ GroupHasEntry /\ AlwaysKnown
  /\ EntriesLeadToHosts

WireInv == FramesAreSent /\ MovesAway /\ NextKnows /\ StrayIsFlooded

DeliveryInv == CopiesAreApart /\ DeliveredOnce

RelayInv == FramesOK /\ DatabaseInv /\ WireInv /\ DeliveryInv /\ GroupIsKnown

\* What is asked of the configurations.
AllWellConfigured ==
  \A k \in Configurations : HasRightDatabases(k) /\ WaysStayKnown(k) /\ KeepsOrder(k)

-----------------------------------------------------------------------------
(* The tree *)

\* The port at the other end of a link between switches belongs to a switch.
LEMMA PortsOfSwitches ==
  ASSUME NEW p \in Port
  PROVE  /\ p[1] \in Switch
         /\ p[2] \in Nat
         /\ p = <<p[1], p[2]>>
         /\ Peer[p] \in Port \cup Host
         /\ Peer[Peer[p]] = p
BY PortAssumption

\* A port through which a frame leaves does not lead where it came from, so at
\* the other end it arrives from there.
LEMMA CopyMovesOn ==
  ASSUME NEW p \in Port, NEW q \in Port, NEW h \in Host,
         Peer[q] \in Port, Peer[q][1] = p[1], Peer[q] # p, Leads(p, h)
  PROVE  Leads(q, h)
<1> DEFINE o == Peer[q]
<1>1. o \in Port /\ o = <<o[1], o[2]>> /\ p = <<p[1], p[2]>>
  BY PortsOfSwitches
<1>2. o[2] # p[2]
  BY <1>1
<1>3. ~Leads(o, h)
  BY <1>2 DEF Leads
<1>4. Peer[q] \notin Host
  BY PortAssumption
<1> QED
  BY <1>3, <1>4, TreeAssumption

\* Hosts at the other end of the port of departure, or beyond, are not where
\* the frame came from, and each lies behind one port.
LEMMA CopyGoesAhead ==
  ASSUME NEW p \in Port, NEW q \in Port, NEW h \in Host,
         Peer[q] \in Port, Peer[q][1] = p[1], Peer[q] # p, ~Leads(q, h)
  PROVE  Leads(Peer[q], h) /\ ~Leads(p, h)
<1> DEFINE o == Peer[q]
<1>1. o \in Port /\ o = <<o[1], o[2]>> /\ p = <<p[1], p[2]>>
  BY PortsOfSwitches
<1>2. o[2] # p[2]
  BY <1>1
<1>3. Peer[q] \notin Host
  BY PortAssumption
<1>4. Leads(o, h)
  BY <1>3, TreeAssumption
<1> QED
  BY <1>2, <1>4 DEF Leads

\* The port of a host leads to it and to nobody else.
LEMMA HostsPort ==
  ASSUME NEW h \in Host, Peer[h] \in Port
  PROVE  \A x \in Host : Leads(Peer[h], x) <=> x = h
<1>1. Peer[Peer[h]] = h
  BY PortAssumption
<1> QED
  BY <1>1, TreeAssumption

\* Behind a port with two hosts there is a switch.
LEMMA NextIsASwitch ==
  ASSUME NEW q \in Port, NEW h \in Host, NEW x \in Host, x # h,
         Leads(q, h), Leads(q, x)
  PROVE  Peer[q] \in Port /\ Peer[q][1] \in Switch
<1>1. Peer[q] \notin Host
  BY TreeAssumption
<1> QED
  BY <1>1, PortsOfSwitches

-----------------------------------------------------------------------------
(* What a step does to the wires *)

\* When frame k of wire p is taken, the frames behind it move up.
Taken(p, k, q, i) == IF q = p /\ i >= k THEN 1 ELSE 0

LEMMA Removal ==
  ASSUME NEW S, NEW s \in Seq(S), NEW k \in 1 .. Len(s)
  PROVE  /\ RemoveAt(s, k) \in Seq(S)
         /\ Len(RemoveAt(s, k)) = Len(s) - 1
         /\ \A j \in 1 .. Len(s) - 1 :
              RemoveAt(s, k)[j] = IF j < k THEN s[j] ELSE s[j + 1]
<1> DEFINE before == SubSeq(s, 1, k - 1)
           behind == SubSeq(s, k + 1, Len(s))
<1>1. /\ before \in Seq(S) /\ Len(before) = k - 1
      /\ \A j \in 1 .. k - 1 : before[j] = s[j]
  OBVIOUS
<1>2. /\ behind \in Seq(S) /\ Len(behind) = Len(s) - k
      /\ \A j \in 1 .. Len(s) - k : behind[j] = s[j + k]
  OBVIOUS
<1>3. RemoveAt(s, k) = before \o behind
  BY DEF RemoveAt
<1> HIDE DEF before, behind
<1>4. /\ before \o behind \in Seq(S)
      /\ Len(before \o behind) = Len(before) + Len(behind)
      /\ \A j \in 1 .. Len(before) + Len(behind) :
           (before \o behind)[j] = IF j <= Len(before) THEN before[j]
                                   ELSE behind[j - Len(before)]
  BY <1>1, <1>2, ConcatProperties
<1>5. Len(s) \in Nat /\ k \in Int /\ 1 <= k /\ k <= Len(s)
  OBVIOUS
<1>6. ASSUME NEW j \in 1 .. Len(s) - 1
      PROVE  RemoveAt(s, k)[j] = IF j < k THEN s[j] ELSE s[j + 1]
  <2>1. CASE j < k
    <3>1. j <= k - 1 /\ j \in 1 .. k - 1 /\ j \in 1 .. Len(before) + Len(behind)
      BY <1>1, <1>2, <1>5, <2>1
    <3> QED
      BY <1>1, <1>3, <1>4, <2>1, <3>1
  <2>2. CASE ~(j < k)
    <3>1. /\ ~(j <= Len(before)) /\ j \in 1 .. Len(before) + Len(behind)
          /\ j - (k - 1) \in 1 .. Len(s) - k /\ (j - (k - 1)) + k = j + 1
      BY <1>1, <1>2, <1>5, <2>2
    <3>2. RemoveAt(s, k)[j] = behind[j - (k - 1)]
      BY <1>1, <1>3, <1>4, <3>1
    <3> QED
      BY <1>2, <2>2, <3>1, <3>2
  <2> QED
    BY <2>1, <2>2
<1> QED
  BY <1>1, <1>2, <1>3, <1>4, <1>5, <1>6

LEMMA CountOneMore ==
  ASSUME NEW S, NEW count \in [S -> Nat], NEW n \in S
  PROVE  [count EXCEPT ![n] = @ + 1] \in [S -> Nat]
OBVIOUS

LEMMA CopyKeepsTypes ==
  ASSUME FramesOK, NEW p \in Port, NEW k \in 1 .. Len(wire[p]), NEW ports,
         Copy(p, k, ports)
  PROVE  /\ wire[p][k] \in Frame
         /\ wire' \in [Port -> Seq(Frame)]
         /\ received' \in [Host -> [1 .. MaxFrames -> Nat]]
<1> DEFINE f == wire[p][k]
<1>1. wire[p] \in Seq(Frame)
  BY DEF FramesOK
<1>2. f \in Frame /\ RemoveAt(wire[p], k) \in Seq(Frame)
  BY <1>1, Removal
<1>3. f.number \in 1 .. MaxFrames
  BY <1>2 DEF Frame
<1> HIDE DEF f
<1>4. wire' = [q \in Port |->
        LET rest == IF q = p THEN RemoveAt(wire[q], k) ELSE wire[q]
        IN  IF Peer[q] \in ports THEN Append(rest, f) ELSE rest]
  BY DEF Copy, f
<1>5. wire' \in [Port -> Seq(Frame)]
  <2> SUFFICES ASSUME NEW q \in Port
               PROVE  (LET rest == IF q = p THEN RemoveAt(wire[q], k) ELSE wire[q]
                       IN  IF Peer[q] \in ports THEN Append(rest, f) ELSE rest)
                         \in Seq(Frame)
    BY <1>4
  <2>1. wire[q] \in Seq(Frame)
    BY DEF FramesOK
  <2>2. (IF q = p THEN RemoveAt(wire[q], k) ELSE wire[q]) \in Seq(Frame)
    BY <2>1, <1>2
  <2> QED
    BY <1>2, <2>2
<1>6. received' = [h \in Host |->
        IF Peer[h] \in ports /\ IsAddressed(h, f)
          THEN [received[h] EXCEPT ![f.number] = @ + 1]
          ELSE received[h]]
  BY DEF Copy, f
<1>7. received' \in [Host -> [1 .. MaxFrames -> Nat]]
  <2> SUFFICES ASSUME NEW h \in Host
               PROVE  received'[h] \in [1 .. MaxFrames -> Nat]
    BY <1>6
  <2>1. received[h] \in [1 .. MaxFrames -> Nat]
    BY DEF FramesOK
  <2>2. \A n \in 1 .. MaxFrames :
          [received[h] EXCEPT ![n] = @ + 1] \in [1 .. MaxFrames -> Nat]
    BY <2>1, CountOneMore
  <2> QED
    BY <1>3, <1>6, <2>1, <2>2
<1> QED
  BY <1>2, <1>5, <1>7 DEF f

\* What is on a wire was there before, or is a copy that has just been sent and
\* is the last one there.
LEMMA CopyMovesUp ==
  ASSUME FramesOK, NEW p \in Port, NEW k \in 1 .. Len(wire[p]), NEW ports,
         Copy(p, k, ports),
         NEW q \in Port, NEW i \in 1 .. Len(wire'[q])
  PROVE  /\ i \in Nat /\ i >= 1 /\ Len(wire[q]) \in Nat /\ Taken(p, k, q, i) \in {0, 1}
         /\ IF i + Taken(p, k, q, i) <= Len(wire[q])
              THEN /\ i + Taken(p, k, q, i) \in 1 .. Len(wire[q])
                   /\ wire'[q][i] = wire[q][i + Taken(p, k, q, i)]
              ELSE /\ i = Len(wire'[q])
                   /\ wire'[q][i] = wire[p][k]
                   /\ Peer[q] \in ports
<1> DEFINE f == wire[p][k]
           rest == IF q = p THEN RemoveAt(wire[q], k) ELSE wire[q]
           less == IF q = p THEN 1 ELSE 0
<1>1. wire[q] \in Seq(Frame) /\ wire[p] \in Seq(Frame)
  BY DEF FramesOK
<1>2. f \in Frame
  BY <1>1
<1>3. wire'[q] = IF Peer[q] \in ports THEN Append(rest, f) ELSE rest
  BY DEF Copy
<1>4. /\ rest \in Seq(Frame)
      /\ Len(rest) = Len(wire[q]) - less
      /\ \A j \in 1 .. Len(rest) : rest[j] = wire[q][j + Taken(p, k, q, j)]
  <2>1. CASE q = p
    <3>1. /\ RemoveAt(wire[q], k) \in Seq(Frame)
          /\ Len(RemoveAt(wire[q], k)) = Len(wire[q]) - 1
          /\ \A j \in 1 .. Len(wire[q]) - 1 :
               RemoveAt(wire[q], k)[j] = IF j < k THEN wire[q][j] ELSE wire[q][j + 1]
      BY <1>1, <2>1, Removal
    <3> QED
      BY <2>1, <3>1 DEF Taken
  <2>2. CASE q # p
    BY <1>1, <2>2 DEF Taken
  <2> QED
    BY <2>1, <2>2
<1>5. /\ Len(rest) \in Nat /\ Len(wire[q]) \in Nat /\ less \in {0, 1}
      /\ \A j \in Nat : Taken(p, k, q, j) \in {0, 1}
      /\ k \in Nat /\ (q = p => k <= Len(wire[q]))
  BY <1>1, <1>4 DEF Taken
<1>6. \A j \in 1 .. Len(rest) :
        j + Taken(p, k, q, j) \in 1 .. Len(wire[q])
  BY <1>4, <1>5 DEF Taken
<1>7. Len(rest) + 1 + Taken(p, k, q, Len(rest) + 1) = Len(wire[q]) + 1
  <2>1. CASE q = p
    <3>1. Len(rest) + 1 = Len(wire[q]) /\ Len(rest) + 1 >= k
      BY <1>4, <1>5, <2>1
    <3>2. Taken(p, k, q, Len(rest) + 1) = 1
      BY <2>1, <3>1 DEF Taken
    <3> QED
      BY <1>5, <3>1, <3>2
  <2>2. CASE q # p
    BY <1>4, <1>5, <2>2 DEF Taken
  <2> QED
    BY <2>1, <2>2
<1> HIDE DEF f, rest, less
<1>8. CASE Peer[q] \in ports
  <2>1. /\ Len(wire'[q]) = Len(rest) + 1
        /\ \A j \in 1 .. Len(rest) : wire'[q][j] = rest[j]
        /\ wire'[q][Len(rest) + 1] = f
    BY <1>2, <1>3, <1>4, <1>8
  <2>2. CASE i \in 1 .. Len(rest)
    BY <1>4, <1>5, <1>6, <2>1, <2>2
  <2>3. CASE i = Len(rest) + 1
    BY <1>5, <1>7, <1>8, <2>1, <2>3 DEF f
  <2> QED
    BY <1>5, <2>1, <2>2, <2>3
<1>9. CASE Peer[q] \notin ports
  <2>1. wire'[q] = rest
    BY <1>3, <1>9
  <2> QED
    BY <1>4, <1>5, <1>6, <2>1
<1> QED
  BY <1>8, <1>9

\* What a host has got: one more of the frame if it is at one of the ports.
LEMMA CopyDelivers ==
  ASSUME FramesOK, NEW p \in Port, NEW k \in 1 .. Len(wire[p]), NEW ports,
         Copy(p, k, ports), NEW h \in Host, NEW n \in 1 .. MaxFrames
  PROVE  \/ received'[h][n] = received[h][n]
         \/ /\ Peer[h] \in ports
            /\ n = wire[p][k].number
            /\ received'[h][n] = received[h][n] + 1
<1>1. received'[h] = IF Peer[h] \in ports /\ IsAddressed(h, wire[p][k])
                      THEN [received[h] EXCEPT ![wire[p][k].number] = @ + 1]
                      ELSE received[h]
  BY DEF Copy
<1>2. received[h] \in [1 .. MaxFrames -> Nat]
  BY DEF FramesOK
<1> QED
  BY <1>1, <1>2

\* What is known of the streams of the configuration.
LEMMA StreamFacts ==
  ASSUME FramesOK, NEW t \in configuration.streams
  PROVE  /\ t.src \in Host /\ t.dest \in Address /\ t.priority \in Priority
         /\ t.dest # t.src
         /\ t = [src |-> t.src, dest |-> t.dest, priority |-> t.priority]
<1>1. configuration.streams \subseteq {x \in Stream : x.dest # x.src}
  BY ConfigurationAssumption DEF FramesOK
<1>2. t \in Stream /\ t.dest # t.src
  BY <1>1
<1> QED
  BY <1>2 DEF Stream

NewFrame(t) ==
  [number |-> Len(sent) + 1, src |-> t.src, dest |-> t.dest, priority |-> t.priority]

\* A host puts its frame behind the others.
LEMMA SendFrameAppends ==
  ASSUME FramesOK, NEW t \in configuration.streams, SendFrame(t),
         NEW q \in Port, NEW i \in 1 .. Len(wire'[q])
  PROVE  IF i <= Len(wire[q])
           THEN wire'[q][i] = wire[q][i]
           ELSE /\ i = Len(wire[q]) + 1
                /\ wire'[q][i] = NewFrame(t)
                /\ q = Peer[t.src]
<1> DEFINE f == NewFrame(t)
<1>1. wire[q] \in Seq(Frame)
  BY DEF FramesOK
<1>2. wire' = [wire EXCEPT ![Peer[t.src]] = Append(@, f)]
  BY DEF SendFrame, NewFrame
<1> HIDE DEF f
<1>3. wire'[q] = IF q = Peer[t.src] THEN Append(wire[q], f) ELSE wire[q]
  BY <1>2 DEF FramesOK
<1> QED
  BY <1>1, <1>3 DEF f

LEMMA SendFrameKeepsTypes ==
  ASSUME FramesOK, NEW t \in configuration.streams, SendFrame(t)
  PROVE  FramesOK' /\ Len(sent') = Len(sent) + 1
<1> DEFINE f == NewFrame(t)
<1>1. configuration.frames \in 0 .. MaxFrames /\ MaxFrames \in Nat /\ Len(sent) \in Nat
  BY ConfigurationAssumption, PortAssumption DEF FramesOK
<1>2. Len(sent) + 1 \in 1 .. MaxFrames
  BY <1>1 DEF SendFrame
<1>3. f \in Frame
  BY <1>2, StreamFacts DEF Frame, NewFrame
<1>4. /\ sent' = Append(sent, f)
      /\ wire' = [wire EXCEPT ![Peer[t.src]] = Append(@, f)]
      /\ configuration' = configuration /\ received' = received
  BY DEF SendFrame, NewFrame
<1> HIDE DEF f
<1>5. sent' \in Seq(Frame) /\ Len(sent') = Len(sent) + 1
  BY <1>3, <1>4 DEF FramesOK
<1>6. wire' \in [Port -> Seq(Frame)]
  <2>1. wire \in [Port -> Seq(Frame)]
    BY DEF FramesOK
  <2>2. wire' = [q \in Port |-> IF q = Peer[t.src] THEN Append(wire[q], f) ELSE wire[q]]
    BY <1>4, <2>1
  <2>3. \A q \in Port : Append(wire[q], f) \in Seq(Frame)
    BY <1>3, <2>1
  <2> QED
    BY <2>1, <2>2, <2>3
<1> QED
  BY <1>1, <1>2, <1>4, <1>5, <1>6 DEF FramesOK

-----------------------------------------------------------------------------
(* A frame that goes on, and not back *)

Onward(p, ports) == ports \subseteq PortsOf(p[1]) \ {p}

LEMMA CopyMovesAway ==
  ASSUME FramesOK, FramesAreSent, MovesAway,
         NEW p \in Port, NEW k \in 1 .. Len(wire[p]), NEW ports, Onward(p, ports),
         Copy(p, k, ports), UNCHANGED <<configuration, sent>>
  PROVE  FramesAreSent' /\ MovesAway'
<1> SUFFICES ASSUME NEW q \in Port, NEW i \in 1 .. Len(wire'[q])
             PROVE  /\ wire'[q][i].dest # wire'[q][i].src
                    /\ wire'[q][i].number <= Len(sent)
                    /\ StreamOf(wire'[q][i]) \in configuration.streams
                    /\ Leads(q, wire'[q][i].src)
  BY DEF FramesAreSent, MovesAway, Leads, StreamOf
<1>1. CASE i + Taken(p, k, q, i) <= Len(wire[q])
  <2>1. /\ wire'[q][i] = wire[q][i + Taken(p, k, q, i)]
        /\ i + Taken(p, k, q, i) \in 1 .. Len(wire[q])
    BY <1>1, CopyMovesUp
  <2> QED
    BY <2>1 DEF FramesAreSent, MovesAway
<1>2. CASE ~(i + Taken(p, k, q, i) <= Len(wire[q]))
  <2>1. wire'[q][i] = wire[p][k] /\ Peer[q] \in ports
    BY <1>2, CopyMovesUp
  <2>2. Peer[q] \in Port /\ Peer[q][1] = p[1] /\ Peer[q] # p
    BY <2>1 DEF Onward, PortsOf
  <2>3. wire[p][k] \in Frame
    BY CopyKeepsTypes
  <2>4. /\ wire[p][k].src \in Host /\ Leads(p, wire[p][k].src)
        /\ wire[p][k].dest # wire[p][k].src /\ wire[p][k].number <= Len(sent)
        /\ StreamOf(wire[p][k]) \in configuration.streams
    BY <2>3 DEF FramesAreSent, MovesAway, Frame
  <2> QED
    BY <2>1, <2>2, <2>4, CopyMovesOn
<1> QED
  BY <1>1, <1>2

\* What is on the wires after the step comes from what was there before it:
\* the copies from the frame that was taken from p.
Origin(p, k, q, i) == IF i + Taken(p, k, q, i) <= Len(wire[q])
                        THEN <<q, i + Taken(p, k, q, i)>> ELSE <<p, k>>

LEMMA CopiesHaveOrigins ==
  ASSUME FramesOK, NEW p \in Port, NEW k \in 1 .. Len(wire[p]), NEW ports,
         Onward(p, ports), Copy(p, k, ports),
         NEW q \in Port, NEW i \in 1 .. Len(wire'[q])
  PROVE  LET o == Origin(p, k, q, i)
         IN  /\ o[1] \in Port /\ o[2] \in 1 .. Len(wire[o[1]])
             /\ wire'[q][i] = wire[o[1]][o[2]]
             /\ \A h \in Host : ~Leads(q, h) => ~Leads(o[1], h)
             /\ IF o = <<p, k>>
                  THEN Peer[q] \in ports /\ i = Len(wire'[q])
                  ELSE o = <<q, i + Taken(p, k, q, i)>>
<1>1. CASE i + Taken(p, k, q, i) <= Len(wire[q])
  <2>1. /\ wire'[q][i] = wire[q][i + Taken(p, k, q, i)]
        /\ i + Taken(p, k, q, i) \in 1 .. Len(wire[q])
    BY <1>1, CopyMovesUp
  <2>2. Origin(p, k, q, i) = <<q, i + Taken(p, k, q, i)>>
    BY <1>1 DEF Origin
  <2>3. q = p => i + Taken(p, k, q, i) # k
    BY DEF Taken
  <2> QED
    BY <2>1, <2>2, <2>3
<1>2. CASE ~(i + Taken(p, k, q, i) <= Len(wire[q]))
  <2>1. /\ wire'[q][i] = wire[p][k] /\ Peer[q] \in ports
        /\ i = Len(wire'[q])
    BY <1>2, CopyMovesUp
  <2>2. Peer[q] \in Port /\ Peer[q][1] = p[1] /\ Peer[q] # p
    BY <2>1 DEF Onward, PortsOf
  <2>3. \A h \in Host : ~Leads(q, h) => ~Leads(p, h)
    BY <2>2, CopyGoesAhead
  <2>4. Origin(p, k, q, i) = <<p, k>>
    BY <1>2 DEF Origin
  <2> QED
    BY <2>1, <2>3, <2>4
<1> QED
  BY <1>1, <1>2

\* Copies of a frame that leave a switch by different ports go different ways.
LEMMA CopiesPart ==
  ASSUME NEW p \in Port, NEW ports, Onward(p, ports),
         NEW q \in Port, Peer[q] \in ports, NEW r \in Port, Peer[r] \in ports,
         q # r, NEW h \in Host
  PROVE  Leads(q, h) \/ Leads(r, h)
<1>1. /\ Peer[q] \in Port /\ Peer[q][1] = p[1]
      /\ Peer[r] \in Port /\ Peer[r][1] = p[1]
  BY DEF Onward, PortsOf
<1>2. Peer[Peer[q]] = q /\ Peer[Peer[r]] = r
  BY PortAssumption
<1>3. Peer[q] # Peer[r]
  BY <1>2
<1>4. Peer[q][2] # Peer[r][2]
  BY <1>1, <1>3, PortsOfSwitches
<1>5. Peer[q] \notin Host /\ Peer[r] \notin Host
  BY <1>1, PortAssumption
<1>6. (Leads(q, h) <=> ~Leads(Peer[q], h)) /\ (Leads(r, h) <=> ~Leads(Peer[r], h))
  BY <1>5, TreeAssumption
<1> QED
  BY <1>1, <1>4, <1>6 DEF Leads

\* A host at a port by which the frame leaves is not where it came from, and is
\* not behind any other such port.
LEMMA DeliveryIsAhead ==
  ASSUME NEW p \in Port, NEW ports, Onward(p, ports), NEW h \in Host,
         Peer[h] \in ports
  PROVE  /\ ~Leads(p, h)
         /\ \A q \in Port : Peer[q] \in ports => Leads(q, h)
<1>1. Peer[h] \in Port /\ Peer[h][1] = p[1] /\ Peer[h] # p
  BY DEF Onward, PortsOf
<1>2. Leads(Peer[h], h)
  BY <1>1, HostsPort
<1>3. Peer[h][2] # p[2]
  BY <1>1, PortsOfSwitches
<1>4. ~Leads(p, h)
  BY <1>1, <1>2, <1>3 DEF Leads
<1>5. ASSUME NEW q \in Port, Peer[q] \in ports
      PROVE  Leads(q, h)
  <2>1. Peer[q] \in Port /\ Peer[q][1] = p[1] /\ Peer[q] \notin Host
    BY <1>5, PortAssumption DEF Onward, PortsOf
  <2>2. Peer[q] # Peer[h]
    BY PortAssumption
  <2>3. Peer[q][2] # Peer[h][2]
    BY <1>1, <2>1, <2>2, PortsOfSwitches
  <2>4. ~Leads(Peer[q], h)
    BY <1>1, <1>2, <2>1, <2>3 DEF Leads
  <2> QED
    BY <2>1, <2>4, TreeAssumption
<1> QED
  BY <1>4, <1>5

LEMMA PairsApart ==
  ASSUME DeliveryInv, NEW q \in Port, NEW r \in Port,
         NEW i \in 1 .. Len(wire[q]), NEW j \in 1 .. Len(wire[r]),
         wire[q][i].number = wire[r][j].number, q # r \/ i # j, NEW h \in Host
  PROVE  Leads(q, h) \/ Leads(r, h)
BY DEF DeliveryInv, CopiesAreApart

LEMMA CopyKeepsApart ==
  ASSUME FramesOK, FramesAreSent, DeliveryInv,
         NEW p \in Port, NEW k \in 1 .. Len(wire[p]), NEW ports, Onward(p, ports),
         Copy(p, k, ports), UNCHANGED sent
  PROVE  DeliveryInv'
<1> DEFINE f == wire[p][k]
<1>1. f \in Frame /\ f.number \in 1 .. MaxFrames
  <2>1. f \in Frame
    BY CopyKeepsTypes
  <2> QED
    BY <2>1 DEF Frame
<1>2. ASSUME NEW h \in Host, NEW n \in 1 .. MaxFrames,
             received'[h][n] # received[h][n]
      PROVE  /\ Peer[h] \in ports /\ n = f.number
             /\ received[h][n] = 0 /\ received'[h][n] = 1
             /\ ~Leads(p, h)
  <2>1. /\ Peer[h] \in ports /\ n = f.number
        /\ received'[h][n] = received[h][n] + 1
    <3>1. \/ received'[h][n] = received[h][n]
          \/ /\ Peer[h] \in ports
             /\ n = wire[p][k].number
             /\ received'[h][n] = received[h][n] + 1
      BY CopyDelivers
    <3> QED
      BY <1>1, <1>2, <3>1
  <2>2. ~Leads(p, h)
    BY <2>1, DeliveryIsAhead
  <2>3. received[h][n] = 0
    BY <1>1, <2>1, <2>2 DEF DeliveryInv, CopiesAreApart
  <2> QED
    BY <2>1, <2>2, <2>3
<1>3. DeliveredOnce'
  <2> SUFFICES ASSUME NEW h \in Host, NEW n \in 1 .. MaxFrames
               PROVE  received'[h][n] <= 1
    BY DEF DeliveredOnce
  <2>1. received[h][n] <= 1
    BY DEF DeliveryInv, DeliveredOnce
  <2> QED
    BY <1>2, <2>1
<1>4. ASSUME NEW h \in Host, NEW n \in 1 .. MaxFrames, n > Len(sent)
      PROVE  received'[h][n] = 0
  <2>1. received[h][n] = 0
    BY <1>4 DEF DeliveryInv, CopiesAreApart
  <2>2. CASE received'[h][n] # received[h][n]
    <3>1. ~Leads(p, h) /\ n = f.number
      BY <1>2, <2>2
    <3>2. f.number <= Len(sent)
      BY <1>1 DEF FramesAreSent
    <3>3. Len(sent) \in Nat /\ MaxFrames \in Nat
      BY PortAssumption DEF FramesOK
    <3> QED
      BY <1>4, <3>1, <3>2, <3>3
  <2> QED
    BY <2>1, <2>2
<1>5. ASSUME NEW q \in Port, NEW i \in 1 .. Len(wire'[q]), NEW h \in Host,
             ~Leads(q, h)
      PROVE  received'[h][wire'[q][i].number] = 0
  <2>1. PICK r \in Port, m \in Nat :
          /\ Origin(p, k, q, i) = <<r, m>>
          /\ m \in 1 .. Len(wire[r])
          /\ wire'[q][i] = wire[r][m]
          /\ ~Leads(r, h)
          /\ <<r, m>> = <<p, k>> => Peer[q] \in ports
    <3> DEFINE o == Origin(p, k, q, i)
    <3>1. /\ o[1] \in Port /\ o[2] \in 1 .. Len(wire[o[1]])
          /\ wire'[q][i] = wire[o[1]][o[2]]
          /\ \A x \in Host : ~Leads(q, x) => ~Leads(o[1], x)
          /\ o = <<p, k>> => Peer[q] \in ports
      BY CopiesHaveOrigins
    <3>2. o = <<o[1], o[2]>>
      BY DEF Origin
    <3> QED
      BY <1>5, <3>1, <3>2
  <2>2. wire[r][m] \in Frame
    <3>1. wire[r] \in Seq(Frame)
      BY DEF FramesOK
    <3> QED
      BY <2>1, <3>1
  <2>3. wire[r][m].number \in 1 .. MaxFrames
    BY <2>2 DEF Frame
  <2>4. received[h][wire[r][m].number] = 0
    BY <2>1 DEF DeliveryInv, CopiesAreApart
  <2>5. SUFFICES ASSUME received'[h][wire[r][m].number]
                          # received[h][wire[r][m].number]
                 PROVE  FALSE
    BY <2>1, <2>4
  <2>6. Peer[h] \in ports /\ wire[r][m].number = f.number /\ ~Leads(p, h)
    BY <1>2, <2>3, <2>5
  <2>7. CASE <<r, m>> = <<p, k>>
    BY <1>5, <2>1, <2>6, <2>7, DeliveryIsAhead
  <2>8. CASE <<r, m>> # <<p, k>>
    <3>1. r # p \/ m # k
      BY <2>8
    <3>2. m \in 1 .. Len(wire[r]) /\ wire[r][m].number = wire[p][k].number
      BY <1>1, <2>1, <2>6
    <3>3. Leads(r, h) \/ Leads(p, h)
      BY <3>1, <3>2, PairsApart
    <3> QED
      BY <2>1, <2>6, <3>3
  <2> QED
    BY <2>7, <2>8
<1>6. ASSUME NEW q \in Port, NEW r \in Port,
             NEW i \in 1 .. Len(wire'[q]), NEW j \in 1 .. Len(wire'[r]),
             wire'[q][i].number = wire'[r][j].number, q # r \/ i # j,
             NEW h \in Host
      PROVE  Leads(q, h) \/ Leads(r, h)
  <2> DEFINE o == Origin(p, k, q, i)
             u == Origin(p, k, r, j)
  <2>1. /\ o[1] \in Port /\ o[2] \in 1 .. Len(wire[o[1]])
        /\ wire'[q][i] = wire[o[1]][o[2]]
        /\ ~Leads(q, h) => ~Leads(o[1], h)
        /\ IF o = <<p, k>>
             THEN Peer[q] \in ports /\ i = Len(wire'[q])
             ELSE o = <<q, i + Taken(p, k, q, i)>>
    BY CopiesHaveOrigins
  <2>2. /\ u[1] \in Port /\ u[2] \in 1 .. Len(wire[u[1]])
        /\ wire'[r][j] = wire[u[1]][u[2]]
        /\ ~Leads(r, h) => ~Leads(u[1], h)
        /\ IF u = <<p, k>>
             THEN Peer[r] \in ports /\ j = Len(wire'[r])
             ELSE u = <<r, j + Taken(p, k, r, j)>>
    BY CopiesHaveOrigins
  <2>3. o = <<o[1], o[2]>> /\ u = <<u[1], u[2]>>
    BY DEF Origin
  <2> HIDE DEF o, u
  <2>4. CASE o # u
    <3>1. o[1] # u[1] \/ o[2] # u[2]
      BY <2>3, <2>4
    <3>2. wire[o[1]][o[2]].number = wire[u[1]][u[2]].number
      BY <1>6, <2>1, <2>2
    <3> DEFINE a == o[1]
               m == o[2]
               b == u[1]
               n == u[2]
    <3>3. /\ a \in Port /\ b \in Port /\ m \in 1 .. Len(wire[a]) /\ n \in 1 .. Len(wire[b])
          /\ a # b \/ m # n
          /\ wire[a][m].number = wire[b][n].number
      BY <2>1, <2>2, <3>1, <3>2
    <3> HIDE DEF a, b, m, n
    <3>4. Leads(a, h) \/ Leads(b, h)
      BY <3>3, PairsApart
    <3> QED
      BY <2>1, <2>2, <3>4 DEF a, b
  <2>5. CASE o = u /\ o = <<p, k>>
    <3>1. q # r
      BY <1>6, <2>1, <2>2, <2>5
    <3> QED
      BY <2>1, <2>2, <2>5, <3>1, CopiesPart
  <2>6. CASE o = u /\ o # <<p, k>>
    <3>1. q = r /\ i + Taken(p, k, q, i) = j + Taken(p, k, q, j)
      BY <2>1, <2>2, <2>6
    <3>2. i \in Int /\ j \in Int /\ k \in Int
      OBVIOUS
    <3>3. i = j
      BY <3>1, <3>2 DEF Taken
    <3> QED
      BY <1>6, <3>1, <3>3
  <2> QED
    BY <2>4, <2>5, <2>6
<1>7. CopiesAreApart'
  BY <1>4, <1>5, <1>6 DEF CopiesAreApart
<1> QED
  BY <1>3, <1>7 DEF DeliveryInv

-----------------------------------------------------------------------------
(* Databases *)

\* What WaysStayKnown says of a switch that shares a port between hosts.
LEMMA NextStaysKnowing ==
  ASSUME AllWellConfigured, FramesOK, NEW q \in Port, NEW h \in Host, Shares(q, h)
  PROVE  LET next == Peer[q][1]
         IN  /\ Peer[q] \in Port
             /\ next \in Switch \ configuration.flooding
             /\ \A d \in configuration.later : h \in DOMAIN d[next]
             /\ \/ AlwaysNames(configuration, next, h)
                \/ \A d \in {configuration.initial} \cup configuration.later :
                     h \notin DOMAIN d[q[1]]
<1>1. PICK x \in Host : x # h /\ Leads(q, x)
  BY DEF Shares
<1>2. q[1] \notin configuration.flooding /\ Leads(q, h)
  BY DEF Shares
<1>3. Peer[q] \in Port /\ Peer[q][1] \in Switch
  BY <1>1, <1>2, NextIsASwitch
<1>4. configuration \in Configurations
  BY DEF FramesOK
<1>5. WaysStayKnown(configuration)
  BY <1>4 DEF AllWellConfigured
<1> QED
  BY <1>1, <1>2, <1>3, <1>5 DEF WaysStayKnown, AlwaysNames

\* What is known after a frame has been handled.
Learns(p, f) == p[1] \notin configuration.flooding /\ f.dest \in Host

Known(p, f, s) == IF s = p[1] /\ Learns(p, f) THEN DOMAIN operFdb[s] \cup {f.src}
                                              ELSE DOMAIN operFdb[s]

LEMMA InsertKeepsDatabases ==
  ASSUME DatabaseInv, NEW p \in Port, NEW f, f.src \in Host, Leads(p, f.src),
         operFdb' = [operFdb EXCEPT ![p[1]] = Insert(operFdb[p[1]], f, p)],
         UNCHANGED <<adminFdb, changeDatabase, configuration>>
  PROVE  /\ DatabaseInv'
         /\ \A s \in Switch :
              DOMAIN operFdb'[s] = IF s = p[1] THEN DOMAIN operFdb[s] \cup {f.src}
                                               ELSE DOMAIN operFdb[s]
<1>1. p[1] \in Switch /\ p = <<p[1], p[2]>> /\ DOMAIN operFdb = Switch
  BY PortsOfSwitches DEF DatabaseInv, DatabasesOK
<1>2. DOMAIN operFdb' = Switch
  BY <1>1
<1>3. ASSUME NEW s \in Switch
      PROVE  DOMAIN operFdb'[s] = IF s = p[1] THEN DOMAIN operFdb[s] \cup {f.src}
                                              ELSE DOMAIN operFdb[s]
  BY <1>1 DEF Insert, With
<1>3a. ASSUME NEW s \in Switch, NEW a \in DOMAIN operFdb'[s]
       PROVE  IF s = p[1] /\ a = f.src
                THEN operFdb'[s][a] = {p}
                ELSE a \in DOMAIN operFdb[s] /\ operFdb'[s][a] = operFdb[s][a]
  <2>1. CASE s = p[1]
    <3>1. operFdb'[s] = With(operFdb[s], f.src, {p})
      BY <1>1, <2>1 DEF Insert
    <3> QED
      BY <2>1, <3>1 DEF With
  <2>2. CASE s # p[1]
    <3>1. operFdb'[s] = operFdb[s]
      BY <1>1, <2>2
    <3> QED
      BY <2>2, <3>1
  <2> QED
    BY <2>1, <2>2
<1>4. DatabasesOK'
  <2>1. ASSUME NEW s \in Switch PROVE IsDatabase(operFdb'[s], s)
    <3>1. IsDatabase(operFdb[s], s)
      BY DEF DatabaseInv, DatabasesOK
    <3>2. s = p[1] => {p} \subseteq PortsOf(s)
      BY DEF PortsOf
    <3>3. DOMAIN operFdb'[s] \subseteq Host \cup {Group}
      <4>1. DOMAIN operFdb[s] \subseteq Host \cup {Group}
        BY <3>1 DEF IsDatabase
      <4> QED
        BY <1>3, <4>1
    <3>4. ASSUME NEW a \in DOMAIN operFdb'[s]
          PROVE  operFdb'[s][a] \subseteq PortsOf(s)
      <4>1. CASE s = p[1] /\ a = f.src
        BY <1>3a, <3>2, <4>1
      <4>2. CASE ~(s = p[1] /\ a = f.src)
        <5>1. a \in DOMAIN operFdb[s] /\ operFdb'[s][a] = operFdb[s][a]
          BY <1>3a, <4>2
        <5> QED
          BY <3>1, <5>1 DEF IsDatabase
      <4> QED
        BY <4>1, <4>2
    <3> QED
      BY <3>3, <3>4 DEF IsDatabase
  <2> QED
    BY <1>2, <2>1 DEF DatabaseInv, DatabasesOK
<1>5. EntriesLeadToHosts'
  <2> SUFFICES ASSUME NEW s \in Switch, NEW h \in DOMAIN operFdb'[s] \cap Host
               PROVE  operFdb'[s][h] = {<<s, Towards[s][h]>>}
    BY DEF EntriesLeadToHosts
  <2>1. CASE s = p[1] /\ h = f.src
    BY <1>1, <1>3a, <2>1 DEF Leads
  <2>2. CASE ~(s = p[1] /\ h = f.src)
    <3>1. h \in DOMAIN operFdb[s] \cap Host /\ operFdb'[s][h] = operFdb[s][h]
      BY <1>3a, <2>2
    <3> QED
      BY <3>1 DEF DatabaseInv, EntriesLeadToHosts
  <2> QED
    BY <2>1, <2>2
<1>6. WaitingIsLoaded' /\ GroupHasEntry' /\ AlwaysKnown'
  <2>1. \A s \in Switch : DOMAIN operFdb[s] \subseteq DOMAIN operFdb'[s]
    BY <1>3
  <2> QED
    BY <2>1 DEF DatabaseInv, WaitingIsLoaded, GroupHasEntry, AlwaysKnown, AlwaysNames
<1> QED
  BY <1>3, <1>4, <1>5, <1>6 DEF DatabaseInv

LEMMA TickKeepsDatabases ==
  ASSUME AllWellConfigured, FramesOK, DatabaseInv, NEW s \in Switch, Tick(s)
  PROVE  /\ DatabaseInv'
         /\ \E d \in configuration.later : operFdb'[s] = d[s]
         /\ \A t \in Switch \ {s} : operFdb'[t] = operFdb[t]
<1>1. /\ DOMAIN operFdb = Switch /\ DOMAIN adminFdb = Switch
      /\ DOMAIN changeDatabase = Switch
  BY DEF DatabaseInv, DatabasesOK
<1>2. PICK d \in configuration.later : adminFdb[s] = d[s]
  BY DEF Tick, DatabaseInv, WaitingIsLoaded
<1>3. /\ operFdb'[s] = d[s]
      /\ \A t \in Switch \ {s} : operFdb'[t] = operFdb[t]
      /\ DOMAIN operFdb' = Switch
  BY <1>1, <1>2 DEF Tick
<1>4. /\ adminFdb'[s] = NoEntries
      /\ \A t \in Switch \ {s} : adminFdb'[t] = adminFdb[t]
      /\ DOMAIN adminFdb' = Switch
  BY <1>1 DEF Tick
<1>5. /\ ~changeDatabase'[s]
      /\ \A t \in Switch \ {s} : changeDatabase'[t] = changeDatabase[t]
      /\ DOMAIN changeDatabase' = Switch
  BY <1>1 DEF Tick
<1>6. /\ configuration' = configuration /\ configuration \in Configurations
      /\ HasRightDatabases(configuration)
  BY DEF Tick, FramesOK, AllWellConfigured
<1>7. /\ IsDatabase(d[s], s)
      /\ \A h \in DOMAIN d[s] \cap Host : d[s][h] = {<<s, Towards[s][h]>>}
      /\ s \notin configuration.flooding => Group \in DOMAIN d[s]
  BY <1>6 DEF HasRightDatabases
<1>8. IsDatabase(NoEntries, s)
  BY DEF IsDatabase, NoEntries
<1>9. DatabasesOK'
  BY <1>3, <1>4, <1>5, <1>7, <1>8 DEF DatabaseInv, DatabasesOK
<1>10. WaitingIsLoaded'
  BY <1>4, <1>5, <1>6 DEF DatabaseInv, WaitingIsLoaded
<1>11. GroupHasEntry' /\ AlwaysKnown' /\ EntriesLeadToHosts'
  BY <1>3, <1>6, <1>7
     DEF DatabaseInv, GroupHasEntry, AlwaysKnown, AlwaysNames, EntriesLeadToHosts
<1> QED
  BY <1>3, <1>9, <1>10, <1>11 DEF DatabaseInv

LEMMA LoadKeepsDatabases ==
  ASSUME AllWellConfigured, FramesOK, DatabaseInv,
         NEW s \in Switch, NEW d \in configuration.later, LoadDatabase(s, d[s])
  PROVE  DatabaseInv'
<1>1. /\ DOMAIN adminFdb = Switch /\ DOMAIN changeDatabase = Switch
  BY DEF DatabaseInv, DatabasesOK
<1>2. /\ adminFdb'[s] = d[s]
      /\ \A t \in Switch \ {s} : adminFdb'[t] = adminFdb[t]
      /\ DOMAIN adminFdb' = Switch
      /\ \A t \in Switch \ {s} : changeDatabase'[t] = changeDatabase[t]
      /\ DOMAIN changeDatabase' = Switch
  BY <1>1 DEF LoadDatabase
<1>3. configuration' = configuration /\ operFdb' = operFdb
  BY DEF LoadDatabase
<1>4. IsDatabase(d[s], s)
  BY DEF FramesOK, AllWellConfigured, HasRightDatabases
<1>5. DatabasesOK' /\ WaitingIsLoaded'
  BY <1>2, <1>3, <1>4 DEF DatabaseInv, DatabasesOK, WaitingIsLoaded
<1>6. GroupHasEntry' /\ AlwaysKnown' /\ EntriesLeadToHosts'
  BY <1>3 DEF DatabaseInv, GroupHasEntry, AlwaysKnown, AlwaysNames, EntriesLeadToHosts
<1> QED
  BY <1>5, <1>6 DEF DatabaseInv

-----------------------------------------------------------------------------
(* Who knows whom, when a frame is handled *)

\* A switch sends a frame only towards a destination that it knows.
FollowsEntry(p, f, ports) ==
  \A o \in ports :
    Learns(p, f) /\ f.dest \in Known(p, f, p[1]) => Leads(o, f.dest)

LEMMA LearnedComesFromThere ==
  ASSUME FramesOK, FramesAreSent, MovesAway, NEW p \in Port, NEW k \in 1 .. Len(wire[p]),
         NEW q \in Port, NEW h \in Host, Leads(q, h),
         h \in Known(p, wire[p][k], q[1]), h \notin DOMAIN operFdb[q[1]]
  PROVE  q = p /\ Teaches(wire[p][k], h)
<1>1. q[1] = p[1] /\ Learns(p, wire[p][k]) /\ h = wire[p][k].src
  BY DEF Known
<1>2. Leads(p, h)
  BY <1>1 DEF MovesAway
<1>3. q = p
  BY <1>1, <1>2, PortsOfSwitches DEF Leads
<1> QED
  BY <1>1, <1>3 DEF Teaches, Learns

\* A frame that comes from a host is not the next one of its queue as long as
\* one that is astray on its way to this host stands before it.
LEMMA StrayIsNotOvertaken ==
  ASSUME AllWellConfigured, FramesOK, FramesAreSent, MovesAway,
         NEW q \in Port, NEW k \in 1 .. Len(wire[q]), IsNext(q, k),
         NEW m \in 1 .. k - 1, Astray(q, wire[q][m]),
         ~AlwaysNames(configuration, Peer[q][1], wire[q][m].dest)
  PROVE  ~Teaches(wire[q][k], wire[q][m].dest)
<1> DEFINE s == StreamOf(wire[q][m])
           t == StreamOf(wire[q][k])
<1>1. SUFFICES ASSUME Teaches(wire[q][k], wire[q][m].dest) PROVE FALSE
  OBVIOUS
<1>2. wire[q] \in Seq(Frame) /\ m \in 1 .. Len(wire[q])
  BY DEF FramesOK
<1>3. /\ s \in configuration.streams /\ t \in configuration.streams
      /\ Leads(q, s.src)
  BY <1>2 DEF FramesAreSent, MovesAway, StreamOf
<1>4. /\ q[1] \notin configuration.flooding /\ s.dest \in Host /\ Leads(q, s.dest)
      /\ t.dest \in Host /\ t.src = s.dest
      /\ ~AlwaysNames(configuration, Peer[q][1], s.dest)
  BY <1>1 DEF Astray, Teaches, StreamOf
<1>5. KeepsOrder(configuration)
  BY DEF AllWellConfigured, FramesOK
<1> HIDE DEF s, t
<1>6. configuration.queueOf[Peer[q]][s.priority] = configuration.queueOf[Peer[q]][t.priority]
  BY <1>3, <1>4, <1>5 DEF KeepsOrder
<1>7. SenderQueue(q, wire[q][m]) = SenderQueue(q, wire[q][k])
  BY <1>6 DEF SenderQueue, StreamOf, s, t
<1> QED
  BY <1>7 DEF IsNext

LEMMA HandlingKeepsKnowledge ==
  ASSUME AllWellConfigured, FramesOK, DatabaseInv, WireInv,
         NEW p \in Port, NEW k \in 1 .. Len(wire[p]), NEW ports, Onward(p, ports),
         IsNext(p, k), Copy(p, k, ports), FollowsEntry(p, wire[p][k], ports),
         \A s \in Switch : DOMAIN operFdb'[s] = Known(p, wire[p][k], s),
         UNCHANGED <<configuration, sent>>
  PROVE  WireInv'
<1> DEFINE f == wire[p][k]
<1>1. f \in Frame
  BY CopyKeepsTypes
<1>2. FramesAreSent /\ MovesAway /\ NextKnows /\ StrayIsFlooded
  BY DEF WireInv
<1>3. FramesAreSent' /\ MovesAway'
  BY <1>2, CopyMovesAway
<1>4. \A s \in Switch : DOMAIN operFdb'[s] = Known(p, f, s)
  OBVIOUS
<1>5. \A s \in Switch : DOMAIN operFdb[s] \subseteq DOMAIN operFdb'[s]
  BY <1>4 DEF Known
<1>6. ASSUME NEW q \in Port, NEW i \in 1 .. Len(wire'[q]),
             i + Taken(p, k, q, i) <= Len(wire[q])
      PROVE  /\ wire'[q][i] = wire[q][i + Taken(p, k, q, i)]
             /\ i + Taken(p, k, q, i) \in 1 .. Len(wire[q])
  BY <1>6, CopyMovesUp
<1>7. ASSUME NEW q \in Port, NEW i \in 1 .. Len(wire'[q]),
             ~(i + Taken(p, k, q, i) <= Len(wire[q]))
      PROVE  /\ wire'[q][i] = f /\ Peer[q] \in ports
             /\ Peer[q] \in Port /\ Peer[q][1] = p[1]
  <2>1. wire'[q][i] = f /\ Peer[q] \in ports
    BY <1>7, CopyMovesUp
  <2> QED
    BY <2>1 DEF Onward, PortsOf
<1> HIDE DEF f
<1>8. ASSUME NEW q \in Port, NEW h \in Host, Shares(q, h)
      PROVE  /\ Peer[q] \in Port /\ Peer[q][1] \in Switch \ configuration.flooding
             /\ q[1] \in Switch /\ Leads(q, h)
             /\ h \in DOMAIN operFdb[q[1]] => h \in DOMAIN operFdb[Peer[q][1]]
             /\ \A i \in 1 .. Len(wire[q]) :
                  Teaches(wire[q][i], h) => h \in DOMAIN operFdb[Peer[q][1]]
  BY <1>2, <1>8, NextStaysKnowing, PortsOfSwitches DEF NextKnows, Shares
<1>9. ASSUME NEW q \in Port, NEW h \in Host, Shares(q, h)
      PROVE  /\ h \in DOMAIN operFdb'[q[1]] => h \in DOMAIN operFdb'[Peer[q][1]]
             /\ \A i \in 1 .. Len(wire'[q]) :
                  Teaches(wire'[q][i], h) => h \in DOMAIN operFdb'[Peer[q][1]]
  <2>1. /\ Peer[q] \in Port /\ Peer[q][1] \in Switch \ configuration.flooding
        /\ q[1] \in Switch /\ Leads(q, h)
    BY <1>8, <1>9
  <2>2. ASSUME h \in DOMAIN operFdb[Peer[q][1]]
        PROVE  h \in DOMAIN operFdb'[Peer[q][1]]
    BY <1>5, <2>1, <2>2
  <2>3. ASSUME h \in DOMAIN operFdb'[q[1]]
        PROVE  h \in DOMAIN operFdb[Peer[q][1]]
    <3>1. CASE h \in DOMAIN operFdb[q[1]]
      BY <1>8, <1>9, <3>1
    <3>2. CASE h \notin DOMAIN operFdb[q[1]]
      <4>1. h \in Known(p, f, q[1])
        BY <1>4, <2>1, <2>3
      <4>2. q = p /\ Teaches(f, h)
        BY <1>2, <2>1, <3>2, <4>1, LearnedComesFromThere DEF f
      <4> QED
        BY <1>1, <1>8, <1>9, <4>2 DEF f
    <3> QED
      BY <3>1, <3>2
  <2>4. ASSUME NEW i \in 1 .. Len(wire'[q]), Teaches(wire'[q][i], h)
        PROVE  h \in DOMAIN operFdb'[Peer[q][1]]
    <3>1. CASE i + Taken(p, k, q, i) <= Len(wire[q])
      <4>1. h \in DOMAIN operFdb[Peer[q][1]]
        BY <1>6, <1>8, <1>9, <2>4, <3>1
      <4> QED
        BY <2>2, <4>1
    <3>2. CASE ~(i + Taken(p, k, q, i) <= Len(wire[q]))
      <4>1. Teaches(f, h) /\ Peer[q][1] = p[1]
        BY <1>7, <2>4, <3>2
      <4>2. h \in Known(p, f, p[1])
        BY <2>1, <4>1 DEF Known, Learns, Teaches
      <4> QED
        BY <1>4, <2>1, <4>1, <4>2
    <3> QED
      BY <3>1, <3>2
  <2> QED
    BY <2>2, <2>3, <2>4
<1>10. \A q \in Port, h \in Host : Shares(q, h)' <=> Shares(q, h)
  BY DEF Shares
<1>11. NextKnows'
  BY <1>9, <1>10 DEF NextKnows
<1>12. ASSUME NEW q \in Port, NEW i \in 1 .. Len(wire'[q]),
              Astray(q, wire'[q][i])
       PROVE  /\ wire'[q][i].dest \notin DOMAIN operFdb'[q[1]]
              /\ ~AlwaysNames(configuration, Peer[q][1], wire'[q][i].dest)
              /\ \A j \in 1 .. i - 1 : ~Teaches(wire'[q][j], wire'[q][i].dest)
  <2> DEFINE h == wire'[q][i].dest
  <2>1. h \in Host /\ Leads(q, h) /\ q[1] \notin configuration.flooding
    BY <1>12 DEF Astray
  <2>2. Len(wire'[q]) \in Nat /\ i \in Nat /\ i >= 1 /\ i <= Len(wire'[q])
    <3>1. wire' \in [Port -> Seq(Frame)]
      BY CopyKeepsTypes
    <3> QED
      BY <3>1
  <2>3. /\ Leads(q, wire'[q][i].src) /\ h # wire'[q][i].src
        /\ wire'[q][i].src \in Host
    <3>1. wire'[q] \in Seq(Frame)
      BY CopyKeepsTypes
    <3>2. wire'[q][i] \in Frame
      BY <3>1
    <3> QED
      BY <1>3, <3>2 DEF FramesAreSent, MovesAway, Frame
  <2>4. Shares(q, h)
    BY <2>1, <2>3 DEF Shares
  <2>5. /\ Peer[q] \in Port /\ Peer[q][1] \in Switch \ configuration.flooding
        /\ q[1] \in Switch
    BY <1>8, <2>1, <2>4
  <2>6. /\ Len(wire[q]) \in Nat /\ k \in Int
        /\ \A j : Taken(p, k, q, j) \in {0, 1}
    BY DEF Taken, FramesOK
  <2>7. CASE i + Taken(p, k, q, i) <= Len(wire[q])
    <3> DEFINE m == i + Taken(p, k, q, i)
    <3>1. wire'[q][i] = wire[q][m] /\ m \in 1 .. Len(wire[q]) /\ h = wire[q][m].dest
      BY <1>6, <2>7
    <3>2. /\ h \notin DOMAIN operFdb[q[1]]
          /\ ~AlwaysNames(configuration, Peer[q][1], h)
          /\ \A j \in 1 .. m - 1 : ~Teaches(wire[q][j], h)
      BY <1>2, <1>12, <3>1 DEF StrayIsFlooded
    <3>3. h \notin DOMAIN operFdb'[q[1]]
      <4>1. SUFFICES ASSUME h \in DOMAIN operFdb'[q[1]] PROVE FALSE
        OBVIOUS
      <4>2. h \in Known(p, f, q[1])
        BY <1>4, <2>5, <4>1
      <4>3. q = p /\ Teaches(f, h)
        BY <1>2, <2>1, <3>2, <4>2, LearnedComesFromThere DEF f
      <4>4. m # k /\ m \in Int
        BY <2>2, <2>6, <4>3 DEF Taken
      <4>5. CASE k < m
        <5>1. k \in 1 .. m - 1
          BY <2>6, <4>4, <4>5
        <5> QED
          BY <3>2, <4>3, <5>1 DEF f
      <4>6. CASE m < k
        <5>1. m \in 1 .. k - 1
          BY <2>6, <3>1, <4>4, <4>6
        <5>2. Astray(q, wire[q][m])
          BY <1>12, <3>1
        <5>3. ~Teaches(wire[q][k], h)
          BY <1>2, <3>1, <3>2, <4>3, <5>1, <5>2, StrayIsNotOvertaken
        <5> QED
          BY <4>3, <5>3 DEF f
      <4> QED
        BY <2>6, <4>4, <4>5, <4>6
    <3>4. ASSUME NEW j \in 1 .. i - 1 PROVE ~Teaches(wire'[q][j], h)
      <4>1. /\ j \in 1 .. Len(wire'[q]) /\ j + Taken(p, k, q, j) <= Len(wire[q])
            /\ j + Taken(p, k, q, j) \in 1 .. m - 1
        <5>1. j \in Nat /\ j >= 1 /\ j <= i - 1
          BY <2>2
        <5> HIDE DEF h
        <5> QED
          BY <2>2, <2>6, <2>7, <5>1 DEF Taken
      <4>2. wire'[q][j] = wire[q][j + Taken(p, k, q, j)]
        BY <1>6, <4>1
      <4> QED
        BY <3>2, <4>1, <4>2
    <3> QED
      BY <3>2, <3>3, <3>4
  <2>8. CASE ~(i + Taken(p, k, q, i) <= Len(wire[q]))
    <3>1. /\ h = f.dest /\ Peer[q] \in ports /\ Peer[q][1] = p[1]
      BY <1>7, <2>8
    <3>2. Peer[q] \notin Host
      BY <2>5, PortAssumption
    <3>3. ~Leads(Peer[q], h)
      BY <2>1, <3>2, TreeAssumption
    <3>4. Learns(p, f)
      BY <2>1, <2>5, <3>1 DEF Learns
    <3>5. FollowsEntry(p, f, ports)
      BY DEF f
    <3>6. h \notin Known(p, f, p[1])
      BY <3>1, <3>3, <3>4, <3>5 DEF FollowsEntry
    <3>7. h \notin DOMAIN operFdb'[Peer[q][1]]
      BY <1>4, <2>5, <3>1, <3>6
    <3>8. h \notin DOMAIN operFdb[Peer[q][1]]
      BY <1>5, <2>5, <3>7
    <3>9. ~AlwaysNames(configuration, Peer[q][1], h)
      BY <2>1, <2>5, <3>8 DEF DatabaseInv, AlwaysKnown
    <3>10. /\ h \notin DOMAIN operFdb'[q[1]]
           /\ \A j \in 1 .. Len(wire'[q]) : ~Teaches(wire'[q][j], h)
      BY <1>9, <2>1, <2>4, <3>7
    <3>11. 1 .. i - 1 \subseteq 1 .. Len(wire'[q])
      BY <2>2
    <3> QED
      BY <3>9, <3>10, <3>11
  <2> QED
    BY <2>7, <2>8
<1>13. StrayIsFlooded'
  <2>1. \A q \in Port : \A g : Astray(q, g)' <=> Astray(q, g)
    BY DEF Astray
  <2>2. configuration' = configuration
    OBVIOUS
  <2> QED
    BY <1>12, <2>1, <2>2 DEF StrayIsFlooded, Astray, AlwaysNames
<1> QED
  BY <1>3, <1>11, <1>13 DEF WireInv

-----------------------------------------------------------------------------
(* The actions *)

LEMMA FrameFacts ==
  ASSUME FramesOK, FramesAreSent, MovesAway,
         NEW p \in Port, NEW k \in 1 .. Len(wire[p])
  PROVE  LET f == wire[p][k]
         IN  f \in Frame /\ f.src \in Host /\ Leads(p, f.src) /\ f.dest # f.src
<1>1. wire[p] \in Seq(Frame)
  BY DEF FramesOK
<1>2. wire[p][k] \in Frame
  BY <1>1
<1> QED
  BY <1>2 DEF FramesAreSent, MovesAway, Frame

\* The ports of a unicast frame: where its destination is, if that is known.
LEMMA UnicastGoesOn ==
  ASSUME FramesOK, DatabaseInv, WireInv, NEW p \in Port, NEW k \in 1 .. Len(wire[p]),
         p[1] \notin configuration.flooding, wire[p][k].dest \in Host,
         NEW d, d = Insert(operFdb[p[1]], wire[p][k], p)
  PROVE  LET f == wire[p][k]
             ports == UnicastPorts(d, f, p)
         IN  Onward(p, ports) /\ FollowsEntry(p, f, ports)
<1> DEFINE f == wire[p][k]
           ports == UnicastPorts(d, f, p)
           s == p[1]
<1>1. f.src \in Host /\ Leads(p, f.src) /\ f.dest # f.src
  BY FrameFacts DEF WireInv
<1>2. /\ DOMAIN d = DOMAIN operFdb[s] \cup {f.src}
      /\ \A a \in DOMAIN d : a # f.src => d[a] = operFdb[s][a]
  BY DEF Insert, With
<1>3. s \in Switch
  BY PortsOfSwitches
<1>4. f.dest \in DOMAIN d => d[f.dest] = {<<s, Towards[s][f.dest]>>}
  BY <1>1, <1>2, <1>3 DEF DatabaseInv, EntriesLeadToHosts
<1>5. <<s, Towards[s][f.dest]>> \in Port
  BY <1>3, TreeAssumption
<1>6. Known(p, f, s) = DOMAIN d
  BY <1>2 DEF Known, Learns
<1>7. CASE f.dest \in DOMAIN d
  <2>1. ports = {<<s, Towards[s][f.dest]>>}
    BY <1>4, <1>5, <1>7 DEF UnicastPorts, Located
  <2>2. ~Leads(p, f.dest)
    <3>1. SUFFICES ASSUME Leads(p, f.dest) PROVE FALSE
      OBVIOUS
    <3>2. Astray(p, wire[p][k])
      BY <1>1, <3>1 DEF Astray
    <3>3. f.dest \notin DOMAIN operFdb[s]
      BY <1>1, <3>2 DEF WireInv, StrayIsFlooded
    <3> QED
      BY <1>1, <1>2, <1>7, <3>3
  <2>3. <<s, Towards[s][f.dest]>> # p
    BY <2>2 DEF Leads
  <2>4. Onward(p, ports)
    BY <1>5, <2>1, <2>3 DEF Onward, PortsOf
  <2>5. FollowsEntry(p, f, ports)
    BY <2>1 DEF FollowsEntry, Leads
  <2> QED
    BY <2>4, <2>5
<1>8. CASE f.dest \notin DOMAIN d
  <2>1. ports = FloodPorts(p)
    BY <1>8 DEF UnicastPorts, Located
  <2>2. Onward(p, ports)
    BY <2>1 DEF FloodPorts, Onward
  <2>3. FollowsEntry(p, f, ports)
    BY <1>6, <1>8 DEF FollowsEntry
  <2> QED
    BY <2>2, <2>3
<1> QED
  BY <1>7, <1>8

\* Copies that are not lost go the same ways.
LEMMA SendCopies ==
  ASSUME NEW p, NEW k, NEW f, NEW ports, Send(p, k, ports), Onward(p, ports),
         FollowsEntry(p, f, ports)
  PROVE  \E out : Onward(p, out) /\ FollowsEntry(p, f, out) /\ Copy(p, k, out)
<1>1. PICK gone \in SUBSET (ports \cap configuration.lossy) : Copy(p, k, ports \ gone)
  BY DEF Send
<1>2. Onward(p, ports \ gone) /\ FollowsEntry(p, f, ports \ gone)
  BY DEF Onward, FollowsEntry
<1> QED
  BY <1>1, <1>2

\* However a frame is handled, it goes on, what is known changes by what it
\* teaches, and no error occurs.
LEMMA HandlingGoesOn ==
  ASSUME FramesOK, DatabaseInv, WireInv, GroupIsKnown,
         NEW p \in Port, NEW k \in 1 .. Len(wire[p]),
         Forward(p, k) \/ Flood(p, k),
         UNCHANGED <<adminFdb, changeDatabase, configuration, sent>>
  PROVE  /\ DatabaseInv' /\ GroupIsKnown'
         /\ \A s \in Switch : DOMAIN operFdb'[s] = Known(p, wire[p][k], s)
         /\ \E ports : /\ Onward(p, ports)
                       /\ FollowsEntry(p, wire[p][k], ports)
                       /\ Copy(p, k, ports)
<1> DEFINE f == wire[p][k]
<1>1. f \in Frame /\ f.src \in Host /\ Leads(p, f.src)
  BY FrameFacts DEF WireInv
<1>2. f.dest \in Host => f.dest # Group /\ f.dest # Broadcast
  BY AddressAssumption
<1>3. p[1] \in Switch
  BY PortsOfSwitches
<1>4. Onward(p, FloodPorts(p))
  BY DEF Onward, FloodPorts
<1>5. ASSUME UNCHANGED <<operFdb, failed>>, ~Learns(p, f)
      PROVE  /\ DatabaseInv' /\ GroupIsKnown'
             /\ \A s \in Switch : DOMAIN operFdb'[s] = Known(p, f, s)
  <2>1. DatabaseInv'
    BY <1>5
       DEF DatabaseInv, DatabasesOK, WaitingIsLoaded, GroupHasEntry, AlwaysKnown,
           AlwaysNames, EntriesLeadToHosts
  <2> QED
    BY <1>5, <2>1 DEF GroupIsKnown, Known
<1>6. CASE Flood(p, k)
  <2>1. ~Learns(p, f)
    BY <1>6 DEF Flood, Learns
  <2>2. Send(p, k, FloodPorts(p)) /\ UNCHANGED <<operFdb, failed>>
    BY <1>6 DEF Flood
  <2>3. FollowsEntry(p, f, FloodPorts(p))
    BY <2>1 DEF FollowsEntry
  <2> QED
    BY <1>4, <1>5, <2>1, <2>2, <2>3, SendCopies
<1>7. CASE Forward(p, k) /\ ProcessBroadcast(p, k)
  <2>1. ~Learns(p, f)
    BY <1>2, <1>7 DEF ProcessBroadcast, Learns
  <2>2. Send(p, k, FloodPorts(p)) /\ UNCHANGED <<operFdb, failed>>
    BY <1>7 DEF ProcessBroadcast
  <2>3. FollowsEntry(p, f, FloodPorts(p))
    BY <2>1 DEF FollowsEntry
  <2> QED
    BY <1>4, <1>5, <2>1, <2>2, <2>3, SendCopies
<1>8. CASE Forward(p, k) /\ ProcessMulticast(p, k)
  <2> DEFINE ports == MulticastPorts(operFdb[p[1]], p)
  <2>1. ~Learns(p, f)
    BY <1>2, <1>8 DEF ProcessMulticast, Learns
  <2>2. Group \in DOMAIN operFdb[p[1]]
    BY <1>3, <1>8 DEF Forward, DatabaseInv, GroupHasEntry
  <2>3. Send(p, k, ports) /\ UNCHANGED <<operFdb, failed>>
    BY <1>8, <2>2 DEF ProcessMulticast
  <2>4. FollowsEntry(p, f, ports)
    BY <2>1 DEF FollowsEntry
  <2>5. Onward(p, ports)
    BY <1>3, <2>2 DEF Onward, MulticastPorts, DatabaseInv, DatabasesOK, IsDatabase
  <2> HIDE DEF ports
  <2> QED
    BY <1>5, <2>1, <2>3, <2>4, <2>5, SendCopies
<1>9. CASE Forward(p, k) /\ ProcessUnicast(p, k)
  <2> DEFINE d == Insert(operFdb[p[1]], f, p)
             ports == UnicastPorts(d, f, p)
  <2>1. /\ p[1] \notin configuration.flooding /\ f.dest \in Host
        /\ operFdb' = [operFdb EXCEPT ![p[1]] = d]
        /\ Send(p, k, ports) /\ failed' = failed
    BY <1>9 DEF Forward, ProcessUnicast
  <2>2. Onward(p, ports) /\ FollowsEntry(p, f, ports)
    BY <2>1, UnicastGoesOn
  <2>3. /\ DatabaseInv'
        /\ \A s \in Switch :
             DOMAIN operFdb'[s] = IF s = p[1] THEN DOMAIN operFdb[s] \cup {f.src}
                                              ELSE DOMAIN operFdb[s]
    BY <1>1, <2>1, InsertKeepsDatabases
  <2>4. \A s \in Switch : DOMAIN operFdb'[s] = Known(p, f, s)
    BY <2>1, <2>3 DEF Known, Learns
  <2>5. GroupIsKnown'
    BY <2>1 DEF GroupIsKnown
  <2> HIDE DEF ports
  <2> QED
    BY <2>1, <2>2, <2>3, <2>4, <2>5, SendCopies
<1> QED
  BY <1>6, <1>7, <1>8, <1>9 DEF Forward

LEMMA ReceiveKeepsInv ==
  ASSUME AllWellConfigured, RelayInv, NEW p \in Port, Receive(p)
  PROVE  RelayInv'
<1>1. /\ FramesOK /\ DatabaseInv /\ WireInv /\ DeliveryInv /\ GroupIsKnown
      /\ FramesAreSent
  BY DEF RelayInv, WireInv
<1>2. UNCHANGED <<adminFdb, changeDatabase, configuration, sent>>
  BY DEF Receive
<1>3. PICK k \in 1 .. Len(wire[p]) : IsNext(p, k) /\ (Forward(p, k) \/ Flood(p, k))
  <2>1. wire[p] \in Seq(Frame)
    BY <1>1 DEF FramesOK
  <2>2. DOMAIN wire[p] = 1 .. Len(wire[p])
    BY <2>1
  <2> QED
    BY <2>2 DEF Receive
<1>4. /\ DatabaseInv' /\ GroupIsKnown'
      /\ \A s \in Switch : DOMAIN operFdb'[s] = Known(p, wire[p][k], s)
  BY <1>1, <1>2, <1>3, HandlingGoesOn
<1>5. PICK ports : /\ Onward(p, ports)
                   /\ FollowsEntry(p, wire[p][k], ports)
                   /\ Copy(p, k, ports)
  BY <1>1, <1>2, <1>3, HandlingGoesOn
<1>6. WireInv'
  BY <1>1, <1>2, <1>3, <1>4, <1>5, HandlingKeepsKnowledge
<1>7. DeliveryInv'
  BY <1>1, <1>2, <1>5, CopyKeepsApart
<1>8. FramesOK'
  <2>1. wire' \in [Port -> Seq(Frame)] /\ received' \in [Host -> [1 .. MaxFrames -> Nat]]
    BY <1>1, <1>5, CopyKeepsTypes
  <2> QED
    BY <1>1, <1>2, <2>1 DEF FramesOK
<1> QED
  BY <1>4, <1>6, <1>7, <1>8 DEF RelayInv

LEMMA TickKeepsInv ==
  ASSUME AllWellConfigured, RelayInv, NEW s \in Switch, Tick(s)
  PROVE  RelayInv'
<1>1. FramesOK /\ DatabaseInv /\ WireInv /\ DeliveryInv /\ GroupIsKnown
  BY DEF RelayInv
<1>2. UNCHANGED <<configuration, wire, received, sent, failed>>
  BY DEF Tick
<1>3. /\ DatabaseInv'
      /\ \A t \in Switch \ {s} : operFdb'[t] = operFdb[t]
  BY <1>1, TickKeepsDatabases
<1>4. PICK d \in configuration.later : operFdb'[s] = d[s]
  BY <1>1, TickKeepsDatabases
<1>5. FramesOK' /\ DeliveryInv' /\ GroupIsKnown' /\ FramesAreSent' /\ MovesAway'
  BY <1>1, <1>2
     DEF FramesOK, DeliveryInv, CopiesAreApart, DeliveredOnce, GroupIsKnown,
         WireInv, FramesAreSent, StreamOf, MovesAway
<1>6. ASSUME NEW q \in Port, NEW h \in Host, Shares(q, h)
      PROVE  /\ Peer[q][1] \in Switch /\ q[1] \in Switch
             /\ h \in DOMAIN operFdb[Peer[q][1]] => h \in DOMAIN operFdb'[Peer[q][1]]
             /\ \/ AlwaysNames(configuration, Peer[q][1], h) /\ h \in DOMAIN operFdb'[Peer[q][1]]
                \/ h \in DOMAIN operFdb'[q[1]] => h \in DOMAIN operFdb[q[1]]
  <2>1. /\ Peer[q][1] \in Switch
        /\ \A e \in configuration.later : h \in DOMAIN e[Peer[q][1]]
        /\ \/ AlwaysNames(configuration, Peer[q][1], h)
           \/ \A e \in {configuration.initial} \cup configuration.later :
                h \notin DOMAIN e[q[1]]
    BY <1>1, <1>6, NextStaysKnowing
  <2>2. q[1] \in Switch
    BY PortsOfSwitches
  <2>3. h \in DOMAIN operFdb[Peer[q][1]] => h \in DOMAIN operFdb'[Peer[q][1]]
    BY <1>3, <1>4, <2>1
  <2>4. CASE AlwaysNames(configuration, Peer[q][1], h)
    <3>1. h \in DOMAIN operFdb[Peer[q][1]]
      BY <1>1, <2>1, <2>4 DEF DatabaseInv, AlwaysKnown
    <3> QED
      BY <2>1, <2>2, <2>3, <2>4, <3>1
  <2>5. CASE ~AlwaysNames(configuration, Peer[q][1], h)
    <3>1. h \notin DOMAIN d[q[1]]
      BY <2>1, <2>5
    <3>2. h \in DOMAIN operFdb'[q[1]] => h \in DOMAIN operFdb[q[1]]
      BY <1>3, <1>4, <2>2, <3>1
    <3> QED
      BY <2>1, <2>2, <2>3, <3>2
  <2> QED
    BY <2>4, <2>5
<1>7. NextKnows'
  <2> SUFFICES ASSUME NEW q \in Port, NEW h \in Host, Shares(q, h)
               PROVE  /\ h \in DOMAIN operFdb'[q[1]]
                           => h \in DOMAIN operFdb'[Peer[q][1]]
                      /\ \A i \in 1 .. Len(wire[q]) :
                           Teaches(wire[q][i], h) => h \in DOMAIN operFdb'[Peer[q][1]]
    BY <1>2 DEF NextKnows, Shares
  <2>1. /\ h \in DOMAIN operFdb[q[1]] => h \in DOMAIN operFdb[Peer[q][1]]
        /\ \A i \in 1 .. Len(wire[q]) :
             Teaches(wire[q][i], h) => h \in DOMAIN operFdb[Peer[q][1]]
    BY <1>1 DEF WireInv, NextKnows
  <2> QED
    BY <1>6, <2>1
<1>8. StrayIsFlooded'
  <2> SUFFICES ASSUME NEW q \in Port, NEW i \in 1 .. Len(wire[q]),
                      Astray(q, wire[q][i])
               PROVE  /\ wire[q][i].dest \notin DOMAIN operFdb'[q[1]]
                      /\ ~AlwaysNames(configuration, Peer[q][1], wire[q][i].dest)
                      /\ \A j \in 1 .. i - 1 : ~Teaches(wire[q][j], wire[q][i].dest)
    BY <1>2 DEF StrayIsFlooded, Astray, AlwaysNames
  <2>1. /\ wire[q][i].dest \notin DOMAIN operFdb[q[1]]
        /\ ~AlwaysNames(configuration, Peer[q][1], wire[q][i].dest)
        /\ \A j \in 1 .. i - 1 : ~Teaches(wire[q][j], wire[q][i].dest)
    BY <1>1 DEF WireInv, StrayIsFlooded
  <2>2. wire[q][i] \in Frame
    <3>1. wire[q] \in Seq(Frame)
      BY <1>1 DEF FramesOK
    <3> QED
      BY <3>1
  <2>3. Shares(q, wire[q][i].dest) /\ wire[q][i].dest \in Host
    BY <1>1, <2>2 DEF Astray, Shares, WireInv, FramesAreSent, MovesAway, Frame
  <2> QED
    BY <1>6, <2>1, <2>3
<1> QED
  BY <1>3, <1>5, <1>7, <1>8 DEF RelayInv, WireInv

LEMMA LoadKeepsInv ==
  ASSUME AllWellConfigured, RelayInv, NEW s \in Switch,
         NEW d \in configuration.later, LoadDatabase(s, d[s])
  PROVE  RelayInv'
<1>1. FramesOK /\ DatabaseInv
  BY DEF RelayInv
<1>2. DatabaseInv'
  BY <1>1, LoadKeepsDatabases
<1>3. UNCHANGED <<operFdb, configuration, wire, received, sent, failed>>
  BY DEF LoadDatabase
<1>4. FramesOK' /\ DeliveryInv' /\ GroupIsKnown'
  BY <1>3
     DEF RelayInv, FramesOK, DeliveryInv, CopiesAreApart, DeliveredOnce, GroupIsKnown
<1>5. WireInv'
  BY <1>3
     DEF RelayInv, WireInv, FramesAreSent, StreamOf, MovesAway, NextKnows, Shares,
         StrayIsFlooded, Astray, AlwaysNames
<1> QED
  BY <1>2, <1>4, <1>5 DEF RelayInv

LEMMA SendFrameKeepsInv ==
  ASSUME AllWellConfigured, RelayInv, NEW t \in configuration.streams, SendFrame(t)
  PROVE  RelayInv'
<1> DEFINE f == NewFrame(t)
           h == t.src
<1>1. FramesOK /\ DatabaseInv /\ WireInv /\ DeliveryInv /\ GroupIsKnown
  BY DEF RelayInv
<1>2. FramesOK' /\ Len(sent') = Len(sent) + 1 /\ Len(sent) \in Nat
  BY <1>1, SendFrameKeepsTypes DEF FramesOK
<1>3. /\ UNCHANGED <<operFdb, adminFdb, changeDatabase, configuration, received, failed>>
  BY DEF SendFrame, fdbVars
<1>4. DatabaseInv' /\ GroupIsKnown'
  BY <1>1, <1>3
     DEF DatabaseInv, DatabasesOK, WaitingIsLoaded, GroupHasEntry, AlwaysKnown,
         AlwaysNames, EntriesLeadToHosts, GroupIsKnown
<1>5. ASSUME NEW q \in Port, NEW i \in 1 .. Len(wire'[q])
      PROVE  \/ i \in 1 .. Len(wire[q]) /\ wire'[q][i] = wire[q][i]
             \/ /\ i = Len(wire[q]) + 1 /\ wire'[q][i] = f
                /\ q = Peer[h] /\ \A x \in Host : Leads(q, x) <=> x = h
  <2>1. Len(wire[q]) \in Nat
    BY <1>1 DEF FramesOK
  <2>2. IF i <= Len(wire[q])
          THEN wire'[q][i] = wire[q][i]
          ELSE i = Len(wire[q]) + 1 /\ wire'[q][i] = f /\ q = Peer[h]
    BY <1>1, SendFrameAppends
  <2> QED
    BY <1>1, <2>1, <2>2, HostsPort, StreamFacts
<1>6. /\ f.number = Len(sent) + 1 /\ f.src = h /\ f.dest = t.dest
      /\ StreamOf(f) = t /\ t.dest # h
  <2>1. t = [src |-> t.src, dest |-> t.dest, priority |-> t.priority] /\ t.dest # t.src
    BY <1>1, StreamFacts
  <2>2. /\ f.number = Len(sent) + 1 /\ f.src = t.src /\ f.dest = t.dest
        /\ f.priority = t.priority
    BY DEF NewFrame
  <2> HIDE DEF f
  <2> QED
    BY <2>1, <2>2 DEF StreamOf
<1> HIDE DEF f, h
<1>7. FramesAreSent' /\ MovesAway'
  <2> SUFFICES ASSUME NEW q \in Port, NEW i \in 1 .. Len(wire'[q])
               PROVE  /\ wire'[q][i].dest # wire'[q][i].src
                      /\ wire'[q][i].number <= Len(sent) + 1
                      /\ StreamOf(wire'[q][i]) \in configuration.streams
                      /\ Leads(q, wire'[q][i].src)
    BY <1>2, <1>3 DEF FramesAreSent, MovesAway, StreamOf
  <2>1. CASE i \in 1 .. Len(wire[q]) /\ wire'[q][i] = wire[q][i]
    <3>1. wire[q][i] \in Frame
      <4>1. wire[q] \in Seq(Frame)
        BY <1>1 DEF FramesOK
      <4> QED
        BY <2>1, <4>1
    <3>2. wire[q][i].number \in Nat
      BY <3>1, PortAssumption DEF Frame
    <3>3. /\ wire[q][i].dest # wire[q][i].src /\ wire[q][i].number <= Len(sent)
          /\ StreamOf(wire[q][i]) \in configuration.streams
          /\ Leads(q, wire[q][i].src)
      BY <1>1, <2>1 DEF WireInv, FramesAreSent, MovesAway
    <3> QED
      BY <1>2, <2>1, <3>2, <3>3
  <2>2. CASE wire'[q][i] = f /\ \A x \in Host : Leads(q, x) <=> x = h
    <3>1. h \in Host
      BY <1>1, StreamFacts DEF h
    <3> QED
      BY <1>2, <1>6, <2>2, <3>1
  <2> QED
    BY <1>5, <2>1, <2>2
<1>8. NextKnows'
  <2> SUFFICES ASSUME NEW q \in Port, NEW x \in Host, Shares(q, x)
               PROVE  /\ x \in DOMAIN operFdb[q[1]] => x \in DOMAIN operFdb[Peer[q][1]]
                      /\ \A i \in 1 .. Len(wire'[q]) :
                           Teaches(wire'[q][i], x) => x \in DOMAIN operFdb[Peer[q][1]]
    BY <1>3 DEF NextKnows, Shares
  <2>1. /\ x \in DOMAIN operFdb[q[1]] => x \in DOMAIN operFdb[Peer[q][1]]
        /\ \A i \in 1 .. Len(wire[q]) :
             Teaches(wire[q][i], x) => x \in DOMAIN operFdb[Peer[q][1]]
    BY <1>1 DEF WireInv, NextKnows
  <2>2. ~(\A y \in Host : Leads(q, y) <=> y = h)
    BY DEF Shares
  <2> QED
    BY <1>5, <2>1, <2>2
<1>9. StrayIsFlooded'
  <2> SUFFICES ASSUME NEW q \in Port, NEW i \in 1 .. Len(wire'[q]),
                      Astray(q, wire'[q][i])
               PROVE  /\ wire'[q][i].dest \notin DOMAIN operFdb[q[1]]
                      /\ ~AlwaysNames(configuration, Peer[q][1], wire'[q][i].dest)
                      /\ \A j \in 1 .. i - 1 : ~Teaches(wire'[q][j], wire'[q][i].dest)
    BY <1>3 DEF StrayIsFlooded, Astray, AlwaysNames
  <2>1. CASE i \in 1 .. Len(wire[q]) /\ wire'[q][i] = wire[q][i]
    <3>1. /\ wire[q][i].dest \notin DOMAIN operFdb[q[1]]
          /\ ~AlwaysNames(configuration, Peer[q][1], wire[q][i].dest)
          /\ \A j \in 1 .. i - 1 : ~Teaches(wire[q][j], wire[q][i].dest)
      BY <1>1, <2>1 DEF WireInv, StrayIsFlooded
    <3>2. ASSUME NEW j \in 1 .. i - 1 PROVE wire'[q][j] = wire[q][j]
      <4>1. wire[q] \in Seq(Frame) /\ wire'[q] \in Seq(Frame)
        BY <1>1, <1>2 DEF FramesOK
      <4>2. j \in 1 .. Len(wire'[q]) /\ j <= Len(wire[q]) /\ j # Len(wire[q]) + 1
        BY <2>1, <4>1
      <4> QED
        BY <1>5, <4>2
    <3> QED
      BY <2>1, <3>1, <3>2
  <2>2. CASE wire'[q][i] = f /\ \A x \in Host : Leads(q, x) <=> x = h
    BY <1>3, <1>6, <2>2 DEF Astray
  <2> QED
    BY <1>5, <2>1, <2>2
<1>10. DeliveredOnce'
  BY <1>1, <1>3 DEF DeliveryInv, DeliveredOnce
<1>11. ASSUME NEW q \in Port, NEW i \in 1 .. Len(wire[q])
       PROVE  wire[q][i].number \in Nat /\ wire[q][i].number <= Len(sent)
  <2>1. wire[q] \in Seq(Frame)
    BY <1>1 DEF FramesOK
  <2>2. wire[q][i] \in Frame
    BY <2>1
  <2> QED
    BY <1>1, <2>2, PortAssumption DEF Frame, WireInv, FramesAreSent
<1>12. f.number \in 1 .. MaxFrames
  BY <1>1, <1>2, <1>6, ConfigurationAssumption, PortAssumption DEF SendFrame, FramesOK
<1>13. CopiesAreApart'
  <2>1. ASSUME NEW x \in Host, NEW n \in 1 .. MaxFrames, n > Len(sent')
        PROVE  received'[x][n] = 0
    <3>1. n > Len(sent)
      BY <1>2, <2>1, PortAssumption
    <3> QED
      BY <1>1, <1>3, <3>1 DEF DeliveryInv, CopiesAreApart
  <2>2. ASSUME NEW q \in Port, NEW i \in 1 .. Len(wire'[q]), NEW x \in Host,
               ~Leads(q, x)
        PROVE  received'[x][wire'[q][i].number] = 0
    <3>1. CASE i \in 1 .. Len(wire[q]) /\ wire'[q][i] = wire[q][i]
      BY <1>1, <1>3, <2>2, <3>1 DEF DeliveryInv, CopiesAreApart
    <3>2. CASE wire'[q][i] = f
      <4>1. f.number > Len(sent)
        BY <1>2, <1>6
      <4> QED
        BY <1>1, <1>3, <1>12, <3>2, <4>1 DEF DeliveryInv, CopiesAreApart
    <3> QED
      BY <1>5, <3>1, <3>2
  <2>3. ASSUME NEW q \in Port, NEW r \in Port,
               NEW i \in 1 .. Len(wire'[q]), NEW j \in 1 .. Len(wire'[r]),
               wire'[q][i].number = wire'[r][j].number, q # r \/ i # j,
               NEW x \in Host
        PROVE  Leads(q, x) \/ Leads(r, x)
    <3>1. \/ i \in 1 .. Len(wire[q]) /\ wire'[q][i] = wire[q][i]
          \/ i = Len(wire[q]) + 1 /\ wire'[q][i] = f /\ q = Peer[h]
      BY <1>5
    <3>2. \/ j \in 1 .. Len(wire[r]) /\ wire'[r][j] = wire[r][j]
          \/ j = Len(wire[r]) + 1 /\ wire'[r][j] = f /\ r = Peer[h]
      BY <1>5
    <3>3. \/ i \in 1 .. Len(wire[q]) /\ wire'[q][i] = wire[q][i]
             /\ j \in 1 .. Len(wire[r]) /\ wire'[r][j] = wire[r][j]
          \/ wire'[q][i] = f /\ wire'[r][j] = f /\ q = r /\ i = j
      <4>1. CASE wire'[q][i] = f /\ j \in 1 .. Len(wire[r])
                 /\ wire'[r][j] = wire[r][j]
        BY <1>2, <1>6, <1>11, <2>3, <4>1
      <4>2. CASE wire'[r][j] = f /\ i \in 1 .. Len(wire[q])
                 /\ wire'[q][i] = wire[q][i]
        BY <1>2, <1>6, <1>11, <2>3, <4>2
      <4> QED
        BY <3>1, <3>2, <4>1, <4>2
    <3> QED
      BY <1>1, <2>3, <3>3, PairsApart
  <2> QED
    BY <2>1, <2>2, <2>3 DEF CopiesAreApart
<1> QED
  BY <1>1, <1>2, <1>4, <1>7, <1>8, <1>9, <1>10, <1>13 DEF RelayInv, WireInv, DeliveryInv

-----------------------------------------------------------------------------
(* The invariant *)

LEMMA InitHasInv ==
  ASSUME AllWellConfigured, Init
  PROVE  RelayInv
<1>1. /\ configuration \in Configurations /\ operFdb = configuration.initial
      /\ adminFdb = [s \in Switch |-> NoEntries]
      /\ changeDatabase = [s \in Switch |-> FALSE]
      /\ wire = [p \in Port |-> <<>>]
      /\ received = [h \in Host |-> [n \in 1 .. MaxFrames |-> 0]]
      /\ sent = <<>> /\ failed = FALSE
  BY DEF Init
<1>2. FramesOK
  <2>1. received \in [Host -> [1 .. MaxFrames -> Nat]]
    BY <1>1
  <2>2. sent \in Seq(Frame) /\ Len(sent) = 0
    BY <1>1
  <2>3. wire \in [Port -> Seq(Frame)]
    BY <1>1
  <2> QED
    BY <1>1, <2>1, <2>2, <2>3, PortAssumption DEF FramesOK
<1>3. HasRightDatabases(configuration)
  BY <1>1 DEF AllWellConfigured
<1>4. /\ DOMAIN operFdb = Switch
      /\ \A s \in Switch :
           /\ IsDatabase(operFdb[s], s)
           /\ \A h \in DOMAIN operFdb[s] \cap Host :
                operFdb[s][h] = {<<s, Towards[s][h]>>}
           /\ s \notin configuration.flooding => Group \in DOMAIN operFdb[s]
  BY <1>1, <1>3 DEF HasRightDatabases
<1>5. \A s \in Switch : IsDatabase(adminFdb[s], s)
  BY <1>1 DEF IsDatabase, NoEntries
<1>6. DatabaseInv
  BY <1>1, <1>4, <1>5
     DEF DatabaseInv, DatabasesOK, WaitingIsLoaded, GroupHasEntry, AlwaysKnown,
         AlwaysNames, EntriesLeadToHosts
<1>7. \A p \in Port : wire[p] = <<>> /\ 1 .. Len(wire[p]) = {}
  BY <1>1
<1>8. FramesAreSent /\ MovesAway /\ StrayIsFlooded
  BY <1>7 DEF FramesAreSent, MovesAway, StrayIsFlooded
<1>9. NextKnows
  <2> SUFFICES ASSUME NEW q \in Port, NEW h \in Host, Shares(q, h),
                      h \in DOMAIN operFdb[q[1]]
               PROVE  h \in DOMAIN operFdb[Peer[q][1]]
    BY <1>7 DEF NextKnows
  <2>1. AlwaysNames(configuration, Peer[q][1], h)
    BY <1>1, <1>2, NextStaysKnowing
  <2> QED
    BY <1>1, <2>1 DEF AlwaysNames
<1>10. \A h \in Host, n \in 1 .. MaxFrames : received[h][n] = 0
  BY <1>1
<1>11. DeliveryInv
  BY <1>7, <1>10 DEF DeliveryInv, CopiesAreApart, DeliveredOnce
<1> QED
  BY <1>1, <1>2, <1>6, <1>8, <1>9, <1>11 DEF RelayInv, WireInv, GroupIsKnown

LEMMA StepKeepsInv ==
  ASSUME AllWellConfigured, RelayInv, [Next]_vars
  PROVE  RelayInv'
<1>1. CASE Network
  BY <1>1, ReceiveKeepsInv, TickKeepsInv DEF Network
<1>2. ASSUME NEW t \in configuration.streams, SendFrame(t)
      PROVE  RelayInv'
  BY <1>2, SendFrameKeepsInv
<1>3. ASSUME NEW s \in Switch, NEW d \in configuration.later, LoadDatabase(s, d[s])
      PROVE  RelayInv'
  BY <1>3, LoadKeepsInv
<1>4. CASE UNCHANGED vars
  BY <1>4
     DEF vars, fdbVars, RelayInv, FramesOK, DatabaseInv, DatabasesOK,
         WaitingIsLoaded, GroupHasEntry, AlwaysKnown, AlwaysNames,
         EntriesLeadToHosts, WireInv, FramesAreSent, StreamOf, MovesAway, NextKnows, Shares,
         StrayIsFlooded, Astray, DeliveryInv, CopiesAreApart, DeliveredOnce,
         GroupIsKnown
<1> QED
  BY <1>1, <1>2, <1>3, <1>4 DEF Next

\* The inductive invariant of every network with right databases whose ways stay
\* known and whose ports keep the order that matters, whatever they lose.
THEOREM NetworkIsConsistent ==
  ASSUME AllWellConfigured
  PROVE  Spec => []RelayInv
<1>1. Init => RelayInv
  BY InitHasInv
<1>2. RelayInv /\ [Next]_vars => RelayInv'
  BY StepKeepsInv
<1> QED
  BY <1>1, <1>2, PTL DEF Spec

\* Whatever was learned, loaded and swapped in, an entry for a host names the
\* port that leads to it (FilteringDatabase::insert, ::getPort).
THEOREM EntriesAlwaysLead ==
  ASSUME AllWellConfigured
  PROVE  Spec => []EntriesLeadToHosts
<1>1. RelayInv => EntriesLeadToHosts
  BY DEF RelayInv, DatabaseInv
<1> QED
  BY <1>1, NetworkIsConsistent, PTL

\* No frame turns around: processUnicast never sends one back in these networks,
\* although it does not compare the port of the entry with that of arrival.
THEOREM FramesMoveAway ==
  ASSUME AllWellConfigured
  PROVE  Spec => []MovesAway
<1>1. RelayInv => MovesAway
  BY DEF RelayInv, WireInv
<1> QED
  BY <1>1, NetworkIsConsistent, PTL

\* However floods and located frames meet and overtake in these networks, nobody
\* gets a frame twice.
THEOREM NothingComesTwice ==
  ASSUME AllWellConfigured
  PROVE  Spec => []DeliveredOnce
<1>1. RelayInv => DeliveredOnce
  BY DEF RelayInv, DeliveryInv
<1> QED
  BY <1>1, NetworkIsConsistent, PTL

\* processMulticast never throws.
THEOREM GroupIsAlwaysKnown ==
  ASSUME AllWellConfigured
  PROVE  Spec => []GroupIsKnown
<1>1. RelayInv => GroupIsKnown
  BY DEF RelayInv
<1> QED
  BY <1>1, NetworkIsConsistent, PTL
=============================================================================
