-------------------------------- MODULE Relay --------------------------------
(***************************************************************************)
(* A network of switches, each with a ForwardingRelayUnit and its          *)
(* FilteringDatabase or with a FloodingRelayUnit, that carries frames      *)
(* between hosts.  A forwarding relay learns where hosts are from the      *)
(* unicast frames it gets, floods what it cannot locate, and loads new     *)
(* static entries when its clock ticks; a flooding relay floods all.       *)
(*                                                                         *)
(* Entries have no timestamp here: a database ages only if it is built     *)
(* with agingActive, which nothing does.  A frame crosses a port and the   *)
(* link in any time.  A port has a queue for every traffic class, and only *)
(* the frames of one queue leave in the order in which they came: a later  *)
(* frame of another priority may overtake.  A port may lose frames.        *)
(***************************************************************************)
EXTENDS Integers, SequencesExt

CONSTANTS
  Switch,
  Host,
  Members,         \* the hosts of the one multicast group
  Port,            \* pairs of a switch and the index of one of its ports
  Peer,            \* what is at the other end of a port's or a host's link
  Towards,         \* per switch and host: the port that leads there
  Priority,        \* the PCPs in use
  Configurations,  \* the networks of this topology to look at
  MaxFrames        \* bound on the frames of any of them

ASSUME PortAssumption ==
  /\ Port \subseteq Switch \X Nat
  /\ Port \cap Host = {}
  /\ Members \subseteq Host
  /\ \A x \in Port \cup Host : Peer[x] \in Port \cup Host /\ Peer[Peer[x]] = x
  /\ MaxFrames \in Nat

\* The way from a switch to a host begins at this port.
Leads(p, h) == Towards[p[1]][h] = p[2]

\* The switches form a tree: every link has each host on one side.
ASSUME TreeAssumption ==
  /\ \A s \in Switch, h \in Host : <<s, Towards[s][h]>> \in Port
  /\ \A p \in Port, h \in Host :
       IF Peer[p] \in Host THEN Leads(p, h) <=> h = Peer[p]
                           ELSE Leads(p, h) <=> ~Leads(Peer[p], h)

Group == "group"
Broadcast == "broadcast"
ASSUME AddressAssumption == {Group, Broadcast} \cap Host = {}

Address == Host \cup {Group, Broadcast}
Stream == [src : Host, dest : Address, priority : Priority]
Frame == [number : 1 .. MaxFrames, src : Host, dest : Address, priority : Priority]

\* Of a configuration: the static entries that initialize() loads into all
\* databases, those that ScheduleSwap may load later, the switches with a
\* FloodingRelayUnit, what the hosts send, the queue of every priority at a
\* port or a host, the ports that may lose frames, and a bound on the frames.
ASSUME ConfigurationAssumption ==
  \A k \in Configurations :
    /\ k.flooding \subseteq Switch
    /\ k.streams \subseteq {t \in Stream : t.dest # t.src}
    /\ k.queueOf \in [Port \cup Host -> [Priority -> Nat]]
    /\ k.lossy \subseteq Port
    /\ k.frames \in 0 .. MaxFrames

VARIABLES
  operFdb,         \* per switch: a set of ports for every address in it
  adminFdb,
  changeDatabase,
  configuration,   \* which network this is; never changes
  wire,            \* frames on their way to a port of a switch
  received,        \* how often a host got a frame that is addressed to it
  sent,            \* history: the frames that hosts have sent
  lost,            \* history: the ports that lost a copy, with its number
  failed           \* a cRuntimeError ended the run

fdbVars == <<operFdb, adminFdb, changeDatabase>>
vars == <<fdbVars, configuration, wire, received, sent, lost, failed>>

PortsOf(s) == {p \in Port : p[1] = s}

\* Static entries map the group to ports, and hosts to one port each.
IsDatabase(d, s) ==
  /\ DOMAIN d \subseteq Host \cup {Group}
  /\ \A a \in DOMAIN d : d[a] \subseteq PortsOf(s)

\* A configuration whose databases are right: for every switch, an entry for a
\* host names the way to it, and one for the group is there if it is needed.
HasRightDatabases(k) ==
  \A d \in {k.initial} \cup k.later :
    /\ DOMAIN d = Switch
    /\ \A s \in Switch :
         /\ IsDatabase(d[s], s)
         /\ \A h \in DOMAIN d[s] \cap Host : d[s][h] = {<<s, Towards[s][h]>>}
         /\ s \notin k.flooding => Group \in DOMAIN d[s]

\* A forwarding switch that sees two hosts behind one port counts on the next
\* switch there: it forwards and knows each of the hosts if the first one does.
\* No swap makes the next one forget, and only one that knew the host from the
\* start lets the first one know it otherwise than by learning.
WaysStayKnown(k) ==
  \A p \in Port : \A h, x \in Host :
    p[1] \notin k.flooding /\ h # x /\ Leads(p, h) /\ Leads(p, x) =>
      LET next == Peer[p][1]
      IN  /\ next \notin k.flooding
          /\ \A d \in k.later : h \in DOMAIN d[next]
          /\ \/ h \in DOMAIN k.initial[next]
             \/ \A d \in {k.initial} \cup k.later : h \notin DOMAIN d[p[1]]

\* All databases that a switch ever loads name the host.
AlwaysNames(k, s, h) == h \in DOMAIN k.initial[s] /\ \A d \in k.later : h \in DOMAIN d[s]

\* A port on which frames for a host may be flooded over the way by which that
\* host's own frames come, since a switch may not know it, has one queue for
\* both: none of the host's frames overtakes one for it.
KeepsOrder(k) ==
  \A p \in Port, s, t \in k.streams :
    /\ p[1] \notin k.flooding
    /\ s.dest \in Host /\ Leads(p, s.src) /\ Leads(p, s.dest)
    /\ t.dest \in Host /\ t.src = s.dest
    /\ ~AlwaysNames(k, Peer[p][1], s.dest)
    => k.queueOf[Peer[p]][s.priority] = k.queueOf[Peer[p]][t.priority]

TypeOK ==
  /\ \A s \in Switch : IsDatabase(operFdb[s], s) /\ IsDatabase(adminFdb[s], s)
  /\ changeDatabase \in [Switch -> BOOLEAN]
  /\ configuration \in Configurations
  /\ wire \in [Port -> Seq(Frame)]
  /\ received \in [Host -> [1 .. MaxFrames -> Nat]]
  /\ sent \in Seq(Frame) /\ Len(sent) <= MaxFrames
  /\ lost \subseteq Port \X (1 .. MaxFrames)
  /\ failed \in BOOLEAN

NoEntries == [a \in {} |-> {}]

\* The first tick, at the start, has put the static entries into force.
Init ==
  /\ configuration \in Configurations
  /\ operFdb = configuration.initial
  /\ adminFdb = [s \in Switch |-> NoEntries]
  /\ changeDatabase = [s \in Switch |-> FALSE]
  /\ wire = [p \in Port |-> <<>>]
  /\ received = [h \in Host |-> [n \in 1 .. MaxFrames |-> 0]]
  /\ sent = <<>>
  /\ lost = {}
  /\ failed = FALSE

-----------------------------------------------------------------------------
(* FilteringDatabase *)

With(d, address, ports) ==
  [a \in DOMAIN d \cup {address} |-> IF a = address THEN ports ELSE d[a]]

\* Mutant: an address that has an entry is not moved, and a new one is put
\* where the frame goes.
InsertDestination(d, f, port) ==
  IF f.src \in DOMAIN d THEN d ELSE With(d, f.dest, {port})

\* insert: what was learned replaces a static entry.
Insert(d, f, port) == With(d, f.src, {port})

\* getPort finds a port only for an entry with exactly one.
Located(d, address) ==
  address \in DOMAIN d /\ \E p \in Port : d[address] = {p}

\* loadDatabase clears the entries that wait and parses the new ones.
LoadDatabase(s, database) ==
  /\ adminFdb' = [adminFdb EXCEPT ![s] = database]
  /\ changeDatabase' = [changeDatabase EXCEPT ![s] = TRUE]
  /\ UNCHANGED <<operFdb, configuration, wire, received, sent, lost, failed>>

\* Mutant: the entries are swapped on every tick, loaded or not.
TickWithoutChange(s) ==
  /\ operFdb' = [operFdb EXCEPT ![s] = adminFdb[s]]
  /\ adminFdb' = [adminFdb EXCEPT ![s] = NoEntries]
  /\ changeDatabase' = [changeDatabase EXCEPT ![s] = FALSE]
  /\ UNCHANGED <<configuration, wire, received, sent, lost, failed>>

\* The new entries replace all others, those that were learned as well.
Tick(s) ==
  /\ changeDatabase[s]
  /\ operFdb' = [operFdb EXCEPT ![s] = adminFdb[s]]
  /\ adminFdb' = [adminFdb EXCEPT ![s] = NoEntries]
  /\ changeDatabase' = [changeDatabase EXCEPT ![s] = FALSE]
  /\ UNCHANGED <<configuration, wire, received, sent, lost, failed>>

-----------------------------------------------------------------------------
(* ForwardingRelayUnit *)

IsAddressed(h, f) ==
  h # f.src /\ (f.dest = h \/ f.dest = Broadcast \/ (f.dest = Group /\ h \in Members))

\* A frame is taken from a wire, and copies leave by these ports.  A host's MAC
\* discards what is not for it.
Copy(arrival, i, ports) ==
  LET f == wire[arrival][i]
  IN  /\ wire' = [p \in Port |->
           LET rest == IF p = arrival THEN RemoveAt(wire[p], i) ELSE wire[p]
           IN  IF Peer[p] \in ports THEN Append(rest, f) ELSE rest]
      /\ received' = [h \in Host |->
           IF Peer[h] \in ports /\ IsAddressed(h, f)
             THEN [received[h] EXCEPT ![f.number] = @ + 1]
             ELSE received[h]]

\* A port may lose its copy: its queue has no room, or its MAC replaces an
\* express frame that waits by the next one.
Send(arrival, i, ports) ==
  \E gone \in SUBSET (ports \cap configuration.lossy) :
    /\ Copy(arrival, i, ports \ gone)
    /\ lost' = lost \cup (gone \X {wire[arrival][i].number})

\* Mutant: a flooded frame also goes back where it came from.
FloodPortsAll(arrival) == PortsOf(arrival[1])

\* processBroadcast, and all that a FloodingRelayUnit does.
FloodPorts(arrival) == PortsOf(arrival[1]) \ {arrival}

ProcessBroadcast(arrival, i) ==
  /\ wire[arrival][i].dest = Broadcast
  /\ Send(arrival, i, FloodPorts(arrival))
  /\ UNCHANGED <<operFdb, failed>>

\* Mutant: the arrival port is not skipped.
MulticastPortsAll(d, arrival) == d[Group]

MulticastPorts(d, arrival) == d[Group] \ {arrival}

\* No entry for the group is an error.
ProcessMulticast(arrival, i) ==
  LET d == operFdb[arrival[1]]
  IN  /\ wire[arrival][i].dest = Group
      /\ IF Group \in DOMAIN d
           THEN /\ Send(arrival, i, MulticastPorts(d, arrival))
                /\ UNCHANGED failed
           ELSE /\ failed' = TRUE
                /\ UNCHANGED <<wire, received, lost>>
      /\ UNCHANGED operFdb

\* Mutant: an address that cannot be located is filtered, not flooded.
UnicastPortsFiltered(d, f, arrival) == IF Located(d, f.dest) THEN d[f.dest] ELSE {}

\* The arrival port is not skipped if it is where the destination is.
UnicastPorts(d, f, arrival) ==
  IF Located(d, f.dest) THEN d[f.dest] ELSE FloodPorts(arrival)

\* processUnicast learns before it looks up.
ProcessUnicast(arrival, i) ==
  LET s == arrival[1]
      f == wire[arrival][i]
      d == Insert(operFdb[s], f, arrival)
  IN  /\ f.dest \in Host
      /\ operFdb' = [operFdb EXCEPT ![s] = d]
      /\ Send(arrival, i, UnicastPorts(d, f, arrival))
      /\ UNCHANGED failed

\* ForwardingRelayUnit::handleMessage
Forward(arrival, i) ==
  /\ arrival[1] \notin configuration.flooding
  /\ \/ ProcessBroadcast(arrival, i)
     \/ ProcessMulticast(arrival, i)
     \/ ProcessUnicast(arrival, i)

\* FloodingRelayUnit::handleMessage: whatever the address, and no database.
Flood(arrival, i) ==
  /\ arrival[1] \in configuration.flooding
  /\ Send(arrival, i, FloodPorts(arrival))
  /\ UNCHANGED <<operFdb, failed>>

\* The queue in which a frame on this wire was put where it was sent.
SenderQueue(p, f) == configuration.queueOf[Peer[p]][f.priority]

\* No frame on the wire is before this one in its queue.
IsNext(p, i) ==
  \A j \in 1 .. i - 1 : SenderQueue(p, wire[p][j]) # SenderQueue(p, wire[p][i])

\* The sender may serve any queue next.
Receive(arrival) ==
  /\ \E i \in DOMAIN wire[arrival] :
       IsNext(arrival, i) /\ (Forward(arrival, i) \/ Flood(arrival, i))
  /\ UNCHANGED <<adminFdb, changeDatabase, configuration, sent>>

-----------------------------------------------------------------------------
(* Hosts *)

\* What a host's own queue drops counts as not sent.
SendFrame(t) ==
  /\ Len(sent) < configuration.frames
  /\ LET f == [number |-> Len(sent) + 1, src |-> t.src, dest |-> t.dest,
               priority |-> t.priority]
     IN  /\ sent' = Append(sent, f)
         /\ wire' = [wire EXCEPT ![Peer[t.src]] = Append(@, f)]
  /\ UNCHANGED <<fdbVars, configuration, received, lost, failed>>

Network ==
  /\ ~failed
  /\ \/ \E p \in Port : Receive(p)
     \/ \E s \in Switch : Tick(s)

Next ==
  \/ Network
  \/ ~failed /\ \E t \in configuration.streams : SendFrame(t)
  \/ ~failed /\ \E s \in Switch, d \in configuration.later : LoadDatabase(s, d[s])

\* Every frame moves on and every clock ticks; nothing makes hosts send.
Spec ==
  /\ Init
  /\ [][Next]_vars
  /\ \A p \in Port : WF_vars(~failed /\ Receive(p))
  /\ \A s \in Switch : WF_vars(~failed /\ Tick(s))

-----------------------------------------------------------------------------
(* Properties *)

\* Whatever was learned, loaded and swapped in, an entry for a host names the
\* port that leads to it.
EntriesLeadToHosts ==
  \A s \in Switch : \A h \in DOMAIN operFdb[s] \cap Host :
    operFdb[s][h] = {<<s, Towards[s][h]>>}

\* A frame never turns around: it arrives at a switch from where its source is.
\* A relay that sent it back would make it circle between two switches.
MovesAway ==
  \A p \in Port : \A i \in 1 .. Len(wire[p]) :
    Leads(p, wire[p][i].src)

\* However floods and located frames meet and overtake, nobody gets a frame twice.
DeliveredOnce == \A h \in Host, n \in 1 .. MaxFrames : received[h][n] <= 1

\* processMulticast finds an entry (ForwardingRelayUnit.cc:63).
GroupIsKnown == ~failed

\* Every host that a frame is addressed to receives it in the end, whether the
\* relays have learned where it is or flood the frame, unless a port on the way
\* to this host has lost it.
EventuallyReceived ==
  <>[](\A n \in 1 .. Len(sent), h \in Host :
         IsAddressed(h, sent[n]) =>
           \/ received[h][n] = 1
           \/ \E p \in Port : Leads(p, h) /\ <<p, n>> \in lost)
=============================================================================
