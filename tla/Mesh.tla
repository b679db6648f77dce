-------------------------------- MODULE Mesh ---------------------------------
(***************************************************************************)
(* MeshRouter: the neighbours a node has heard of, its routing table, and  *)
(* the route it finds for a message.  Neighbours come and go, and change   *)
(* what they advertise.                                                    *)
(***************************************************************************)
EXTENDS Naturals, Bands

CONSTANTS
    Peers,
    Adverts,    \* bound: [caps, satellite, bands, gate, rssi] that peers advertise
    Strongest,  \* rssi of a full score; 0 is the noise floor
    Patience,   \* the 10 minutes for which a peer counts as alive
    Gates,      \* bound: licence gates of the local node
    LocalCaps,  \* bound: capabilities of the local node
    MaxTime     \* bound: length of a behaviour

\* No peer is called what a route may be instead of a peer.
MeshAssumption ==
    /\ {Patience, Strongest} \subseteq Nat \ {0} /\ MaxTime \in Nat
    /\ \A a \in Adverts : a.rssi \in 0..Strongest /\ a.bands \subseteq Bands
    /\ Peers \cap {"blocked", "satellite_direct", "store"} = {}

VARIABLES
    now,
    gate, caps,   \* license_gate and capabilities of the local node
    neighbors,    \* partial function: what each neighbour advertised, and when
    routingTable, \* destinations in routing_table
    heard,        \* history: what each peer advertised last, and when
    route         \* history: the last route found, and what it was asked for

vars == <<now, gate, caps, neighbors, routingTable, heard, route>>

None == [none |-> TRUE]

Init ==
    /\ now = 0 /\ gate \in Gates /\ caps \in LocalCaps
    /\ neighbors = <<>> /\ routingTable = {}
    /\ heard = [p \in Peers |-> None] /\ route = None

-----------------------------------------------------------------------------
AddNeighbor(p, a) ==
    LET node == [advert |-> a, at |-> now]
    IN /\ neighbors' = [q \in DOMAIN neighbors \cup {p} |-> IF q = p THEN node ELSE neighbors[q]]
       /\ routingTable' = routingTable \cup {p}
       /\ heard' = [heard EXCEPT ![p] = node]
       /\ UNCHANGED <<now, gate, caps, route>>

Age(node) == now - node.at
IsAlive(node) == Age(node) < Patience

\* Mutant: a neighbor is stale as soon as time has passed.
StaleTooSoon(p) == neighbors[p].at # now
Stale(p) == ~IsAlive(neighbors[p])

\* remove_stale_neighbors.
Gone == {p \in DOMAIN neighbors : Stale(p)}
Kept == [p \in DOMAIN neighbors \ Gone |-> neighbors[p]]

\* link_quality, times 10 * Strongest * Patience.
LinkQuality(node) ==
    6 * node.advert.rssi * Patience + 4 * (Patience - Age(node)) * Strongest

CanTransmitOn(node, band, encrypted) ==
    /\ band \in node.advert.bands
    /\ Authorize(node.advert.gate, band, encrypted, "data")

\* The three kinds of neighbours, in the order they are looked for.
Useful(node, kind) ==
    \/ kind = 1 /\ node.advert.satellite
    \/ kind = 2 /\ "GROUND_STATION" \in node.advert.caps
    \/ kind = 3 /\ "LORA_RELAY" \in node.advert.caps

Able(nodes, kind, band, encrypted) ==
    {p \in DOMAIN nodes : /\ IsAlive(nodes[p]) /\ Useful(nodes[p], kind)
                          /\ CanTransmitOn(nodes[p], band, encrypted)}

Best(nodes, peers) ==
    {p \in peers : \A q \in peers : LinkQuality(nodes[q]) <= LinkQuality(nodes[p])}

Choices(nodes, visible, band, encrypted) ==
    IF ~Authorize(gate, band, encrypted, "data") THEN {"blocked"}
    ELSE IF visible /\ caps \cap {"SDR_TRANSMIT", "SATELLITE_DIRECT"} # {} THEN {"satellite_direct"}
    ELSE LET kinds == {k \in 1..3 : Able(nodes, k, band, encrypted) # {}}
             first == CHOOSE k \in kinds : \A j \in kinds : k <= j
         IN IF kinds = {} THEN {"store"} ELSE Best(nodes, Able(nodes, first, band, encrypted))

\* Of equals, the first that the dictionary lists.
FindBestRoute(visible, band, encrypted) ==
    /\ neighbors' = Kept
    /\ routingTable' = routingTable \ Gone
    /\ \E to \in Choices(Kept, visible, band, encrypted) :
          route' = [to |-> to, band |-> band, encrypted |-> encrypted, visible |-> visible, at |-> now]
    /\ UNCHANGED <<now, gate, caps, heard>>

Tick ==
    /\ now < MaxTime
    /\ now' = now + 1
    /\ UNCHANGED <<gate, caps, neighbors, routingTable, heard, route>>

Next ==
    \/ \E p \in Peers, a \in Adverts : AddNeighbor(p, a)
    \/ \E v, e \in BOOLEAN, b \in {"AMATEUR", "ISM"} : FindBestRoute(v, b, e)
    \/ Tick

Spec == Init /\ [][Next]_vars

-----------------------------------------------------------------------------
TypeOK ==
    /\ now \in 0..MaxTime /\ gate \in Gates /\ caps \in LocalCaps
    /\ DOMAIN neighbors \subseteq Peers /\ routingTable = DOMAIN neighbors
    /\ \A p \in DOMAIN neighbors : neighbors[p] = heard[p]
    /\ route # None => route.to \in Peers \cup {"blocked", "satellite_direct", "store"}

(* While nothing was heard since the route was found: it leads to a peer   *)
(* heard within the last ten minutes, at the time, that may transmit what  *)
(* was asked on the band; and when the message is stored no such peer had  *)
(* any way on, whatever was purged before.                                 *)
Fresh(p) == heard[p] # None /\ heard[p].at <= route.at /\ route.at - heard[p].at < Patience
Relays(p) == /\ \E k \in 1..3 : Useful(heard[p], k)
             /\ CanTransmitOn(heard[p], route.band, route.encrypted)
RouteSound ==
    route # None /\ (\A p \in Peers : heard[p] # None => heard[p].at < route.at) =>
        /\ route.to \in Peers => Fresh(route.to) /\ Relays(route.to)
        /\ route.to = "store" => \A p \in Peers : ~(Fresh(p) /\ Relays(p))
        /\ route.to # "blocked" => Authorize(gate, route.band, route.encrypted, "data")

=============================================================================
