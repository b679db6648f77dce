------------------------------- MODULE Packets -------------------------------
(***************************************************************************)
(* The life of a packet: built for a band, put on the air, relayed from    *)
(* node to node, or handed to the carrier gateway.  The air loses, delays, *)
(* reorders and repeats what was sent.                                     *)
(*                                                                         *)
(* The nodes are the callers of MeshRouter.should_relay and of relay_copy: *)
(* a node asks the first, with the same hash whatever the hop, before it   *)
(* makes a copy.                                                           *)
(***************************************************************************)
EXTENDS Naturals, FiniteSets, Bands

CONSTANTS
    Messages,   \* bound: packets built
    Nodes,
    MaxSeen,    \* _max_seen
    KeptSeen,   \* hashes that an eviction keeps
    MaxTtl,     \* bound: largest ttl
    UsedBands,  \* bound: bands that packets are built for
    MaxForgets  \* bound: evictions and restarts of a node

PacketsAssumption ==
    /\ {MaxSeen, KeptSeen, MaxTtl, MaxForgets} \subseteq Nat /\ KeptSeen <= MaxSeen
    /\ UsedBands \subseteq Bands

VARIABLES
    built,   \* [Messages -> the band asked for, is_encrypted, ttl], or None
    band,    \* transmit_band of the object the sender holds
    gateway, \* history: packets handed to the carrier gateway
    air,     \* history: copies put on the air
    seen,    \* _message_seen of each node
    relays,  \* history: copies each node made of each packet
    forgets  \* history: evictions and restarts of each node

vars == <<built, band, gateway, air, seen, relays, forgets>>

None == [none |-> TRUE]
Built == {m \in Messages : built[m] # None}

Init ==
    /\ built = [m \in Messages |-> None] /\ band = [m \in Messages |-> "UNKNOWN"]
    /\ gateway = {} /\ air = {}
    /\ seen = [n \in Nodes |-> {}] /\ relays = [n \in Nodes |-> [m \in Messages |-> 0]]
    /\ forgets = [n \in Nodes |-> 0]

\* _build_packet: a packet that the policy forbids is never returned.
Build(m, b, encrypted, ttl) ==
    /\ m \notin Built
    /\ PolicyAllows(b, encrypted)
    /\ built' = [built EXCEPT ![m] = [band |-> b, encrypted |-> encrypted, ttl |-> ttl]]
    /\ band' = [band EXCEPT ![m] = b]
    /\ UNCHANGED <<gateway, air, seen, relays, forgets>>

\* What serialize writes and deserialize reads back.
Copy(m, b, hops) ==
    [of |-> m, band |-> b, encrypted |-> built[m].encrypted, ttl |-> built[m].ttl, hops |-> hops]

Transmit(m) ==
    /\ m \in Built
    /\ PolicyAllows(band[m], built[m].encrypted)
    /\ air' = air \cup {Copy(m, band[m], 0)}
    /\ UNCHANGED <<built, band, gateway, seen, relays, forgets>>

\* build_request: the band is overwritten before anything is submitted, and
\* stays so when no submitter is configured or the carrier refuses.
Rebanded(m) == [band EXCEPT ![m] = "CARRIER_NTN"]
Handoff(m) ==
    /\ m \in Built
    /\ band' = Rebanded(m)
    /\ gateway' = gateway \cup {m}
    /\ UNCHANGED <<built, air, seen, relays, forgets>>

-----------------------------------------------------------------------------
\* should_relay: more than MaxSeen hashes, and all but KeptSeen of them go,
\* whichever a set lists first; the new one may be among them.
Full(n, m) == Cardinality(seen[n] \cup {m}) > MaxSeen
Remember(n, m) ==
    IF Full(n, m)
    THEN \E kept \in SUBSET (seen[n] \cup {m}) :
            /\ Cardinality(kept) = KeptSeen
            /\ seen' = [seen EXCEPT ![n] = kept]
            /\ forgets' = [forgets EXCEPT ![n] = @ + 1]
    ELSE /\ seen' = [seen EXCEPT ![n] = @ \cup {m}]
         /\ UNCHANGED forgets

\* relay_copy raises when the hop limit is exceeded.
HopLimitExceeded(c) == c.hops >= c.ttl

Relay(n, c) ==
    /\ c \in air /\ c.of \notin seen[n]
    /\ Full(n, c.of) => forgets[n] < MaxForgets
    /\ Remember(n, c.of)
    /\ IF HopLimitExceeded(c)
       THEN UNCHANGED <<air, relays>>
       ELSE /\ air' = air \cup {[c EXCEPT !.hops = @ + 1]}
            /\ relays' = [relays EXCEPT ![n][c.of] = @ + 1]
    /\ UNCHANGED <<built, band, gateway>>

\* The hashes are in memory only.
Restart(n) ==
    /\ seen[n] # {} /\ forgets[n] < MaxForgets
    /\ seen' = [seen EXCEPT ![n] = {}]
    /\ forgets' = [forgets EXCEPT ![n] = @ + 1]
    /\ UNCHANGED <<built, band, gateway, air, relays>>

Next ==
    \/ \E m \in Messages, b \in UsedBands, e \in BOOLEAN, t \in 1..MaxTtl : Build(m, b, e, t)
    \/ \E m \in Messages : Transmit(m) \/ Handoff(m)
    \/ \E n \in Nodes : (\E c \in air : Relay(n, c)) \/ Restart(n)

Spec == Init /\ [][Next]_vars

-----------------------------------------------------------------------------
TypeOK ==
    /\ built \in [Messages -> {None} \cup
                    [band : UsedBands, encrypted : BOOLEAN, ttl : 1..MaxTtl]]
    /\ band \in [Messages -> Bands] /\ gateway \subseteq Messages
    /\ air \subseteq [of : Messages, band : Bands, encrypted : BOOLEAN,
                      ttl : 1..MaxTtl, hops : 0..MaxTtl]
    /\ seen \in [Nodes -> SUBSET Messages] /\ forgets \in [Nodes -> 0..MaxForgets]
    /\ relays \in [Nodes -> [Messages -> 0..(MaxForgets + 1)]]

(* A flood ends: a node relays a packet once, and once more each time it   *)
(* forgot hashes; no copy goes farther than its ttl.                       *)
FloodEnds ==
    /\ \A n \in Nodes, m \in Messages : relays[n][m] <= 1 + forgets[n]
    /\ \A c \in air : c.hops <= c.ttl

(* No ciphertext is on an amateur band, and a copy carries the band that   *)
(* its packet was built for, unless the carrier gateway had the packet.    *)
BandKept ==
    \A c \in air :
        /\ c.encrypted => c.band # "AMATEUR"
        /\ c.band = built[c.of].band \/ (c.of \in gateway /\ c.band = "CARRIER_NTN")

=============================================================================
