------------------------------- MODULE MCStack -------------------------------
(* The protocol and radio components, each on its own: a behaviour         *)
(* exercises one of them, and the variables of the others keep still.      *)
EXTENDS Integers, TLC

CONSTANTS
    Codecs, MaxPayload, ChunkHeader, MetaBytes, Parity, Correctable, SeqWidth, TotalWidth,
    VoiceBudget, Lengths,
    Modes, Home, NoCodec, Native, MaxFrames, Players, MaxTakes, MaxPlays,
    Messages, Nodes, MaxSeen, KeptSeen, MaxTtl, MaxForgets, UsedBands,
    Peers, Strongest, Patience, MeshTime,
    Numbers, MaxBlocks, BundleTime, MaxDamage,
    Stations, IdWidth, TheirIds, NoId, MaxSent, BridgeTime,
    Digipeaters, Ssids, Types, InfoLengths,
    Satellites, Geometries, MaxReports,
    Clients, Frequencies, Steps, HistoryMax, LogMax, MaxPackets,
    FrameRoom, SequenceWidth, Payloads, Starts,
    Bundles, Glimpse, Budget, Window, Dopplers, Durations, PassTime, MaxPasses, MaxSlips

FrameBytes == "CODEC2_700C" :> 4 @@ "LYRA_3200" :> 8

Samples == [m \in Modes |-> 320]

Ham(confirmed) == [wellFormed |-> TRUE, ofCountry |-> TRUE, confirmed |-> confirmed]
Gates == {Ham(TRUE), Ham(FALSE)}
LocalCaps == {{"LORA_RELAY"}, {"SDR_TRANSMIT"}}
Adverts ==
    {[caps |-> {"LORA_RELAY"}, satellite |-> FALSE, bands |-> {"ISM"}, gate |-> Ham(FALSE), rssi |-> 1],
     [caps |-> {"GROUND_STATION"}, satellite |-> FALSE, bands |-> {"ISM", "AMATEUR"},
      gate |-> Ham(TRUE), rssi |-> 0],
     [caps |-> {}, satellite |-> TRUE, bands |-> {"ISM", "AMATEUR"}, gate |-> Ham(FALSE), rssi |-> 0]}

Targets == {{}, {0}, {1}, {2}, {3}, {1, 2}, {1, 3}, {0, 1}}
Unsound == {{1}}

Angles == {<<-10, 95>>}

\* Units of airtime: the small bundle and the large one, at SF12 and at SF7.
Size == [b \in Bundles |-> b]
AirtimeAt == [s \in 7..12 |-> [b \in Bundles |-> IF s = 12 THEN b + 1 ELSE 1]]
MaxAir == 3
Signals == {-230, -280}

\* LR-FHSS as it is by default, at the other coding rate, on the wide grid, and
\* with more headers than hops.
Hopping == {[hops |-> 35, headers |-> 3, grid |-> 35, room |-> 6],
            [hops |-> 35, headers |-> 3, grid |-> 35, room |-> 12],
            [hops |-> 35, headers |-> 3, grid |-> 5, room |-> 6],
            [hops |-> 2, headers |-> 3, grid |-> 35, room |-> 6]}

VARIABLES
    unit,
    length, codec, sent, strict, chunks, expected, announced, finished, rejected,
    take, recording, mic, said, count, capturing, asked, local, cancelled, ended,
    mode, talkCodec, player, plays, disturbed, alone, messages,
    built, band, gateway, air, seen, relays, forgets,
    meshNow, gate, caps, neighbors, routingTable, heard, route,
    blocks, fragment, verdict,
    bundleNow, ends, stamped, payload, ownBlocks, wire, got, answer,
    bridgeNow, link, connected, loop, sentMessages, pending, acked, reached, inbox, owed, answered,
    report, frame, decoded, outcome,
    size, cut, taken, refused, setting, hops,
    uplink, viable, geometry, score, flagged, learned, attempts, successes, choice, scoredOn,
    frequency, samples, received, errors, total, packetLog, stream, yielded, frames, tuner, antenna,
    clock, hardware, ready, adaptive, sf, tuned, bundles, stored, stage, deadline, airing, txLog,
    passReport, tried, onAir, slips, passes

voice == <<length, codec, sent, strict, chunks, expected, announced, finished, rejected>>
talk == <<take, recording, mic, said, count, capturing, asked, local, cancelled, ended,
          mode, talkCodec, player, plays, disturbed, alone, messages>>
packets == <<built, band, gateway, air, seen, relays, forgets>>
mesh == <<meshNow, gate, caps, neighbors, routingTable, heard, route>>
security == <<blocks, fragment, verdict>>
bundle == <<bundleNow, ends, stamped, payload, ownBlocks, wire, got, answer>>
bridge == <<bridgeNow, link, connected, loop, sentMessages, pending, acked, reached, inbox, owed, answered>>
aprs == <<report, frame, decoded, outcome>>
framing == <<size, cut, taken, refused, setting, hops>>
links == <<uplink, viable, geometry, score, flagged, learned, attempts, successes, choice, scoredOn>>
station == <<frequency, samples, received, errors, total, packetLog, stream, yielded, frames, tuner, antenna>>
pass == <<clock, hardware, ready, adaptive, sf, tuned, bundles, stored, stage, deadline, airing, txLog,
          passReport, tried, onAir, slips, passes>>

V == INSTANCE Voice WITH Budget <- VoiceBudget
K == INSTANCE PushToTalk WITH frames <- said, loop <- capturing, codec <- talkCodec
P == INSTANCE Packets
M == INSTANCE Mesh WITH now <- meshNow, MaxTime <- MeshTime
S == INSTANCE SecurityBlocks
B == INSTANCE Bundle WITH now <- bundleNow, blocks <- ownBlocks, MaxTime <- BundleTime
I == INSTANCE AprsBridge WITH now <- bridgeNow, sent <- sentMessages, MaxTime <- BridgeTime
A == INSTANCE Aprs WITH Lengths <- InfoLengths
F == INSTANCE Framing WITH frames <- cut, decoded <- taken
L == INSTANCE LinkManager
G == INSTANCE Station
T == INSTANCE PassTransmit WITH report <- passReport, MaxTime <- PassTime

ASSUME UnitsAssumption ==
    /\ V!VoiceAssumption /\ K!TalkAssumption /\ P!PacketsAssumption /\ M!MeshAssumption /\ S!SecurityAssumption
    /\ B!BundleAssumption /\ I!BridgeAssumption /\ A!AprsAssumption /\ F!FramingAssumption
    /\ L!LinkAssumption /\ G!StationAssumption /\ T!PassAssumption

\* A unit that is not exercised has one of its initial states.
Init ==
    /\ unit \in {"voice", "talk", "packets", "mesh", "security", "bundle", "bridge", "aprs",
                 "framing", "links", "station", "pass"}
    /\ V!Init /\ (unit # "voice" => strict /\ codec = "LYRA_3200")
    /\ K!Init
    /\ P!Init
    /\ M!Init /\ (unit # "mesh" => gate.confirmed /\ "LORA_RELAY" \in caps)
    /\ S!Init /\ (unit # "security" => ~fragment)
    /\ B!Init /\ (unit # "bundle" => stamped /\ \A e \in DOMAIN ends : ends[e])
    /\ I!Init
    /\ A!Init
    /\ F!Init /\ (unit # "framing" => size = 0)
    /\ L!Init /\ (unit # "links" => uplink = {} /\ \A s \in Satellites : geometry[s] = 0)
    /\ G!Init /\ (unit # "station" => frequency = CHOOSE f \in Frequencies : TRUE)
    /\ T!Init /\ (unit # "pass" => ~hardware)

Next ==
    /\ UNCHANGED unit
    /\ \/ /\ unit = "voice" /\ V!Next
          /\ UNCHANGED <<talk, packets, mesh, security, bundle, bridge, aprs, framing, links, station, pass>>
       \/ /\ unit = "talk" /\ K!Next
          /\ UNCHANGED <<voice, packets, mesh, security, bundle, bridge, aprs, framing, links, station, pass>>
       \/ /\ unit = "packets" /\ P!Next
          /\ UNCHANGED <<voice, talk, mesh, security, bundle, bridge, aprs, framing, links, station, pass>>
       \/ /\ unit = "mesh" /\ M!Next
          /\ UNCHANGED <<voice, talk, packets, security, bundle, bridge, aprs, framing, links, station, pass>>
       \/ /\ unit = "security" /\ S!Next
          /\ UNCHANGED <<voice, talk, packets, mesh, bundle, bridge, aprs, framing, links, station, pass>>
       \/ /\ unit = "bundle" /\ B!Next
          /\ UNCHANGED <<voice, talk, packets, mesh, security, bridge, aprs, framing, links, station, pass>>
       \/ /\ unit = "bridge" /\ I!Next
          /\ UNCHANGED <<voice, talk, packets, mesh, security, bundle, aprs, framing, links, station, pass>>
       \/ /\ unit = "aprs" /\ A!Next
          /\ UNCHANGED <<voice, talk, packets, mesh, security, bundle, bridge, framing, links, station, pass>>
       \/ /\ unit = "framing" /\ F!Next
          /\ UNCHANGED <<voice, talk, packets, mesh, security, bundle, bridge, aprs, links, station, pass>>
       \/ /\ unit = "links" /\ L!Next
          /\ UNCHANGED <<voice, talk, packets, mesh, security, bundle, bridge, aprs, framing, station, pass>>
       \/ /\ unit = "station" /\ G!Next
          /\ UNCHANGED <<voice, talk, packets, mesh, security, bundle, bridge, aprs, framing, links, pass>>
       \/ /\ unit = "pass" /\ T!Next
          /\ UNCHANGED <<voice, talk, packets, mesh, security, bundle, bridge, aprs, framing, links, station>>

Spec == Init /\ [][Next]_<<unit, voice, talk, packets, mesh, security, bundle, bridge, aprs, framing, links, station, pass>>

(* Every variable of the component exercised has its type.                 *)
TypeOK ==
    /\ unit = "voice" => V!TypeOK
    /\ unit = "talk" => K!TypeOK
    /\ unit = "packets" => P!TypeOK
    /\ unit = "mesh" => M!TypeOK
    /\ unit = "security" => S!TypeOK
    /\ unit = "bundle" => B!TypeOK
    /\ unit = "bridge" => I!TypeOK
    /\ unit = "aprs" => A!TypeOK
    /\ unit = "framing" => F!TypeOK
    /\ unit = "links" => L!TypeOK
    /\ unit = "station" => G!TypeOK
    /\ unit = "pass" => T!TypeOK

(* Voice: what is recorded is what was said, whatever the loops before and *)
(* the playbacks did, and so is what is played, whatever the channel did.  *)
VoiceSound ==
    /\ unit = "talk" => K!RecordsWhatWasSaid
    /\ unit = "voice" => V!PlaysWhatWasSaid

(* Mesh: a flood ends and a packet keeps its band; a route leads to a peer *)
(* that is there and may transmit.                                         *)
MeshSound ==
    /\ unit = "packets" => P!FloodEnds /\ P!BandKept
    /\ unit = "mesh" => M!RouteSound

(* Bundles: an answer of the security calls means what it says, and what   *)
(* validation accepts can be processed; and a payload cut up for the radio *)
(* is all there.                                                           *)
BundleSound ==
    /\ unit = "bundle" => B!AnswersProve /\ B!ReadAsSent /\ B!SameId
    /\ unit = "security" => S!RulesKept
    /\ unit = "framing" => F!PayloadHeld

(* APRS: an acknowledgement is the station's, a frame is read as built.    *)
AprsSound ==
    /\ unit = "bridge" => I!AckTruthful
    /\ unit = "aprs" => A!FramesRead

(* Ground station: the satellite selected can be reached, and the clients  *)
(* of the one receiver get what is theirs.                                 *)
StationSound ==
    /\ unit = "links" => L!SelectionSound
    /\ unit = "station" => G!SharedSoundly

(* Pass: the duty cycle holds and the report adds up.                      *)
PassSound == unit = "pass" => T!WithinDuty /\ T!ReportTrue

=============================================================================
