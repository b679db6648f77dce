----------------------------- MODULE MCDownlink -----------------------------
(* Two receptions, of one packet or two, readable, too short or malformed. *)
EXTENDS Downlink

CONSTANTS e1, e2, packet, noise, junk

MCEntries == {e1, e2}
MCData == {packet, noise, junk}
MCUnreadable == {noise}
MCMalformed == {junk}
=============================================================================
