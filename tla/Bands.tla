-------------------------------- MODULE Bands --------------------------------
(***************************************************************************)
(* What may be transmitted on which band, and the gate that amateur        *)
(* transmissions pass.                                                     *)
(***************************************************************************)

Bands == {"UNKNOWN", "AMATEUR", "ISM", "LICENSED", "CARRIER_NTN", "RECEIVE_ONLY"}

\* _BAND_POLICIES.
TxAllowed == Bands \ {"UNKNOWN", "RECEIVE_ONLY"}
EncryptionAllowed == TxAllowed \ {"AMATEUR"}

\* What assert_encryption_policy lets pass.
PolicyAllows(band, encrypted) ==
    band \in IF encrypted THEN EncryptionAllowed ELSE TxAllowed

\* LicenseGate: the callsign is well formed, has the country's pattern, and
\* its operator confirmed the licence.
Licensed(gate, purpose) ==
    /\ gate.wellFormed /\ gate.ofCountry /\ gate.confirmed
    /\ purpose \notin {"commercial", "pstn", "paid"}

Authorize(gate, band, encrypted, purpose) ==
    /\ PolicyAllows(band, encrypted)
    /\ band = "AMATEUR" => Licensed(gate, purpose)

=============================================================================
