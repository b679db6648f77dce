------------------------------ MODULE MCVoice -------------------------------
(* The codec of the first tests, with the widths of the code: a message of *)
(* one chunk, of three, and one that does not fit the budget.              *)
EXTENDS Voice, TLC

BytesOfFrame == "CODEC2_700C" :> 4 @@ "LYRA_3200" :> 8

=============================================================================
