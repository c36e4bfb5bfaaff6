----------------------------- MODULE MC_Framing -----------------------------
(* Framing with 2-bit bytes: a length header spans 0..255, so a response  *)
(* of 255 bytes is the largest the header can describe.                   *)
EXTENDS Framing

MC_RequestSizes == {0, 2}
MC_ResponseSizes == {0, 1, LenRange - 1}
\* One response too long for the header: the u32 cast wraps it to 0.
MC_OversizeResponses == {1, LenRange}

=============================================================================
