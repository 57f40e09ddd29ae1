----------------------------- MODULE MCTransfer -----------------------------
EXTENDS QuicTransfer

OneStream == <<6>>
TwoStreams == <<6, 4>>
NoStreams == << >>
OneAdded == <<1>>
=============================================================================
