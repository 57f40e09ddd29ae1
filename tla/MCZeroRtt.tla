------------------------------ MODULE MCZeroRtt ------------------------------
EXTENDS QuicZeroRtt

TwoStreams == <<9, 5>>
NoStreams == << >>
=============================================================================
