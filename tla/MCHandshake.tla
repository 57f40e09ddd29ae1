----------------------------- MODULE MCHandshake -----------------------------
\* Two connections of one host, or three of two.
EXTENDS QuicHandshake, TLC

CONSTANTS c1, c2, c3, a, b

OneHostOf == (c1 :> a) @@ (c2 :> a)
ThreeHostOf == (c1 :> a) @@ (c2 :> a) @@ (c3 :> b)

=============================================================================
