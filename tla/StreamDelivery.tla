--------------------------- MODULE StreamDelivery ---------------------------
(***************************************************************************)
(* What a connection promises to the application of the client, without    *)
(* packets, timers and windows: the bytes it hands over arrive at the      *)
(* server; the client learns of bytes that arrived, never of others and    *)
(* never the opposite; and it closes the connection when it knows that     *)
(* every byte arrived.                                                     *)
(***************************************************************************)
EXTENDS Naturals

CONSTANT Bytes   \* the bytes an application may hand over

VARIABLES
  written,     \* bytes of the streams of the connection
  delivered,   \* bytes that arrived at the server
  acked,       \* bytes the client knows arrived
  closed       \* did the client delete the connection?

deliveryVars == <<written, delivered, acked, closed>>

DeliveryInit ==
  /\ written \in SUBSET Bytes
  /\ delivered = {}
  /\ acked = {}
  /\ closed = FALSE

\* The application hands over more bytes.
Write ==
  /\ ~closed
  /\ written' \in SUBSET Bytes
  /\ written \subseteq written'
  /\ UNCHANGED <<delivered, acked, closed>>

\* A packet arrives; bytes may arrive again.
Deliver ==
  /\ delivered' \in SUBSET written
  /\ delivered \subseteq delivered'
  /\ UNCHANGED <<written, acked, closed>>

\* An acknowledgment arrives, and the client may close.
Acknowledge ==
  /\ ~closed
  /\ acked' \in SUBSET delivered
  /\ acked \subseteq acked'
  /\ closed' \in BOOLEAN
  /\ closed' => acked' = written
  /\ UNCHANGED <<written, delivered>>

DeliveryNext == Write \/ Deliver \/ Acknowledge

DeliverySpec == DeliveryInit /\ [][DeliveryNext]_deliveryVars

-----------------------------------------------------------------------------
\* The client only counts bytes that arrived as acknowledged, and a closed
\* connection delivered everything.
DeliveredBeforeClosed ==
  /\ acked \subseteq delivered
  /\ delivered \subseteq written
  /\ closed => delivered = written

=============================================================================
