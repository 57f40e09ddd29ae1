---------------------------- MODULE QuicMessages ----------------------------
(***************************************************************************)
(* The message classes of the simulation: packet headers, frames, the      *)
(* message of the application, the timers and the record of a packet's     *)
(* earlier numbers (headers_and_frames/*_m.cc, timer_msg_m.cc,             *)
(* ack_timer_msg_m.cc, retransmission_info_m.cc).                          *)
(*                                                                         *)
(* All classes have one shape: members that a constructor sets, copy() and *)
(* parsimPack/parsimUnpack carry along after those of the base class, and  *)
(* setters change; and a descriptor through which the user of the          *)
(* simulation finds, shows and edits fields by index, where the fields of  *)
(* the base class come first.  A class is therefore a list of its members  *)
(* in the order they are packed, a descriptor the list of its fields, and  *)
(* the methods are written once, for all classes.                          *)
(*                                                                         *)
(* An array member is a pointer to a block of memory and a size; all other *)
(* members are values.                                                     *)
(***************************************************************************)
EXTENDS Integers, FiniteSets, SequencesExt

Num(name)   == [name |-> name, default |-> 0, array |-> FALSE]
Unit(name)  == [name |-> name, default |-> -1, array |-> FALSE]  \* B(-1), b(-1)
Array(name) == [name |-> name, default |-> 0, array |-> TRUE]

\* false, "" and the empty vector are 0, too; a value is only copied.
Bool(name)  == Num(name)
Other(name) == Num(name)

Members(base, members) == [base |-> base, members |-> members]

\* A descriptor's fields; setFieldValueAsString changes all but the compound
\* ones.
Fields(names, compound) == [names |-> names, compound |-> compound]

-----------------------------------------------------------------------------
(***************************************************************************)
(* The classes.                                                            *)
(***************************************************************************)
None == "none"

\* FieldsChunk, cMessage and cNamedObject, of the libraries.
Library == Members(None, << >>)
LibraryDescriptor == Fields(<<"library">>, {"library"})

QuicPacketHeader ==
  Members("FieldsChunk",
          <<Num("dest_connection_id_length"), Num("dest_connection_ID"),
            Unit("packet_number_length"), Num("packet_number"),
            Unit("header_form"), Unit("fixed_bit")>>)
QuicPacketHeaderDescriptor ==
  Fields(<<"dest_connection_id_length", "dest_connection_ID",
           "packet_number_length", "packet_number", "header_form",
           "fixed_bit">>, {})

QuicLongHeader ==
  Members("QuicPacketHeader",
          <<Num("long_packet_type"), Num("version"),
            Num("source_connection_id_length"), Num("source_connection_ID")>>)
QuicLongHeaderDescriptor ==
  Fields(<<"long_packet_type", "version", "source_connection_id_length",
           "source_connection_ID">>, {})

QuicShortHeader ==
  Members("QuicPacketHeader", <<Unit("spin_bit"), Unit("reserved_bits")>>)
QuicShortHeaderDescriptor == Fields(<<"spin_bit", "reserved_bits">>, {})

QuicFrame == Members("FieldsChunk", <<Num("frame_type")>>)
QuicFrameDescriptor == Fields(<<"frame_type">>, {})

StreamFrame ==
  Members("QuicFrame", <<Num("stream_id"), Num("offset"), Num("length"),
                         Bool("is_FIN")>>)
StreamFrameDescriptor ==
  Fields(<<"stream_id", "offset", "length", "is_FIN">>, {})

ACKFrame ==
  Members("QuicFrame",
          <<Num("largest_acknowledged"), Num("ACK_delay"),
            Num("ACK_range_count"), Num("first_ACK_range"),
            Array("ACK_ranges")>>)
ACKFrameDescriptor ==
  Fields(<<"largest_acknowledged", "ACK_delay", "ACK_range_count",
           "first_ACK_range", "ACK_ranges">>, {"ACK_ranges"})

QuicHandShakeData ==
  Members("QuicFrame",
          <<Num("initial_source_connection_id"),
            Num("original_destination_connection_id"),
            Num("max_udp_payload_size"), Num("initial_max_data"),
            Num("initial_max_stream_data")>>)
QuicHandShakeDataDescriptor ==
  Fields(<<"initial_source_connection_id",
           "original_destination_connection_id", "max_udp_payload_size",
           "initial_max_data", "initial_max_stream_data">>, {})

\* The class has a frame_type of its own beside that of QuicFrame, and its
\* getter and setter override the base's.
ConnectionCloseFrame ==
  Members("QuicFrame", <<Num("error_code"), Num("frame_type"),
                         Array("reason_pharse"), Num("reason_pharse_length")>>)
ConnectionCloseFrameDescriptor ==
  Fields(<<"error_code", "frame_type", "reason_pharse",
           "reason_pharse_length">>, {})

DataBlockedFrame == Members("QuicFrame", <<Num("maximum_data")>>)
DataBlockedFrameDescriptor == Fields(<<"maximum_data">>, {})

MaxDataFrame == Members("QuicFrame", <<Num("maximum_data")>>)
MaxDataFrameDescriptor == Fields(<<"maximum_data">>, {})

MaxStreamDataFrame ==
  Members("QuicFrame", <<Num("stream_id"), Num("maximum_stream_data")>>)
MaxStreamDataFrameDescriptor ==
  Fields(<<"stream_id", "maximum_stream_data">>, {})

StreamDataBlockedFrame ==
  Members("QuicFrame", <<Num("stream_id"), Num("maximum_stream_data")>>)
StreamDataBlockedFrameDescriptor ==
  Fields(<<"stream_id", "maximum_stream_data">>, {})

MaxStreamsFrame == Members("QuicFrame", <<Num("maximum_streams")>>)
MaxStreamsFrameDescriptor == Fields(<<"maximum_streams">>, {})

StreamsBlockedFrame == Members("QuicFrame", <<Num("maximum_streams")>>)
StreamsBlockedFrameDescriptor == Fields(<<"maximum_streams">>, {})

NewConnectionIDFrame ==
  Members("QuicFrame", <<Num("retire_prior_to"), Num("length"),
                         Num("connection_ID")>>)
NewConnectionIDFrameDescriptor ==
  Fields(<<"retire_prior_to", "length", "connection_ID">>, {})

ResetStreamFrame ==
  Members("QuicFrame", <<Num("stream_id"), Num("final_size"),
                         Num("error_code")>>)
ResetStreamFrameDescriptor ==
  Fields(<<"stream_id", "final_size", "error_code">>, {})

StopSendingFrame ==
  Members("QuicFrame", <<Num("stream_id"), Num("error_code")>>)
StopSendingFrameDescriptor == Fields(<<"stream_id", "error_code">>, {})

HandshakeDoneFrame == Members("QuicFrame", << >>)
HandshakeDoneFrameDescriptor == Fields(<< >>, {})

PaddingFrame == Members("QuicFrame", << >>)
PaddingFrameDescriptor == Fields(<< >>, {})

PingFrame == Members("QuicFrame", << >>)
PingFrameDescriptor == Fields(<< >>, {})

connection_config_data ==
  Members("FieldsChunk", <<Array("connection_data"), Other("connectAddress")>>)
connection_config_dataDescriptor ==
  Fields(<<"connection_data", "connectAddress">>, {})

retransmission_info ==
  Members("cNamedObject", <<Other("packets_numbers"), Bool("is_retransmit")>>)
retransmission_infoDescriptor ==
  Fields(<<"packets_numbers", "is_retransmit">>, {"packets_numbers"})

timer_msg == Members("cMessage", <<Num("dest_connection_ID")>>)
timer_msgDescriptor == Fields(<<"dest_connection_ID">>, {})

ack_timer_msg == Members("cMessage", <<Num("dest_connection_ID")>>)
ack_timer_msgDescriptor == Fields(<<"dest_connection_ID">>, {})

Class ==
  [FieldsChunk |-> Library, cMessage |-> Library, cNamedObject |-> Library,
   QuicPacketHeader |-> QuicPacketHeader, QuicLongHeader |-> QuicLongHeader,
   QuicShortHeader |-> QuicShortHeader, QuicFrame |-> QuicFrame,
   StreamFrame |-> StreamFrame, ACKFrame |-> ACKFrame,
   QuicHandShakeData |-> QuicHandShakeData,
   ConnectionCloseFrame |-> ConnectionCloseFrame,
   DataBlockedFrame |-> DataBlockedFrame, MaxDataFrame |-> MaxDataFrame,
   MaxStreamDataFrame |-> MaxStreamDataFrame,
   StreamDataBlockedFrame |-> StreamDataBlockedFrame,
   MaxStreamsFrame |-> MaxStreamsFrame,
   StreamsBlockedFrame |-> StreamsBlockedFrame,
   NewConnectionIDFrame |-> NewConnectionIDFrame,
   ResetStreamFrame |-> ResetStreamFrame,
   StopSendingFrame |-> StopSendingFrame,
   HandshakeDoneFrame |-> HandshakeDoneFrame, PaddingFrame |-> PaddingFrame,
   PingFrame |-> PingFrame, connection_config_data |-> connection_config_data,
   retransmission_info |-> retransmission_info, timer_msg |-> timer_msg,
   ack_timer_msg |-> ack_timer_msg]

Descriptor ==
  [FieldsChunk |-> LibraryDescriptor, cMessage |-> LibraryDescriptor,
   cNamedObject |-> LibraryDescriptor,
   QuicPacketHeader |-> QuicPacketHeaderDescriptor,
   QuicLongHeader |-> QuicLongHeaderDescriptor,
   QuicShortHeader |-> QuicShortHeaderDescriptor,
   QuicFrame |-> QuicFrameDescriptor, StreamFrame |-> StreamFrameDescriptor,
   ACKFrame |-> ACKFrameDescriptor,
   QuicHandShakeData |-> QuicHandShakeDataDescriptor,
   ConnectionCloseFrame |-> ConnectionCloseFrameDescriptor,
   DataBlockedFrame |-> DataBlockedFrameDescriptor,
   MaxDataFrame |-> MaxDataFrameDescriptor,
   MaxStreamDataFrame |-> MaxStreamDataFrameDescriptor,
   StreamDataBlockedFrame |-> StreamDataBlockedFrameDescriptor,
   MaxStreamsFrame |-> MaxStreamsFrameDescriptor,
   StreamsBlockedFrame |-> StreamsBlockedFrameDescriptor,
   NewConnectionIDFrame |-> NewConnectionIDFrameDescriptor,
   ResetStreamFrame |-> ResetStreamFrameDescriptor,
   StopSendingFrame |-> StopSendingFrameDescriptor,
   HandshakeDoneFrame |-> HandshakeDoneFrameDescriptor,
   PaddingFrame |-> PaddingFrameDescriptor,
   PingFrame |-> PingFrameDescriptor,
   connection_config_data |-> connection_config_dataDescriptor,
   retransmission_info |-> retransmission_infoDescriptor,
   timer_msg |-> timer_msgDescriptor,
   ack_timer_msg |-> ack_timer_msgDescriptor]

\* The classes of the repository.
Classes == {c \in DOMAIN Class : Class[c].base # None}

\* A class after all its bases.
Chain[c \in DOMAIN Class] ==
  IF Class[c].base = None THEN <<c>> ELSE Append(Chain[Class[c].base], c)

=============================================================================
