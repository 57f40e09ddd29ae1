------------------------- MODULE QuicMessageObjects -------------------------
(***************************************************************************)
(* Objects of one message class, with the blocks of memory their arrays    *)
(* live in: created, filled by setters and through the descriptor, copied, *)
(* packed and unpacked, destroyed.                                         *)
(*                                                                         *)
(* In some behaviours the class is ACKFrame and the first objects are      *)
(* built by the server's handleAckTimeout (ConnectionManager.cc) from its  *)
(* list of packets out of order; they are then only copied and read, as    *)
(* frames of sent packets are.                                             *)
(***************************************************************************)
EXTENDS QuicMessages, QuicAckRanges

CONSTANTS
  Objects,      \* the variables an object can be in
  MaxChanges,   \* bound: calls of methods that change an object
  MaxLength,    \* bound: the length of an array
  Reports       \* the server's state when an ACK frame is due

ASSUME ReportsAssumption ==
  \A r \in Reports :
    /\ r.rcv_next \in Int /\ r.current_largest \in Int
    /\ r.list \in SUBSET Int /\ IsFiniteSet(r.list)
    /\ r.list = {} => r.current_largest < r.rcv_next

ASSUME LengthAssumption == MaxLength \in Nat

VARIABLES
  class,        \* the class of all objects
  memory,       \* the objects and the blocks
  report,       \* the server's state, or NoReport
  first,        \* what a new object holds
  changes       \* changes so far

vars == <<class, memory, report, first, changes>>

NoReport == [none |-> TRUE]
Dead == [dead |-> TRUE]
Null == 0
ACK == 2        \* the frame type
Garbage == -1   \* what a loop finds behind an array or in deleted memory

\* A class's members, those of its bases first, each with the class it is in.
MembersOf ==
  [c \in Classes |->
     FlattenSeq([i \in DOMAIN Chain[c] |->
       LET owner == Chain[c][i]
       IN  [j \in DOMAIN Class[owner].members |->
              [owner |-> owner, member |-> Class[owner].members[j]]]])]

Key(m) == <<m.owner, m.member.name>>

Values ==
  [c \in Classes |-> SelectSeq(MembersOf[c], LAMBDA m : ~m.member.array)]

HasArray(c) == Len(Values[c]) < Len(MembersOf[c])

\* The member a name stands for: all getters and setters are virtual, so the
\* last class with the name decides.
Visible ==
  [c \in Classes |->
     [name \in {m.member.name : m \in ToSet(Values[c])} |->
        Key(Last(SelectSeq(Values[c], LAMBDA m : m.member.name = name)))]]

\* The in-class initializers, which no constructor changes.
Defaults ==
  [c \in Classes |->
     [k \in {Key(m) : m \in ToSet(Values[c])} |->
        (CHOOSE m \in ToSet(Values[c]) : Key(m) = k).member.default]]

(***************************************************************************)
(* Facts about the classes, which have no parameters: TLC evaluates them   *)
(* in full.  The members of an object with a value are those of its class  *)
(* and its bases, and no name stands for two of them.                      *)
(***************************************************************************)
IsArray(c, i) == MembersOf[c][i].member.array

ASSUME ClassData ==
  \A c \in Classes :
    /\ MembersOf[c] \in Seq([owner : STRING,
                             member : [name : STRING, default : Int,
                                       array : BOOLEAN]])
    /\ HasArray(c) => \E i \in DOMAIN MembersOf[c] : IsArray(c, i)
    /\ DOMAIN Defaults[c] =
         {Key(MembersOf[c][i]) :
            i \in {j \in DOMAIN MembersOf[c] : ~IsArray(c, j)}}
    /\ Defaults[c] \in [DOMAIN Defaults[c] -> Int]
    /\ \A n \in DOMAIN Visible[c] :
         Visible[c][n] \in DOMAIN Defaults[c] /\ Visible[c][n][2] = n

ASSUME AckFrameData ==
  /\ "ACKFrame" \in Classes
  /\ \E i \in DOMAIN MembersOf["ACKFrame"] : IsArray("ACKFrame", i)
  /\ {"frame_type", "largest_acknowledged", "first_ACK_range",
      "ACK_range_count"} \subseteq DOMAIN Visible["ACKFrame"]
  /\ Defaults["ACKFrame"][Visible["ACKFrame"]["ACK_range_count"]] = 0

\* new range[], new int[] and new char[] with the loop that clears them
DefaultElement(c) == IF c = "ACKFrame" THEN AckRange(0, 0) ELSE 0
OtherElement(c)   == IF c = "ACKFrame" THEN AckRange(1, 1) ELSE 1

-----------------------------------------------------------------------------
(***************************************************************************)
(* Memory: what is in each object, and the blocks in use.                  *)
(***************************************************************************)
Live(m) == {o \in Objects : m.object[o] # Dead}

\* The elements of an object's array, as a loop up to its size reads them.
Elements(m, o) ==
  [i \in 1 .. m.object[o].size |->
     LET a == m.object[o].pointer
     IN  IF a \in DOMAIN m.block /\ i <= Len(m.block[a])
         THEN m.block[a][i] ELSE Garbage]

\* delete [] pointer
Release(m, o) ==
  [m EXCEPT !.block = Restrict(@, DOMAIN @ \ {m.object[o].pointer})]

Point(m, o, a, size) ==
  [m EXCEPT !.object[o].pointer = a, !.object[o].size = size]

\* pointer = size == 0 ? nullptr : new [size], and the elements written to it
Attach(m, o, elements) ==
  LET a == CHOOSE x \in 1 .. Cardinality(DOMAIN m.block) + 1 :
             x \notin DOMAIN m.block
  IN  IF elements = << >> THEN Point(m, o, Null, 0)
      ELSE [Point(m, o, a, Len(elements)) EXCEPT
              !.block = [x \in DOMAIN @ \cup {a} |->
                           IF x = a THEN elements ELSE @[x]]]

\* A new block for a changed array: the old one is deleted afterwards.
Reattach(m, o, elements) ==
  LET attached == Attach(m, o, elements)
  IN  [attached EXCEPT
         !.block = Restrict(@, DOMAIN @ \ {m.object[o].pointer})]

-----------------------------------------------------------------------------
(***************************************************************************)
(* The methods of the classes.                                             *)
(***************************************************************************)
Construct(m, o, c) ==
  [m EXCEPT !.object[o] =
     [values |-> Defaults[c], pointer |-> Null, size |-> 0]]

Destruct(m, o) == [Release(m, o) EXCEPT !.object[o] = Dead]

\* Mutant: the pointer is copied in place of the elements.
CopyShallow(m, o, p) ==
  [Release(m, o) EXCEPT !.object[o] = m.object[p]]

Copy(m, o, p) ==
  LET released == Release(m, o)
      copied   == [released EXCEPT !.object[o].values = m.object[p].values]
  IN  Attach(copied, o, Elements(released, p))

CopyConstruct(m, o, p, c) == Copy(Construct(m, o, c), o, p)

\* operator=, with its test this == &other
Assign(m, o, p) == IF o = p THEN m ELSE Copy(m, o, p)

\* The members in order; an array as its size and its elements.
Packed(m, o, x) ==
  IF x.member.array THEN <<m.object[o].size>> \o Elements(m, o)
                    ELSE <<m.object[o].values[Key(x)]>>

ParsimPack(m, o, c) ==
  FoldLeft(LAMBDA buffer, packed : buffer \o packed, << >>,
           [i \in DOMAIN MembersOf[c] |-> Packed(m, o, MembersOf[c][i])])

\* A member of object o is taken from the front of the buffer.
TakeMember(taken, x) ==
  LET o == taken.o
  IN  IF x.member.array
      THEN LET size == Head(taken.rest)
           IN  [o    |-> o,
                m    |-> Attach(Release(taken.m, o), o,
                                SubSeq(taken.rest, 2, size + 1)),
                rest |-> SubSeq(taken.rest, size + 2, Len(taken.rest))]
      ELSE [o    |-> o,
            m    |-> [taken.m EXCEPT
                        !.object[o].values[Key(x)] = Head(taken.rest)],
            rest |-> SubSeq(taken.rest, 2, Len(taken.rest))]

\* One member after the other.
ParsimUnpack(m, o, c, buffer) ==
  FoldLeft(TakeMember, [o |-> o, m |-> m, rest |-> buffer], MembersOf[c]).m

Getter(m, o, c, name) == m.object[o].values[Visible[c][name]]

Setter(m, o, c, name, value) ==
  [m EXCEPT !.object[o].values[Visible[c][name]] = value]

\* set...ArraySize
SetArraySize(m, o, c, size) ==
  Reattach(m, o, [i \in 1 .. size |->
    IF i <= m.object[o].size THEN Elements(m, o)[i] ELSE DefaultElement(c)])

SetElement(m, o, k, element) ==
  [m EXCEPT !.block[m.object[o].pointer][k] = element]

\* SetElement for every place, one after the other.
SetElements(m, o, elements) ==
  [m EXCEPT !.block[m.object[o].pointer] = elements]

\* Mutant: the elements behind the new one are not moved.
InsertElementOver(m, o, k, element) ==
  Reattach(m, o, [i \in 1 .. m.object[o].size + 1 |->
    IF i = k THEN element
    ELSE IF i <= m.object[o].size THEN Elements(m, o)[i] ELSE element])

InsertElement(m, o, k, element) ==
  Reattach(m, o, InsertAt(Elements(m, o), k, element))

EraseElement(m, o, k) == Reattach(m, o, RemoveAt(Elements(m, o), k))

-----------------------------------------------------------------------------
(***************************************************************************)
(* The descriptors: fields by index, counted from 0.                       *)
(***************************************************************************)
FieldCount[c \in DOMAIN Class] ==
  Len(Descriptor[c].names)
    + (IF Class[c].base = None THEN 0 ELSE FieldCount[Class[c].base])

BaseCount(c) == FieldCount[c] - Len(Descriptor[c].names)

\* The descriptor an index is handed down to.
FieldHolder(c, field) ==
  CHOOSE d \in ToSet(Chain[c]) : field \in BaseCount(d) .. FieldCount[d] - 1

GetFieldName(c, field) ==
  LET d == FieldHolder(c, field)
  IN  Descriptor[d].names[field - BaseCount(d) + 1]

IsArrayField(c, name) == name \notin DOMAIN Visible[c]

IsEditable(c, field) ==
  GetFieldName(c, field) \notin Descriptor[FieldHolder(c, field)].compound

\* i is the place in an array field.
SetFieldValueAsString(m, o, c, field, i, value) ==
  LET name == GetFieldName(c, field)
  IN  IF ~IsEditable(c, field) THEN m
      ELSE IF IsArrayField(c, name) THEN SetElement(m, o, i, value)
      ELSE Setter(m, o, c, name, value)

-----------------------------------------------------------------------------
(***************************************************************************)
(* ACK frames.                                                             *)
(***************************************************************************)
\* What handleAckTimeout reports.
AckOf(r) ==
  IF r.list # {} THEN OutOfOrderAck(r.list, r.rcv_next)
                 ELSE InOrderAck(r.rcv_next, r.current_largest)

\* handleAckTimeout: the range count is only set when there are ranges.
WriteAck(m, o, r) ==
  LET Set(x, name, value) == Setter(x, o, "ACKFrame", name, value)
      typed  == Set(Construct(m, o, "ACKFrame"), "frame_type", ACK)
      frame  == AckOf(r)
      count  == Len(frame.ranges)
      ranges == SetElements(SetArraySize(typed, o, "ACKFrame", count),
                            o, frame.ranges)
      listed == IF r.list # {} THEN Set(ranges, "ACK_range_count", count)
                ELSE typed
  IN  Set(Set(listed, "first_ACK_range", frame.first),
          "largest_acknowledged", frame.largest)

\* What processPacketFrames reads of an ACK frame.
ReadAck(m, o) ==
  LET Get(name) == Getter(m, o, "ACKFrame", name)
  IN  [largest |-> Get("largest_acknowledged"),
       first   |-> Get("first_ACK_range"),
       ranges  |-> SubSeq(Elements(m, o), 1, Get("ACK_range_count"))]

-----------------------------------------------------------------------------
\* An object seen from outside: a value under every name, and the elements.
ValueOf(m, o, c) ==
  [fields   |-> [n \in DOMAIN Visible[c] |->
                   m.object[o].values[Visible[c][n]]],
   elements |-> Elements(m, o)]

Created(m, o) ==
  IF report = NoReport THEN Construct(m, o, class) ELSE WriteAck(m, o, report)

Init ==
  /\ class \in Classes
  /\ report \in IF class = "ACKFrame" THEN Reports \cup {NoReport}
                                       ELSE {NoReport}
  /\ memory = [object |-> [o \in Objects |-> Dead], block |-> << >>]
  /\ first = LET o == CHOOSE x \in Objects : TRUE
            IN  ValueOf(Created(memory, o), o, class)
  /\ changes = 0

\* An operation that replaces or removes objects, and one that changes them.
Becomes(m) == memory' = m /\ UNCHANGED <<class, report, first, changes>>

Changes(m) ==
  /\ report = NoReport
  /\ changes < MaxChanges
  /\ changes' = changes + 1
  /\ memory' = m
  /\ UNCHANGED <<class, report, first>>

Create(o) ==
  /\ memory.object[o] = Dead
  /\ Becomes(Created(memory, o))

Destroy(o) == o \in Live(memory) /\ Becomes(Destruct(memory, o))

Duplicate(o, p) ==
  /\ memory.object[o] = Dead
  /\ p \in Live(memory)
  /\ Becomes(CopyConstruct(memory, o, p, class))

AssignFrom(o, p) ==
  /\ {o, p} \subseteq Live(memory)
  /\ Becomes(Assign(memory, o, p))

\* p is packed on one processor and unpacked into o on another one.
Transport(o, p) ==
  /\ {o, p} \subseteq Live(memory)
  /\ o # p
  /\ Becomes(ParsimUnpack(memory, o, class, ParsimPack(memory, p, class)))

CallSetter(o) ==
  /\ o \in Live(memory)
  /\ \E name \in DOMAIN Visible[class] :
       Changes(Setter(memory, o, class, name, 1))

\* The user picks a field by its index, and a place if it is an array.
EditField(o) ==
  /\ o \in Live(memory)
  /\ \E field \in 0 .. FieldCount[class] - 1 :
     \E k \in IF IsArrayField(class, GetFieldName(class, field))
              THEN 1 .. memory.object[o].size ELSE {0} :
       Changes(SetFieldValueAsString(memory, o, class, field, k, 1))

ResizeArray(o) ==
  /\ o \in Live(memory)
  /\ HasArray(class)
  /\ \E size \in 0 .. MaxLength :
       Changes(SetArraySize(memory, o, class, size))

\* Places beyond the array throw an exception that ends the simulation; no
\* caller in the code passes one.
ChangeElement(o) ==
  /\ o \in Live(memory)
  /\ \E k \in 1 .. memory.object[o].size :
       Changes(SetElement(memory, o, k, OtherElement(class)))

Insert(o) ==
  /\ o \in Live(memory)
  /\ HasArray(class)
  /\ memory.object[o].size < MaxLength
  /\ \E k \in 1 .. memory.object[o].size + 1 :
       Changes(InsertElement(memory, o, k, OtherElement(class)))

Erase(o) ==
  /\ o \in Live(memory)
  /\ \E k \in 1 .. memory.object[o].size :
       Changes(EraseElement(memory, o, k))

Next ==
  \E o \in Objects :
    \/ Create(o) \/ Destroy(o)
    \/ CallSetter(o) \/ EditField(o)
    \/ ResizeArray(o) \/ ChangeElement(o) \/ Insert(o) \/ Erase(o)
    \/ \E p \in Objects : Duplicate(o, p) \/ AssignFrom(o, p) \/ Transport(o, p)

Spec == Init /\ [][Next]_vars

-----------------------------------------------------------------------------
\* Every block belongs to the array of one live object and is as long as that
\* object takes it for; no object holds a block that was deleted, shares one,
\* or loses one without deleting it.
OwnsItsBlock ==
  LET owners == {o \in Live(memory) : memory.object[o].pointer # Null}
  IN  /\ {memory.object[o].pointer : o \in owners} = DOMAIN memory.block
      /\ Cardinality(owners) = Cardinality(DOMAIN memory.block)
      /\ \A o \in Live(memory) :
           memory.object[o].size =
             IF o \in owners THEN Len(memory.block[memory.object[o].pointer])
             ELSE 0

AsValues == INSTANCE MessageValues WITH
  value <- [o \in Objects |->
              IF o \in Live(memory) THEN <<ValueOf(memory, o, class)>>
              ELSE << >>]

\* Objects behave like values: a copy has all fields of its original and keeps
\* them when the original is changed or destroyed, an unpacked object has those
\* of the packed one, and a change of an array leaves the other elements as
\* they were.
BehavesLikeValues == AsValues!ValueSpec

\* What the server reports in an ACK frame.
Reported(r) ==
  IF r.list # {} THEN r.list ELSE r.current_largest + 1 .. r.rcv_next - 1

\* What the client reads from an ACK frame, or from any copy of it, is exactly
\* what the server wrote: every number, once, from the largest down.
RoundTrip ==
  report # NoReport =>
    \A o \in Live(memory) :
      DecodeAck(ReadAck(memory, o)) = Descending(Reported(report))

\* The array the client allocates has one place for every number it will
\* write into it (total_acked in processPacketFrames); with one place too few
\* the client would write behind its array.
ArrayFits ==
  report # NoReport =>
    \A o \in Live(memory) :
      TotalAcked(ReadAck(memory, o)) = Len(DecodeAck(ReadAck(memory, o)))

=============================================================================
