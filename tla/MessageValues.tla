--------------------------- MODULE MessageValues ---------------------------
(***************************************************************************)
(* What the users of a message class rely on: an object is a value, a      *)
(* record of fields and a sequence of elements.  Two objects never share   *)
(* anything, and every operation changes what it names and nothing else.   *)
(***************************************************************************)
EXTENDS Naturals, SequencesExt

CONSTANT Objects

VARIABLES
  value,   \* for each object, << >> or a sequence with its value
  first    \* the value objects are created with

valueVars == <<value, first>>

Live(o) == value[o] # << >>

ValueInit == value = [o \in Objects |-> << >>]

Put(o, v) == value' = [value EXCEPT ![o] = v] /\ UNCHANGED first

New(o) == ~Live(o) /\ Put(o, <<first>>)

Discard(o) == Live(o) /\ Put(o, << >>)

CopyOf(o, p) == Live(p) /\ Put(o, value[p])

ChangeField(o) ==
  /\ Live(o)
  /\ \E n \in DOMAIN value[o][1].fields :
       Put(o, [value[o] EXCEPT ![1].fields[n] = 1])

\* The first elements stay; what a longer array has behind them is one of the
\* default elements.
Resize(o) ==
  /\ Live(o)
  /\ LET old == value[o][1].elements
         new == value'[o][1].elements
     IN  /\ value'[o] # << >>
         /\ \A i \in DOMAIN new \cap DOMAIN old : new[i] = old[i]
         /\ \A i, j \in DOMAIN new \ DOMAIN old : new[i] = new[j]
         /\ Put(o, [value[o] EXCEPT ![1].elements = new])

ChangeElements(o) ==
  /\ Live(o)
  /\ LET old == value[o][1].elements
         new == value'[o][1].elements
     IN  /\ value'[o] # << >>
         /\ \/ /\ Len(new) = Len(old)
               /\ \E k \in DOMAIN old : new = ReplaceAt(old, k, new[k])
            \/ /\ Len(new) = Len(old) + 1
               /\ \E k \in DOMAIN new : new = InsertAt(old, k, new[k])
            \/ \E k \in DOMAIN old : new = RemoveAt(old, k)
         /\ Put(o, [value[o] EXCEPT ![1].elements = new])

ValueNext ==
  \E o \in Objects :
    \/ New(o) \/ Discard(o) \/ ChangeField(o) \/ Resize(o) \/ ChangeElements(o)
    \/ \E p \in Objects : CopyOf(o, p)

ValueSpec == ValueInit /\ [][ValueNext]_valueVars

=============================================================================
