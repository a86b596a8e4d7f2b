------------------------------ MODULE UsbWords ------------------------------
(***************************************************************************)
(* Code that fills in the words of USB/USBTypes.h one field at a time, in  *)
(* any order and over what is there: BitField.h and the two endpoint bytes.*)
(***************************************************************************)
EXTENDS UsbTypes

CONSTANT Values     \* what may be assigned, wider than the narrow fields

(* Values are unsigned.                                                    *)
ValuesAssumption == Values \subseteq Nat

(* The fields of each word, as <<offset, count>>.                          *)
Layout == [
    bmRequestType |-> <<<<0, 5>>, <<5, 2>>, <<7, 1>>>>,
    UsbVersion |-> <<<<0, 4>>, <<4, 4>>, <<8, 8>>>>,
    Test8BitField |-> <<<<0, 1>>, <<1, 3>>, <<4, 4>>>>,
    UsbAttributes |-> <<<<5, 1>>, <<6, 1>>, <<7, 1>>>>]

VARIABLES
    kind,       \* which word it is
    word,       \* its value
    given       \* the values its fields were given last

vars == <<kind, word, given>>

(* New words are zero; a version is made of its parts, a new UsbAttributes *)
(* has its reserved bit set, and endpoint attributes have a type.          *)
Init ==
    \/ /\ kind \in {"bmRequestType", "Test8BitField"}
       /\ word = 0
       /\ given = <<0, 0, 0>>
    \/ /\ kind = "UsbVersion"
       /\ given \in (0 .. 2) \X (0 .. 2) \X (0 .. 2)
       /\ word = UsbVersion(given[3], given[2], given[1])
    \/ /\ kind = "UsbAttributes"
       /\ word = UsbAttributes
       /\ given = <<0, 0, 1>>
    \/ /\ kind = "EndpointAttributes"
       /\ given \in (0 .. 3) \X (0 .. 3) \X (0 .. 2)
       /\ word = EndpointAttributes(given[1], given[2], given[3])
    \/ /\ kind = "EndpointAddress"
       /\ given = <<0, 0, 0>>
       /\ word = 0

Set(i, v) ==
    /\ kind \in DOMAIN Layout
    /\ LET field == Layout[kind][i] IN
          /\ word' = Assign(word, field[1], field[2], v)
          /\ given' = [given EXCEPT ![i] = v % 2^field[2]]
    /\ UNCHANGED kind

SetEndpointType(type) ==
    /\ kind = "EndpointAttributes"
    /\ word' = SetType(word, type)
    /\ given' = [given EXCEPT ![1] = type]
    /\ UNCHANGED kind

(* setIn and setOut of an address; given is its number and its direction.  *)
SetDirection(id, in) ==
    /\ kind = "EndpointAddress"
    /\ word' = IF in THEN MakeIn(id) ELSE MakeOut(id)
    /\ given' = <<id % 128, IF in THEN 1 ELSE 0, 0>>
    /\ UNCHANGED kind

Next ==
    \/ \E i \in 1 .. 3, v \in Values : Set(i, v)
    \/ \E type \in 0 .. 3 : SetEndpointType(type)
    \/ \E id \in 0 .. 15, in \in BOOLEAN : SetDirection(id, in)

Spec == Init /\ [][Next]_vars

-----------------------------------------------------------------------------
(* Each field reads back what it was given last, whatever was assigned to  *)
(* its neighbours since and however wide the values were; and an address   *)
(* tells its number and, number zero apart, its one direction, and is      *)
(* valid unless it is number zero made an IN address.                      *)
FieldsAreIndependent ==
    /\ kind \in DOMAIN Layout => \A i \in 1 .. 3 :
          Field(word, Layout[kind][i][1], Layout[kind][i][2]) = given[i]
    /\ kind = "EndpointAttributes" => \A i \in 1 .. 3 :
          Field(word, 2 * i - 2, 2) = given[i]
    /\ kind = "bmRequestType" =>
          Recipient(word) = given[1] /\ RequestType(word) = given[2]
    /\ kind = "EndpointAddress" =>
          /\ Index(word) = given[1]
          /\ word # 0 => (IsIn(word) <=> given[2] = 1) /\ IsIn(word) # IsOut(word)
          /\ IsValid(word) <=> ~(given[1] = 0 /\ given[2] = 1)
=============================================================================
