---------------------------- MODULE MCSequential ----------------------------
(***************************************************************************)
(* The parts of the library that one caller uses at a time, for TLC: the   *)
(* byte FIFO, linked lists, the words of USBTypes.h, raw input and the     *)
(* stream writers.  A behaviour is of one part; the others keep their      *)
(* first state.                                                            *)
(***************************************************************************)
EXTENDS ByteFifo, Integers

CONSTANTS
    Lists, Items, Null,
    Values,
    Buttons, PlainKeys, ExtendedKeys, MaxQueue, MaxMotion,
    Types, Numbers, MinWidths, Lengths, Widths

(* int8_t and uint8_t, and numbers at their ends and where digits begin.   *)
Bytelike == {[least |-> -128, greatest |-> 127, size |-> 1], [least |-> 0, greatest |-> 255, size |-> 1]}
Ends == {-128, -100, -99, -9, 0, 9, 10, 99, 127, 255}

VARIABLES
    part,
    next, previous, owner, sizes, current, iterated, stayed, calls,
    kind, word, given,
    inputQueue, pumping, keyStates, keyPrevious, keyPressed, keyReleased,
    integral, delta, down, position, known, travelled, fresh,
    fillWidth, adjust, asked, text

List == INSTANCE LinkedLists WITH size <- sizes
Words == INSTANCE UsbWords
Input == INSTANCE RawInput
Writer == INSTANCE StreamWriter

ASSUME PartsAssumption ==
    /\ List!NodesAssumption /\ Words!ValuesAssumption /\ Input!ControlsAssumption
    /\ Writer!FormatAssumption

listVars == <<next, previous, owner, sizes, current, iterated, stayed, calls>>
wordVars == <<kind, word, given>>
inputVars == <<inputQueue, pumping, keyStates, keyPrevious, keyPressed, keyReleased,
               integral, delta, down, position, known, travelled, fresh>>
writerVars == <<fillWidth, adjust, asked, text>>
allVars == <<part, vars, listVars, wordVars, inputVars, writerVars>>

SequentialInit ==
    /\ part \in {"fifo", "list", "words", "input", "writer"}
    /\ Init /\ List!Init /\ Words!Init /\ Input!Init /\ Writer!Init
    /\ part # "fifo" => buffer = [i \in Slots |-> CHOOSE b \in Bytes : TRUE]
    /\ part # "list" => iterated = CHOOSE l \in Lists : TRUE
    /\ part # "words" => kind = "EndpointAddress"

SequentialNext ==
    \/ part = "fifo" /\ Next /\ UNCHANGED <<part, listVars, wordVars, inputVars, writerVars>>
    \/ part = "list" /\ List!Next /\ UNCHANGED <<part, vars, wordVars, inputVars, writerVars>>
    \/ part = "words" /\ Words!Next /\ UNCHANGED <<part, vars, listVars, inputVars, writerVars>>
    \/ part = "input" /\ Input!Next /\ UNCHANGED <<part, vars, listVars, wordVars, writerVars>>
    \/ part = "writer" /\ Writer!Next /\ UNCHANGED <<part, vars, listVars, wordVars, inputVars>>

SequentialSpec == SequentialInit /\ [][SequentialNext]_allVars

-----------------------------------------------------------------------------
(* Each list implements a sequence (LinkedLists).                          *)
ImplementsSequences == List!ImplementsSequences

(* foreach calls once with what stays in the list (LinkedLists).           *)
CallsWhatStays == part = "list" => List!CallsWhatStays

(* Bit fields and endpoint bytes do not disturb each other (UsbWords).     *)
FieldsAreIndependent == part = "words" => Words!FieldsAreIndependent

(* Edges and deltas tell what is down and where the mouse is (RawInput).   *)
EdgesTellStates == part = "input" => Input!EdgesTellStates

(* Written numbers read back and fill their fields (StreamWriter).         *)
NumbersReadBack == part = "writer" => Writer!NumbersReadBack
=============================================================================
