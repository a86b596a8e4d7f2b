---------------------------- MODULE StreamWriter ----------------------------
(***************************************************************************)
(* IO/StreamWriter.h: numbers and texts written to a character stream under*)
(* the stream's format, which the writers use up and change.  A character  *)
(* is the value of a digit, Minus, Fill or, in a text, Letter.             *)
(***************************************************************************)
EXTENDS Integers, Sequences, FiniteSets

CONSTANTS
    Types,          \* the integer types: their limits, and their size in bytes
    Numbers,        \* the numbers that are written
    MinWidths,      \* the MinWidth of hexadecimal numbers
    Lengths,        \* the lengths of the texts
    Widths          \* the fill widths that are set

Minus == -1
Fill == -2
Letter == -3

VARIABLES
    fillWidth,      \* format.fillWidth
    adjust,         \* format.adjust
    asked,          \* what was written last, the fill width it found, its buffer
    text            \* the characters it became

vars == <<fillWidth, adjust, asked, text>>

(* How many numbers n hexadecimal digits can show, and how many a type has.*)
ShownBy(n) == LET shown[k \in 0 .. n] == IF k = 0 THEN 1 ELSE 16 * shown[k - 1] IN shown[n]
Possible(T) == T.greatest - T.least + 1
NumbersOf(T) == {v \in Numbers : T.least <= v /\ v <= T.greatest}

(* What is assumed of the constants: a type has all numbers its bytes can  *)
(* tell apart.                                                             *)
FormatAssumption ==
    /\ \A T \in Types :
          /\ T.least \in Int /\ T.least <= 0 /\ T.greatest \in Nat
          /\ T.size \in Nat \ {0} /\ Possible(T) = ShownBy(2 * T.size)
    /\ Numbers \subseteq Int /\ MinWidths \subseteq Nat /\ Lengths \subseteq Nat /\ Widths \subseteq Nat

Init ==
    /\ fillWidth = 0
    /\ adjust = "Right"
    /\ asked = [kind |-> "text", value |-> 0, width |-> 0, buffer |-> 0]
    /\ text = <<>>

-----------------------------------------------------------------------------
(* writeFiller, and the fields that call it: both clear the fill width,    *)
(* each for its own alignments.                                            *)
Filler(itemSize) == [i \in 1 .. (fillWidth - itemSize) |-> Fill]
Padding(itemSize) == IF itemSize < fillWidth THEN Filler(itemSize) ELSE <<>>

FieldBegin(itemSize) == IF adjust \in {"Right", "Internal"} THEN Padding(itemSize) ELSE <<>>
FieldEnd(itemSize) == IF adjust = "Left" THEN Padding(itemSize) ELSE <<>>

WriteField(characters) ==
    /\ text' = FieldBegin(Len(characters)) \o characters \o FieldEnd(Len(characters))
    /\ fillWidth' = 0
    /\ UNCHANGED adjust

(* The digits of a number, the last one computed first.                    *)
Digits(number, base) ==
    LET digits[n \in 0 .. number] ==
          IF n < base THEN <<n>> ELSE Append(digits[n \div base], n % base)
    IN  digits[number]

(* The buffer on the stack: the digits of the longer limit, and the sign.  *)
DigitsCount(v) == IF v = 0 THEN 0 ELSE Len(Digits(IF v < 0 THEN -v ELSE v, 10))
MaxDigitsCount(T) ==
    IF DigitsCount(T.least) < DigitsCount(T.greatest) THEN DigitsCount(T.greatest) ELSE DigitsCount(T.least)
BufferSize(T) == MaxDigitsCount(T) + (IF T.least < 0 THEN 1 ELSE 0)

(* outputStreamWriteInteger of a negative number: under Internal the fill  *)
(* follows the sign, and a number that fills its field keeps the width.    *)
WriteNegativeUnfilled(v) ==
    /\ v < 0
    /\ text' = <<Minus>> \o Digits(-v, 10)
    /\ UNCHANGED <<fillWidth, adjust>>

WriteNegative(v) ==
    LET characters == <<Minus>> \o Digits(-v, 10) IN
    /\ v < 0
    /\ \/ /\ Len(characters) < fillWidth /\ adjust = "Internal"
          /\ text' = <<Minus>> \o Filler(Len(characters)) \o Tail(characters)
          /\ fillWidth' = 0
          /\ UNCHANGED adjust
       \/ /\ Len(characters) < fillWidth /\ adjust # "Internal"
          /\ WriteField(characters)
       \/ /\ Len(characters) >= fillWidth
          /\ text' = characters
          /\ UNCHANGED <<fillWidth, adjust>>

WriteDecimal(T, v) ==
    /\ asked' = [kind |-> "decimal", value |-> v, width |-> fillWidth, buffer |-> BufferSize(T)]
    /\ \/ WriteNegative(v)
       \/ v >= 0 /\ WriteField(Digits(v, 10))

(* A hexadecimal number is written as the unsigned one of its width, with  *)
(* zeros up to MinWidth but never more digits than the type has.           *)
HexDigits(T, v, minWidth) ==
    LET digits == Digits(v % Possible(T), 16)
        least == IF minWidth < 2 * T.size THEN minWidth ELSE 2 * T.size
    IN  [i \in 1 .. (least - Len(digits)) |-> 0] \o digits

WriteHex(T, v, minWidth) ==
    /\ asked' = [kind |-> "hex", value |-> v % Possible(T), width |-> fillWidth, buffer |-> 2 * T.size]
    /\ WriteField(HexDigits(T, v, minWidth))

(* A string, a character or "true" and "false".                            *)
WriteText(length) ==
    /\ asked' = [kind |-> "text", value |-> length, width |-> fillWidth, buffer |-> length]
    /\ WriteField([i \in 1 .. length |-> Letter])

SetFormat(width, how) ==
    /\ fillWidth' = width
    /\ adjust' = how
    /\ UNCHANGED <<asked, text>>

Next ==
    \/ \E w \in Widths, how \in {"Left", "Right", "Internal"} : SetFormat(w, how)
    \/ \E T \in Types : \E v \in NumbersOf(T) :
          WriteDecimal(T, v) \/ \E minWidth \in MinWidths : WriteHex(T, v, minWidth)
    \/ \E length \in Lengths : WriteText(length)

Spec == Init /\ [][Next]_vars

-----------------------------------------------------------------------------
(* What a reader makes of the characters: the number of the digits, whose  *)
(* sign comes before them, with fill at any place.                         *)
Shown(characters) == {n \in DOMAIN characters : characters[n] # Fill}
NumberIn(characters, base) ==
    LET number[n \in 0 .. Len(characters)] ==
          IF n = 0 THEN 0
          ELSE IF characters[n] \in {Fill, Minus} THEN number[n - 1]
          ELSE number[n - 1] * base + characters[n]
    IN  number[Len(characters)]
Signs(characters) == {n \in Shown(characters) : characters[n] = Minus}
ReadBack(kind) ==
    LET number == NumberIn(text, IF kind = "hex" THEN 16 ELSE 10) IN
    IF kind = "text" THEN Cardinality(Shown(text))
    ELSE IF Signs(text) = {} THEN number ELSE -number

(* Every number reads back as it was written and every item is as wide as  *)
(* the fill width it found asks for, under every alignment and after every *)
(* earlier item; the digits fit the buffer they are collected in.          *)
NumbersReadBack ==
    /\ ReadBack(asked.kind) = asked.value
    /\ \A n \in Signs(text), m \in Shown(text) : asked.kind = "decimal" /\ n <= m
    /\ LET shown == Cardinality(Shown(text)) IN
       /\ Len(text) = IF shown < asked.width THEN asked.width ELSE shown
       /\ shown <= asked.buffer
=============================================================================
