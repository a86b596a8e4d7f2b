------------------------------ MODULE UsbTypes ------------------------------
(***************************************************************************)
(* The pure part of USB/USBTypes.h, USB/UsbMicrosoftTypes.h and BitField.h:*)
(* words with bit fields, endpoint addresses, requests and descriptors.    *)
(* A word is a natural number; masks and shifts are % and \div by powers   *)
(* of two.  A descriptor is a record of what other code reads from it: its *)
(* type, its bLength and, where it has one, a count, address or total.     *)
(***************************************************************************)
EXTENDS Integers, Sequences

(* BitFieldMember<TBase, offset, count>: its value, and its assignment.    *)
Field(word, offset, count) == (word \div 2^offset) % 2^count

AssignUnmasked(word, offset, count, value) ==
    word + (value - Field(word, offset, count)) * 2^offset

Assign(word, offset, count, value) ==
    word + ((value % 2^count) - Field(word, offset, count)) * 2^offset

(* bmRequestType of a SetupPacket.                                         *)
Recipient(bm) == Field(bm, 0, 5)
RequestType(bm) == Field(bm, 5, 2)
Device == 0
Interface == 1
Endpoint == 2
Vendor == 2

(* UsbVersion(major, minor, subMinor), and the value of new UsbAttributes. *)
UsbVersion(major, minor, subMinor) ==
    Assign(Assign(Assign(0, 8, 8, major), 4, 4, minor), 0, 4, subMinor)

UsbAttributes == Assign(0, 7, 1, 1)

(* EndpointAttributes, made of its parts, and its setType.                 *)
EndpointAttributes(type, sync, usage) == type + 4 * sync + 16 * usage
SetType(attributes, type) == 4 * (attributes \div 4) + type

-----------------------------------------------------------------------------
(* EndpointAddress: bit 7 is the direction, and zero is both directions.   *)
MakeIn(id) == 128 + (id % 128)
MakeOut(id) == id % 128
IsIn(address) == address = 0 \/ address >= 128
IsOut(address) == address = 0 \/ address < 128
Index(address) == address % 128

(* Bits 4 to 6 are clear, and number 0 has no direction.                   *)
IsValid(address) == Field(address, 4, 3) = 0 /\ (Index(address) = 0 => address = 0)

-----------------------------------------------------------------------------
(* Descriptors by their types.                                             *)
DeviceType == 1
ConfigurationType == 2
StringType == 3
InterfaceType == 4
EndpointType == 5

DeviceDescriptor == [type |-> DeviceType, length |-> 18, version |-> UsbVersion(2, 0, 0)]
ConfigurationDescriptor(interfaces, total) ==
    [type |-> ConfigurationType, length |-> 9, interfaces |-> interfaces, total |-> total]
InterfaceDescriptor(endpoints) ==
    [type |-> InterfaceType, length |-> 9, endpoints |-> endpoints]
EndpointDescriptor(address, attributes) ==
    [type |-> EndpointType, length |-> 7, address |-> address, attributes |-> attributes]
LanguageIDStringDescriptor(count) == [type |-> StringType, length |-> 2 + 2 * count]

(* MakeStringDescriptor: two bytes for every character.  The 16-bit size   *)
(* is stored in a byte, and there is nothing for a null string.            *)
StringSize(characters) == (2 + 2 * characters) % 65536
StringDescriptor(characters) ==
    [type |-> StringType, length |-> StringSize(characters) % 256]

(* The descriptors Windows asks for: fixed sizes.                          *)
MicrosoftStringSize == 18
WinUSBFunctionSize == 16 + 24
InterfaceGuidSize == 10 + 14 + 40 + 78
=============================================================================
