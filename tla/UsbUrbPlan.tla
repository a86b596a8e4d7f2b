----------------------------- MODULE UsbUrbPlan -----------------------------
(***************************************************************************)
(* How UsbBulkTransfer of USB/Host/Linux/UsbBulkTransfer.h cuts a buffer   *)
(* into USB request blocks: how many, how long, and with which flags.      *)
(***************************************************************************)
EXTENDS Integers, FiniteSets

CONSTANTS
    MaxBlockSize,   \* maxBlockSize, 16384 in the code
    LengthModulus,  \* 2^32, the values of the uint32_t a length is cast to
    Caps            \* the capabilities usbfs reports for the device

ASSUME BlockAssumption == MaxBlockSize \in Nat \ {0}
ASSUME ModulusAssumption == LengthModulus \in Nat \ {0}
ASSUME CapsAssumption ==
    Caps \subseteq {"ZeroPacket", "BulkContinuation", "NoPacketSizeLim", "BulkScatterGather"}

(* The whole transfer in one block when the kernel takes any size.         *)
BlockSize(size) ==
    IF Caps \cap {"BulkScatterGather", "NoPacketSizeLim"} # {} THEN size
    ELSE IF size < MaxBlockSize THEN size ELSE MaxBlockSize

(* An empty transfer still has one (empty) block.                          *)
UrbCount(size) ==
    IF size = 0 THEN 1 ELSE (size + (BlockSize(size) - 1)) \div BlockSize(size)

IsLast(size, i) == i = UrbCount(size)

(* Blocks are numbered from 1; the last one takes what the others leave.   *)
(* Both lengths are cast to uint32_t, which cuts off what does not fit: a  *)
(* single block of a device without a size limit may be of any size.       *)
UrbLength(size, i) ==
    (IF size = 0 THEN 0
     ELSE IF IsLast(size, i) /\ size % BlockSize(size) # 0 THEN size % BlockSize(size)
     ELSE BlockSize(size)) % LengthModulus

UrbFlagsShortOk(size, dir, i) ==
    (IF size = 0 THEN {"ZeroPacket"} ELSE {})
    \cup (IF i # 1 /\ "BulkContinuation" \in Caps THEN {"BulkContinuation"} ELSE {})

UrbFlags(size, dir, i) ==
    (IF size = 0 THEN {"ZeroPacket"} ELSE {})
    \cup (IF dir = "in" /\ ~IsLast(size, i) THEN {"ShortNotOk"} ELSE {})
    \cup (IF i # 1 /\ "BulkContinuation" \in Caps THEN {"BulkContinuation"} ELSE {})

(* The sum of the first n numbers of a sequence.                           *)
Total(s, n) ==
    LET total[i \in Nat] == IF i = 0 THEN 0 ELSE total[i - 1] + s[i]
    IN  total[n]

(* Where the i-th block starts in the caller's buffer.                     *)
UrbOffset(size, i) == (i - 1) * BlockSize(size)
=============================================================================
