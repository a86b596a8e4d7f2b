----------------------------- MODULE UsbDDevice -----------------------------
(***************************************************************************)
(* LFramework::USB::UsbDevice of USB/Device with its bulk interface: two   *)
(* UsbDEndpoint, numbered 1 in both directions, below the control requests *)
(* of the host.  The interrupt answers a setup packet first in the hooks   *)
(* of UsbDDeviceCallbacks.cpp and then in ST's device library, which calls *)
(* back for descriptors, configuration and data; an interrupt runs to its  *)
(* end before a task goes on, unless it never ends (hung).                 *)
(*                                                                         *)
(* The library and the HAL are not in the repository: devState, suspended  *)
(* and what the library makes of a request are modelled from the callbacks *)
(* of _usbClassBinding and _descriptorsTable and the calls made to it.     *)
(***************************************************************************)
EXTENDS UsbTypes, FiniteSets

CONSTANTS
    Tasks,              \* the tasks that submit transfers
    InPolling,          \* the transfers they submit to the IN endpoint
    OutPolling,         \* and to the OUT endpoint
    NoTransfer,         \* the null pointer
    HalRefuses,         \* whether the HAL may refuse or fail
    Strings,            \* characters of the strings 1 .. 5 of the context
    NoString            \* a string that is null

ASSUME StringsAssumption == Strings \in [1 .. 5 -> Nat \cup {NoString}]

VARIABLES
    inActive, inOpen, inHw, inPc, inTransfer, inState, inOwed,
    outActive, outOpen, outHw, outPc, outTransfer, outState, outOwed,
    configured,     \* _isOpen of the interface
    devState,       \* dev_state of the library, "off" before start
    suspended,      \* the library is in the suspended state
    pClassData,     \* whether the library's pClassData is set
    buffer,         \* _descriptorsBuffer: the descriptors by their offsets
    reply,          \* what endpoint 0 is sending: where it lies and its size
    answers,        \* the answers to the setup packet in progress
    hung            \* an interrupt handler or start() never ends

inVars == <<inActive, inOpen, inHw, inPc, inTransfer, inState, inOwed>>
outVars == <<outActive, outOpen, outHw, outPc, outTransfer, outState, outOwed>>
controlVars == <<devState, suspended, pClassData, buffer, reply, answers, hung>>
vars == <<inVars, outVars, configured, controlVars>>

In == INSTANCE UsbDEndpoint WITH
    Polling <- InPolling, Streaming <- {}, Serialised <- TRUE, Deconfigures <- TRUE,
    activeTransfer <- inActive, isOpen <- inOpen, hw <- inHw, pc <- inPc,
    transfer <- inTransfer, state <- inState, owed <- inOwed

Out == INSTANCE UsbDEndpoint WITH
    Polling <- OutPolling, Streaming <- {}, Serialised <- TRUE, Deconfigures <- TRUE,
    activeTransfer <- outActive, isOpen <- outOpen, hw <- outHw, pc <- outPc,
    transfer <- outTransfer, state <- outState, owed <- outOwed

NoReply == [at |-> "none", size |-> 0]

Init ==
    /\ In!Init
    /\ Out!Init
    /\ devState = "off"
    /\ suspended = FALSE
    /\ pClassData = FALSE
    /\ buffer = [o \in {} |-> DeviceDescriptor]
    /\ reply = NoReply
    /\ answers = <<>>
    /\ hung = FALSE

-----------------------------------------------------------------------------
(* start: the class data is set by hand, "Otherwise USBD_Reset handler     *)
(* would not disable interfaces".  USBD_LL_Init spins when the HAL fails.  *)
LowLevelInit == {FALSE, HalRefuses}

StartWithoutData ==
    /\ devState = "off"
    /\ devState' = "default"
    /\ UNCHANGED <<inVars, outVars, configured, suspended, pClassData, buffer, reply, answers, hung>>

Start ==
    /\ devState = "off"
    /\ pClassData' = TRUE
    /\ hung' \in LowLevelInit
    /\ devState' = IF hung' THEN "off" ELSE "default"
    /\ UNCHANGED <<inVars, outVars, configured, suspended, buffer, reply, answers>>

(* Opening and closing the interface opens and closes both endpoints; it   *)
(* counts as open even when an endpoint could not be opened.               *)
OpenEndpoints == In!Configure /\ Out!Configure
CloseEndpoints == In!Deconfigure /\ Out!Deconfigure
KeepEndpoints == UNCHANGED <<inVars, outVars, configured>>

(* HAL_PCD_ResetCallback: the library closes the class if it has data.     *)
Reset ==
    /\ devState # "off"
    /\ devState' = "default"
    /\ suspended' = FALSE
    /\ IF pClassData THEN CloseEndpoints ELSE KeepEndpoints
    /\ reply' = NoReply
    /\ answers' = <<>>
    /\ UNCHANGED <<pClassData, buffer, hung>>

Suspend ==
    /\ devState # "off"
    /\ ~suspended
    /\ suspended' = TRUE
    /\ KeepEndpoints
    /\ UNCHANGED <<devState, pClassData, buffer, reply, answers, hung>>

(* HAL_PCD_ResumeCallback spins.                                           *)
Resume ==
    /\ suspended
    /\ hung' = TRUE
    /\ KeepEndpoints
    /\ UNCHANGED <<devState, suspended, pClassData, buffer, reply, answers>>

-----------------------------------------------------------------------------
(* Descriptors are placed in the buffer over whatever they overlap.        *)
Put(memory, at, d) ==
    [o \in {at} \cup {p \in DOMAIN memory : p + memory[p].length <= at \/ p >= at + d.length}
        |-> IF o = at THEN d ELSE memory[o]]

BulkType == 2
NumEndpoints == 2
InAddress == MakeIn(1)
OutAddress == MakeOut(1)

(* UsbDInterface::getDescriptor: the interface, its OUT and its IN         *)
(* endpoint; the size it returns is computed from bNumEndpoints.           *)
WriteInterfaceInPlace(memory, at) ==
    LET mem1 == Put(memory, at, InterfaceDescriptor(NumEndpoints))
        mem2 == Put(mem1, at + 9, EndpointDescriptor(OutAddress, SetType(0, BulkType)))
    IN  Put(mem2, at + 9, EndpointDescriptor(InAddress, SetType(0, BulkType)))

WriteInterface(memory, at) ==
    LET mem1 == Put(memory, at, InterfaceDescriptor(NumEndpoints))
        mem2 == Put(mem1, at + 9, EndpointDescriptor(OutAddress, SetType(0, BulkType)))
    IN  Put(mem2, at + 9 + 7, EndpointDescriptor(InAddress, SetType(0, BulkType)))

InterfaceSize == 9 + NumEndpoints * 7

(* A descriptor callback writes the buffer and says where its reply lies.  *)
InBuffer(memory, size) == [memory |-> memory, reply |-> [at |-> "buffer", size |-> size]]
InPlace(size) == [memory |-> buffer, reply |-> [at |-> "static", size |-> size]]
Nothing == [memory |-> buffer, reply |-> NoReply]

GetCfgDesc ==
    LET total == InterfaceSize + 9
    IN  InBuffer(WriteInterface(Put(buffer, 0, ConfigurationDescriptor(1, total)), 9), total)

GetDeviceDescriptor == InBuffer(Put(buffer, 0, DeviceDescriptor), 18)
GetLangidStrDescriptor == InBuffer(Put(buffer, 0, LanguageIDStringDescriptor(1)), 4)
GetStringDescriptor(i) ==
    IF Strings[i] = NoString THEN Nothing
    ELSE InBuffer(Put(buffer, 0, StringDescriptor(Strings[i])), StringSize(Strings[i]))
GetUserStringDesc(i) == IF i = 238 THEN InPlace(MicrosoftStringSize) ELSE Nothing

-----------------------------------------------------------------------------
(* The setup packets of the host: bm is bmRequestType, 80 is 'P'.          *)
GetDescriptor == 6
SetAddress == 5
SetConfiguration == 9
WinUsbCode == 80
Request(bm, code, value, index, length) ==
    [bm |-> bm, code |-> code, value |-> value, index |-> index, length |-> length]
InStandard == 128
InVendor == 128 + 64

(* wLength of a vendor request: the header, or either descriptor's size.   *)
AskedLengths == {10, WinUSBFunctionSize, InterfaceGuidSize}

Requests ==
    {Request(InStandard, GetDescriptor, v, 0, 255) :
        v \in {256, 512, 3 * 256, 3 * 256 + 2, 3 * 256 + 5, 3 * 256 + 238, 6 * 256}}
    \cup {Request(0, code, v, 0, 0) : code \in {SetAddress, SetConfiguration}, v \in {0, 1}}
    \cup {Request(InVendor + recipient, WinUsbCode, 0, index, length) :
        recipient \in {Device, Interface}, index \in {4, 5}, length \in AskedLengths}
    \cup {Request(1, 11, 0, 0, 0), Request(2, 1, 0, 129, 0)}

ToWinUsb(r) == RequestType(r.bm) = Vendor /\ r.code = WinUsbCode

(* A hook answers or leaves the request to the library (done).  It sends   *)
(* as many bytes as the host asks for, whatever the descriptor's size.     *)
Hooked(done, what, given) == [done |-> done, answers |-> what, gives |-> given]
NotHooked == Hooked(FALSE, <<>>, Nothing)

HookDeviceRequestAndGoOn(r) ==
    IF ToWinUsb(r) /\ r.index = 4
    THEN Hooked(FALSE, <<"data">>, InPlace(r.length)) ELSE NotHooked

HookDeviceRequest(r) ==
    IF ToWinUsb(r) /\ r.index = 4
    THEN Hooked(TRUE, <<"data">>, InPlace(r.length)) ELSE NotHooked

(* interfaceRequest looks the interface up by wValue, "TODO: bug! wIndex   *)
(* == interface id"; the context has one, whatever the number.             *)
HookInterfaceRequest(r) ==
    IF ~ToWinUsb(r) THEN NotHooked
    ELSE IF r.index = 5 THEN Hooked(TRUE, <<"data">>, InPlace(r.length))
    ELSE Hooked(TRUE, <<"stall">>, Nothing)

Hook(r) == CASE Recipient(r.bm) = Device -> HookDeviceRequest(r)
             [] Recipient(r.bm) = Interface -> HookInterfaceRequest(r)
             [] OTHER -> NotHooked

(* What the library does with a request that no hook has taken.            *)
Described(value) ==
    CASE value \div 256 = DeviceType -> GetDeviceDescriptor
      [] value \div 256 = ConfigurationType -> GetCfgDesc
      [] value = 256 * StringType -> GetLangidStrDescriptor
      [] value \div 256 = StringType /\ value % 256 \in 1 .. 5 -> GetStringDescriptor(value % 256)
      [] value \div 256 = StringType /\ value % 256 > 5 -> GetUserStringDesc(value % 256)
      [] OTHER -> Nothing

Give(given, earlier) ==
    /\ buffer' = given.memory
    /\ reply' = given.reply
    /\ answers' = earlier \o <<IF given = Nothing THEN "stall" ELSE "data">>
    /\ UNCHANGED <<devState, hung>>
    /\ KeepEndpoints

Status(earlier, what) ==
    /\ answers' = earlier \o <<what>>
    /\ reply' = NoReply
    /\ UNCHANGED <<buffer, hung>>

StandardRequest(r, earlier) ==
    \/ /\ r.code = GetDescriptor
       /\ Give(Described(r.value), earlier)
    \/ /\ r.code = SetAddress
       /\ IF devState = "configured"
          THEN Status(earlier, "stall") /\ UNCHANGED devState
          ELSE /\ Status(earlier, "status")
               /\ devState' = IF r.value = 0 THEN "default" ELSE "addressed"
       /\ KeepEndpoints
    \/ /\ r.code = SetConfiguration
       /\ IF devState = "default"
          THEN Status(earlier, "stall") /\ UNCHANGED devState /\ KeepEndpoints
          ELSE /\ Status(earlier, "status")
               /\ devState' = IF r.value = 0 THEN "addressed" ELSE "configured"
               /\ CASE devState = "addressed" /\ r.value = 1 -> OpenEndpoints
                    [] devState = "configured" /\ r.value = 0 -> CloseEndpoints
                    [] OTHER -> KeepEndpoints
    \/ /\ r.code \notin {GetDescriptor, SetAddress, SetConfiguration}
       /\ Status(earlier, "stall")
       /\ UNCHANGED devState /\ KeepEndpoints

(* Requests to an interface or an endpoint reach coreSetup, which spins.   *)
ClassRequest(earlier) ==
    /\ IF devState = "configured"
       THEN hung' = TRUE /\ UNCHANGED <<buffer, reply, answers>>
       ELSE Status(earlier, "stall")
    /\ UNCHANGED devState
    /\ KeepEndpoints

(* HAL_PCD_SetupStageCallback.                                             *)
SetupStage(r) ==
    /\ devState # "off"
    /\ ~suspended
    /\ LET hook == Hook(r) IN
         IF hook.done
         THEN /\ answers' = hook.answers
              /\ reply' = hook.gives.reply
              /\ UNCHANGED <<buffer, devState, hung>>
              /\ KeepEndpoints
         ELSE IF Recipient(r.bm) = Device THEN StandardRequest(r, hook.answers)
              ELSE ClassRequest(hook.answers)
    /\ UNCHANGED <<suspended, pClassData>>

(* The host has taken the reply, and endpoint 0 is idle again.             *)
Ep0Done ==
    /\ answers # <<>>
    /\ answers' = <<>>
    /\ reply' = NoReply
    /\ KeepEndpoints
    /\ UNCHANGED <<devState, suspended, pClassData, buffer, hung>>

-----------------------------------------------------------------------------
(* getEndpoint(address): the endpoints of that direction are searched.     *)
GetEndpoint(address) ==
    CASE IsIn(address) /\ address = InAddress -> "in"
      [] ~IsIn(address) /\ address = OutAddress -> "out"
      [] OTHER -> "none"

(* coreDataIn and coreDataOut find the interface by one address and the    *)
(* endpoint by another, made from the number the HAL gives them.           *)
RouteInUnmarked(number) == GetEndpoint(number)
RouteIn(number) ==
    IF GetEndpoint(MakeIn(number)) = "none" THEN "none" ELSE GetEndpoint(MakeIn(128 + number))
RouteOut(number) ==
    IF GetEndpoint(MakeOut(number)) = "none" THEN "none" ELSE GetEndpoint(MakeOut(number))

DataIn ==
    /\ devState = "configured" /\ ~suspended
    /\ inHw # NoTransfer
    /\ IF RouteIn(1) = "in" THEN In!DataStage
       ELSE inHw' = NoTransfer /\ UNCHANGED <<inActive, inOpen, inPc, inTransfer, inState, inOwed, configured>>
    /\ UNCHANGED <<outVars, controlVars>>

DataOut ==
    /\ devState = "configured" /\ ~suspended
    /\ outHw # NoTransfer
    /\ IF RouteOut(1) = "out" THEN Out!DataStage
       ELSE outHw' = NoTransfer /\ UNCHANGED <<outActive, outOpen, outPc, outTransfer, outState, outOwed, configured>>
    /\ UNCHANGED <<inVars, controlVars>>

(* Tasks submit transfers to either endpoint.                              *)
TaskStep(t) ==
    \/ (In!Check(t) \/ In!Submit(t)) /\ UNCHANGED <<outVars, controlVars>>
    \/ (Out!Check(t) \/ Out!Submit(t)) /\ UNCHANGED <<inVars, controlVars>>

Interrupt == Reset \/ Suspend \/ Resume \/ Ep0Done \/ DataIn \/ DataOut
                \/ \E r \in Requests : SetupStage(r)

Next == ~hung /\ (Start \/ Interrupt \/ \E t \in Tasks : TaskStep(t))

Spec == Init /\ [][Next]_vars

-----------------------------------------------------------------------------
(* Whatever the host asks for, each of the two endpoints is a UsbDEndpoint:*)
(* the end of a transfer reaches the endpoint that made it and no other.   *)
EndpointsBehave == In!Spec /\ Out!Spec

(* A setup packet gets one answer, from the hooks or from the library and  *)
(* never from both, in every state of the device.                          *)
AnswersOnce == Len(answers) <= 1

(* The endpoints are open only while the host has the device configured:   *)
(* also after a reset, which closes them because of the class data.        *)
OpenWhileConfigured ==
    /\ configured <=> devState = "configured"
    /\ inOpen \/ outOpen => configured

(* The descriptors of a reply under way follow each other from its start   *)
(* to its end, a configuration's counts and total are those of the ones    *)
(* that follow, and nothing of an earlier reply is among them.             *)
ReplyTiles == reply.at = "buffer" =>
    LET starts == {o \in DOMAIN buffer : o < reply.size}
        Count(type) == Cardinality({o \in starts : buffer[o].type = type})
    IN  /\ 0 \in starts
        /\ \A o \in starts : o + buffer[o].length \in starts \cup {reply.size}
        /\ \A o \in starts :
             /\ buffer[o].type = ConfigurationType =>
                   buffer[o].total = reply.size /\ buffer[o].interfaces = Count(InterfaceType)
             /\ buffer[o].type = InterfaceType => buffer[o].endpoints = Count(EndpointType)
             /\ o > 0 => buffer[0].type = ConfigurationType
=============================================================================
