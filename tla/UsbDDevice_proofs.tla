------------------------- MODULE UsbDDevice_proofs --------------------------
(***************************************************************************)
(* The USB device of UsbDDevice, with its one bulk interface, for any      *)
(* tasks, transfers and strings: one answer to every setup packet,         *)
(* endpoints that are open only while the device is configured and that    *)
(* are each a UsbDEndpoint, and, when the strings fit their bLength,       *)
(* replies that are tiled by their descriptors whatever lies in the buffer.*)
(***************************************************************************)
EXTENDS UsbDDevice, FiniteSetTheorems, SequenceTheorems, TLAPS

(* Nothing in the code checks it: the size of every string of the context  *)
(* fits the byte that stores it.                                           *)
StringsFit == \A i \in 1 .. 5 : Strings[i] # NoString => Strings[i] <= 126

(* The class data lets a reset close the endpoints.                        *)
TypeOK ==
    /\ devState \in {"off", "default", "addressed", "configured"}
    /\ devState # "off" => pClassData = TRUE
    /\ inOpen \in BOOLEAN /\ outOpen \in BOOLEAN /\ configured \in BOOLEAN
    /\ answers \in {<<>>, <<"data">>, <<"stall">>, <<"status">>}

(* What lies anywhere in the buffer has an offset and a length.            *)
MemoryOK(memory) ==
    DOMAIN memory \subseteq Nat /\ \A o \in DOMAIN memory : memory[o].length \in Nat

(* ReplyTiles of a reply of this size in this memory.                      *)
Starts(memory, size) == {o \in DOMAIN memory : o < size}
CountOf(memory, size, type) == Cardinality({o \in Starts(memory, size) : memory[o].type = type})
Tiles(memory, size) ==
    /\ 0 \in Starts(memory, size)
    /\ \A o \in Starts(memory, size) : o + memory[o].length \in Starts(memory, size) \cup {size}
    /\ \A o \in Starts(memory, size) :
         /\ memory[o].type = ConfigurationType =>
               memory[o].total = size /\ memory[o].interfaces = CountOf(memory, size, InterfaceType)
         /\ memory[o].type = InterfaceType =>
               memory[o].endpoints = CountOf(memory, size, EndpointType)
         /\ o > 0 => memory[0].type = ConfigurationType

IInv ==
    /\ TypeOK /\ OpenWhileConfigured /\ MemoryOK(buffer)
    /\ StringsFit /\ reply.at = "buffer" => Tiles(buffer, reply.size)

LEMMA InitHolds == Init => IInv
  <1> SUFFICES ASSUME Init PROVE IInv
    OBVIOUS
  <1>1. TypeOK /\ OpenWhileConfigured
    BY DEF Init, In!Init, Out!Init, TypeOK, OpenWhileConfigured
  <1>2. MemoryOK(buffer) /\ reply.at # "buffer"
    BY DEF Init, MemoryOK, NoReply
  <1> QED BY <1>1, <1>2 DEF IInv

-----------------------------------------------------------------------------
(* A descriptor that is put into a memory takes its place from whatever    *)
(* overlapped it.                                                          *)
LEMMA PutPlaces ==
    ASSUME NEW memory, MemoryOK(memory), NEW at \in Nat, NEW end \in Nat,
           NEW d, d.length \in Nat, end = at + d.length,
           NEW mem, mem = Put(memory, at, d)
    PROVE  /\ MemoryOK(mem)
           /\ at \in DOMAIN mem /\ mem[at] = d
           /\ \A p \in DOMAIN mem \ {at} :
                 /\ p \in DOMAIN memory /\ mem[p] = memory[p]
                 /\ p + memory[p].length <= at \/ p >= end
           /\ \A p \in DOMAIN memory :
                 p + memory[p].length <= at \/ p >= end => p \in DOMAIN mem
  BY DEF Put, MemoryOK

(* A reply of a single descriptor.                                         *)
LEMMA SingleTiles ==
    ASSUME NEW memory, MemoryOK(memory), NEW d, d.length \in Nat \ {0},
           d.type \notin {ConfigurationType, InterfaceType}
    PROVE  MemoryOK(Put(memory, 0, d)) /\ Tiles(Put(memory, 0, d), d.length)
  <1> DEFINE mem == Put(memory, 0, d)
  <1>1. /\ MemoryOK(mem) /\ 0 \in DOMAIN mem /\ mem[0] = d
        /\ \A p \in DOMAIN mem \ {0} : p + mem[p].length <= 0 \/ p >= d.length
    BY PutPlaces
  <1> HIDE DEF mem
  <1>2. Starts(mem, d.length) = {0}
    BY <1>1 DEF Starts, MemoryOK
  <1>3. Tiles(mem, d.length)
    BY <1>1, <1>2 DEF Tiles
  <1> QED BY <1>1, <1>3 DEF mem

(* The configuration with its interface and two endpoints.                 *)
LEMMA ConfigurationTiles ==
    ASSUME MemoryOK(buffer)
    PROVE  MemoryOK(GetCfgDesc.memory) /\ Tiles(GetCfgDesc.memory, 32)
  <1> DEFINE c == ConfigurationDescriptor(1, 32)
             i == InterfaceDescriptor(2)
             out == EndpointDescriptor(OutAddress, SetType(0, BulkType))
             in == EndpointDescriptor(InAddress, SetType(0, BulkType))
             mem0 == Put(buffer, 0, c)
             mem1 == Put(mem0, 9, i)
             mem2 == Put(mem1, 18, out)
             mem3 == Put(mem2, 25, in)
  <1>1. /\ c.length = 9 /\ i.length = 9 /\ out.length = 7 /\ in.length = 7
        /\ c.type = ConfigurationType /\ c.total = 32 /\ c.interfaces = 1
        /\ i.type = InterfaceType /\ i.endpoints = 2
        /\ out.type = EndpointType /\ in.type = EndpointType
    BY DEF ConfigurationDescriptor, InterfaceDescriptor, EndpointDescriptor
  <1>2. GetCfgDesc.memory = mem3
    BY DEF GetCfgDesc, InBuffer, WriteInterface, InterfaceSize, NumEndpoints
  <1> HIDE DEF c, i, out, in
  <1>3. /\ MemoryOK(mem0) /\ 0 \in DOMAIN mem0 /\ mem0[0] = c
        /\ \A p \in DOMAIN mem0 \ {0} : p + mem0[p].length <= 0 \/ p >= 9
    <2>1. mem0 = Put(buffer, 0, c) /\ c.length \in Nat /\ 9 = 0 + c.length
      BY <1>1
    <2> HIDE DEF mem0
    <2>2. /\ MemoryOK(mem0) /\ 0 \in DOMAIN mem0 /\ mem0[0] = c
          /\ \A p \in DOMAIN mem0 \ {0} :
                mem0[p] = buffer[p] /\ (p + buffer[p].length <= 0 \/ p >= 9)
      BY <2>1, PutPlaces
    <2> QED BY <2>2
  <1> HIDE DEF mem0
  <1>4. /\ MemoryOK(mem1)
        /\ 0 \in DOMAIN mem1 /\ mem1[0] = c /\ 9 \in DOMAIN mem1 /\ mem1[9] = i
        /\ \A p \in DOMAIN mem1 \ {0, 9} : p >= 18
    <2>1. /\ MemoryOK(mem1) /\ 9 \in DOMAIN mem1 /\ mem1[9] = i
          /\ \A p \in DOMAIN mem1 \ {9} :
                p \in DOMAIN mem0 /\ mem1[p] = mem0[p] /\ (p + mem0[p].length <= 9 \/ p >= 18)
          /\ \A p \in DOMAIN mem0 : p + mem0[p].length <= 9 \/ p >= 18 => p \in DOMAIN mem1
      <3>1. mem1 = Put(mem0, 9, i) /\ i.length \in Nat /\ 18 = 9 + i.length
        BY <1>1
      <3> HIDE DEF mem1
      <3> QED BY <1>3, <3>1, PutPlaces
    <2> QED BY <1>1, <1>3, <2>1 DEF MemoryOK
  <1> HIDE DEF mem1
  <1>5. /\ MemoryOK(mem2)
        /\ 0 \in DOMAIN mem2 /\ mem2[0] = c /\ 9 \in DOMAIN mem2 /\ mem2[9] = i
        /\ 18 \in DOMAIN mem2 /\ mem2[18] = out
        /\ \A p \in DOMAIN mem2 \ {0, 9, 18} : p >= 25
    <2>1. /\ MemoryOK(mem2) /\ 18 \in DOMAIN mem2 /\ mem2[18] = out
          /\ \A p \in DOMAIN mem2 \ {18} :
                p \in DOMAIN mem1 /\ mem2[p] = mem1[p] /\ (p + mem1[p].length <= 18 \/ p >= 25)
          /\ \A p \in DOMAIN mem1 : p + mem1[p].length <= 18 \/ p >= 25 => p \in DOMAIN mem2
      <3>1. mem2 = Put(mem1, 18, out) /\ out.length \in Nat /\ 25 = 18 + out.length
        BY <1>1
      <3> HIDE DEF mem2
      <3> QED BY <1>4, <3>1, PutPlaces
    <2> QED BY <1>1, <1>4, <2>1 DEF MemoryOK
  <1> HIDE DEF mem2
  <1>6. /\ MemoryOK(mem3)
        /\ 0 \in DOMAIN mem3 /\ mem3[0] = c /\ 9 \in DOMAIN mem3 /\ mem3[9] = i
        /\ 18 \in DOMAIN mem3 /\ mem3[18] = out /\ 25 \in DOMAIN mem3 /\ mem3[25] = in
        /\ \A p \in DOMAIN mem3 \ {0, 9, 18, 25} : p >= 32
    <2>1. /\ MemoryOK(mem3) /\ 25 \in DOMAIN mem3 /\ mem3[25] = in
          /\ \A p \in DOMAIN mem3 \ {25} :
                p \in DOMAIN mem2 /\ mem3[p] = mem2[p] /\ (p + mem2[p].length <= 25 \/ p >= 32)
          /\ \A p \in DOMAIN mem2 : p + mem2[p].length <= 25 \/ p >= 32 => p \in DOMAIN mem3
      <3>1. mem3 = Put(mem2, 25, in) /\ in.length \in Nat /\ 32 = 25 + in.length
        BY <1>1
      <3> HIDE DEF mem3
      <3> QED BY <1>5, <3>1, PutPlaces
    <2> QED BY <1>1, <1>5, <2>1 DEF MemoryOK
  <1> HIDE DEF mem3
  <1>7. Starts(mem3, 32) = {0, 9, 18, 25}
    BY <1>6 DEF Starts, MemoryOK
  <1>8. CountOf(mem3, 32, InterfaceType) = 1
    <2>1. {o \in Starts(mem3, 32) : mem3[o].type = InterfaceType} = {9}
      BY <1>1, <1>6, <1>7 DEF ConfigurationType, InterfaceType, EndpointType
    <2> QED BY <2>1, FS_Singleton DEF CountOf
  <1>9. CountOf(mem3, 32, EndpointType) = 2
    <2>1. {o \in Starts(mem3, 32) : mem3[o].type = EndpointType} = {18} \cup {25}
      BY <1>1, <1>6, <1>7 DEF ConfigurationType, InterfaceType, EndpointType
    <2>2. IsFiniteSet({18}) /\ Cardinality({18}) = 1
      BY FS_Singleton
    <2>3. Cardinality({18} \cup {25}) = 1 + 1
      BY <2>2, FS_AddElement
    <2>4. Cardinality({18} \cup {25}) = 2
      BY <2>3
    <2>5. CountOf(mem3, 32, EndpointType) = Cardinality({18} \cup {25})
      BY <2>1 DEF CountOf
    <2> QED BY <2>4, <2>5
  <1>10. Tiles(mem3, 32)
    BY <1>1, <1>6, <1>7, <1>8, <1>9 DEF Tiles, ConfigurationType, InterfaceType, EndpointType
  <1> QED BY <1>2, <1>6, <1>10

(* What a descriptor callback leaves in the buffer and says of it.         *)
GivesOK(given) ==
    /\ MemoryOK(given.memory)
    /\ StringsFit /\ given.reply.at = "buffer" => Tiles(given.memory, given.reply.size)

LEMMA SizeIsLength ==
    ASSUME StringsFit, NEW i \in 1 .. 5, Strings[i] # NoString
    PROVE  /\ StringDescriptor(Strings[i]).length = StringSize(Strings[i])
           /\ StringSize(Strings[i]) \in Nat \ {0}
  <1>1. Strings[i] \in 0 .. 126
    BY StringsAssumption DEF StringsFit
  <1>2. StringSize(Strings[i]) \in 2 .. 254
    <2>1. 2 + 2 * Strings[i] \in 2 .. 254
      BY <1>1
    <2>2. (2 + 2 * Strings[i]) % 65536 = 2 + 2 * Strings[i]
      BY <2>1
    <2> QED BY <2>1, <2>2 DEF StringSize
  <1>3. StringSize(Strings[i]) % 256 = StringSize(Strings[i])
    BY <1>2
  <1> QED BY <1>2, <1>3 DEF StringDescriptor

LEMMA DescribedGivesOK ==
    ASSUME MemoryOK(buffer), NEW value
    PROVE  GivesOK(Described(value))
  <1>1. GivesOK(GetDeviceDescriptor)
    <2>1. DeviceDescriptor.length = 18 /\ DeviceDescriptor.type \notin {ConfigurationType, InterfaceType}
      BY DEF DeviceDescriptor, DeviceType, ConfigurationType, InterfaceType
    <2>2. MemoryOK(Put(buffer, 0, DeviceDescriptor)) /\ Tiles(Put(buffer, 0, DeviceDescriptor), 18)
      BY <2>1, SingleTiles
    <2> QED BY <2>2 DEF GivesOK, GetDeviceDescriptor, InBuffer
  <1>2. GivesOK(GetCfgDesc)
    <2>1. GetCfgDesc.reply.size = 32
      BY DEF GetCfgDesc, InBuffer, InterfaceSize, NumEndpoints
    <2> QED BY <2>1, ConfigurationTiles DEF GivesOK
  <1>3. GivesOK(GetLangidStrDescriptor)
    <2> DEFINE d == LanguageIDStringDescriptor(1)
    <2>1. d.length = 4 /\ d.type \notin {ConfigurationType, InterfaceType}
      BY DEF LanguageIDStringDescriptor, StringType, ConfigurationType, InterfaceType
    <2> HIDE DEF d
    <2>2. MemoryOK(Put(buffer, 0, d)) /\ Tiles(Put(buffer, 0, d), 4)
      BY <2>1, SingleTiles
    <2> QED BY <2>2 DEF GivesOK, GetLangidStrDescriptor, InBuffer, d
  <1>4. GivesOK(Nothing) /\ \A size : GivesOK(InPlace(size))
    BY DEF GivesOK, Nothing, InPlace, NoReply
  <1>5. ASSUME NEW i \in 1 .. 5 PROVE GivesOK(GetStringDescriptor(i))
    <2>1. CASE Strings[i] = NoString
      BY <1>4, <2>1 DEF GetStringDescriptor
    <2>2. CASE Strings[i] # NoString
      <3> DEFINE d == StringDescriptor(Strings[i])
                 size == StringSize(Strings[i])
      <3>1. d.type \notin {ConfigurationType, InterfaceType}
        BY DEF StringDescriptor, StringType, ConfigurationType, InterfaceType
      <3>2. StringsFit => d.length = size /\ size \in Nat \ {0}
        BY <2>2, SizeIsLength
      <3>3. d.length \in Nat
        <4>1. Strings[i] \in Nat
          BY <2>2, StringsAssumption
        <4> QED BY <4>1 DEF StringDescriptor, StringSize
      <3> HIDE DEF d, size
      <3>4. StringsFit => Tiles(Put(buffer, 0, d), size)
        BY <3>1, <3>2, SingleTiles
      <3>5. MemoryOK(Put(buffer, 0, d))
        <4>1. d.length = 0 + d.length
          BY <3>3
        <4> QED BY <3>3, <4>1, PutPlaces
      <3> QED BY <2>2, <3>4, <3>5 DEF GivesOK, GetStringDescriptor, InBuffer, d, size
    <2> QED BY <2>1, <2>2
  <1>6. \A i : GivesOK(GetUserStringDesc(i))
    BY <1>4 DEF GetUserStringDesc
  <1> QED BY <1>1, <1>2, <1>3, <1>4, <1>5, <1>6 DEF Described

-----------------------------------------------------------------------------
(* Tasks and the data stages of the endpoints do not open or close them.   *)
LEMMA DataKeeps ==
    ASSUME IInv, DataIn \/ DataOut \/ \E t \in Tasks : TaskStep(t)
    PROVE  IInv'
  <1>1. UNCHANGED <<inOpen, outOpen, configured, controlVars>>
    <2>1. CASE DataIn
      BY <2>1 DEF DataIn, In!DataStage, outVars
    <2>2. CASE DataOut
      BY <2>2 DEF DataOut, Out!DataStage, inVars
    <2>3. ASSUME NEW t \in Tasks, TaskStep(t)
          PROVE  UNCHANGED <<inOpen, outOpen, configured, controlVars>>
      BY <2>3 DEF TaskStep, inVars, outVars, In!Check, In!Submit, In!Activate, In!Start,
                  In!endpointVars, Out!Check, Out!Submit, Out!Activate, Out!Start, Out!endpointVars
    <2> QED BY <2>1, <2>2, <2>3
  <1>2. TypeOK' /\ OpenWhileConfigured'
    BY <1>1 DEF IInv, TypeOK, OpenWhileConfigured, controlVars
  <1>3. UNCHANGED <<buffer, reply>>
    BY <1>1 DEF controlVars
  <1>4. MemoryOK(buffer)' /\ (StringsFit /\ reply.at = "buffer" => Tiles(buffer, reply.size))'
    BY <1>3 DEF IInv, MemoryOK, Tiles, Starts, CountOf
  <1> QED BY <1>2, <1>4 DEF IInv

LEMMA BusKeeps ==
    ASSUME IInv, Start \/ Reset \/ Suspend \/ Resume \/ Ep0Done
    PROVE  IInv'
  <1>1. buffer' = buffer /\ (reply' = reply \/ reply'.at = "none")
    BY DEF Start, Reset, Suspend, Resume, Ep0Done, NoReply
  <1>2. MemoryOK(buffer)' /\ (StringsFit /\ reply.at = "buffer" => Tiles(buffer, reply.size))'
    BY <1>1 DEF IInv, MemoryOK, Tiles, Starts, CountOf
  <1>3. CASE Start
    BY <1>2, <1>3 DEF Start, IInv, TypeOK, OpenWhileConfigured, inVars, outVars, LowLevelInit
  <1>4. CASE Reset
    <2>1. /\ inOpen' = FALSE /\ outOpen' = FALSE /\ configured' = FALSE
          /\ devState' = "default" /\ pClassData' = pClassData /\ answers' = <<>>
      BY <1>4 DEF Reset, CloseEndpoints, In!Deconfigure, Out!Deconfigure, IInv, TypeOK
    <2> QED BY <1>2, <1>4, <2>1 DEF Reset, IInv, TypeOK, OpenWhileConfigured
  <1>5. CASE Suspend \/ Resume \/ Ep0Done
    <2>1. /\ UNCHANGED <<inOpen, outOpen, configured, devState, pClassData>>
          /\ answers' = answers \/ answers' = <<>>
      BY <1>5 DEF Suspend, Resume, Ep0Done, KeepEndpoints, inVars, outVars
    <2> QED BY <1>2, <2>1 DEF IInv, TypeOK, OpenWhileConfigured
  <1> QED BY <1>3, <1>4, <1>5

-----------------------------------------------------------------------------
(* A hook that takes a request answers it; one that leaves it to the       *)
(* library has answered nothing.                                           *)
LEMMA HooksAnswerOrLeave ==
    ASSUME NEW r
    PROVE  \/ /\ Hook(r).done /\ Hook(r).answers \in {<<"data">>, <<"stall">>}
              /\ Hook(r).gives.reply.at # "buffer"
           \/ ~Hook(r).done /\ Hook(r).answers = <<>>
  BY DEF Hook, HookDeviceRequest, HookInterfaceRequest, NotHooked, Hooked, Nothing, InPlace,
         NoReply

LEMMA ConfigurationsOfRequests ==
    \A r \in Requests : r.code = SetConfiguration => r.value \in {0, 1}
  BY DEF Requests, Request, GetDescriptor, SetAddress, SetConfiguration, WinUsbCode

LEMMA FirstAnswer == \A what : <<>> \o <<what>> = <<what>>
  OBVIOUS

LEMMA StandardRequestKeeps ==
    ASSUME IInv, devState # "off", NEW r \in Requests, StandardRequest(r, <<>>),
           pClassData' = pClassData
    PROVE  IInv'
  <1>1. CASE r.code = GetDescriptor
    <2>1. Give(Described(r.value), <<>>)
      BY <1>1 DEF StandardRequest, GetDescriptor, SetAddress, SetConfiguration
    <2>2. /\ buffer' = Described(r.value).memory /\ reply' = Described(r.value).reply
          /\ answers' \in {<<"data">>, <<"stall">>}
          /\ UNCHANGED <<devState, inOpen, outOpen, configured>>
      BY <2>1, FirstAnswer DEF Give, KeepEndpoints, inVars, outVars
    <2>3. GivesOK(Described(r.value))
      BY DescribedGivesOK DEF IInv
    <2>4. MemoryOK(buffer') /\ (StringsFit /\ reply'.at = "buffer" => Tiles(buffer', reply'.size))
      BY <2>2, <2>3 DEF GivesOK
    <2>5. TypeOK' /\ OpenWhileConfigured'
      BY <2>2 DEF IInv, TypeOK, OpenWhileConfigured
    <2> QED BY <2>4, <2>5 DEF IInv, MemoryOK, Tiles, Starts, CountOf
  <1>2. CASE r.code # GetDescriptor
    <2>1. /\ buffer' = buffer /\ reply'.at = "none"
          /\ answers' \in {<<"status">>, <<"stall">>}
      BY <1>2, FirstAnswer DEF StandardRequest, Status, NoReply
    <2>2. MemoryOK(buffer)' /\ (StringsFit /\ reply.at = "buffer" => Tiles(buffer, reply.size))'
      BY <2>1 DEF IInv, MemoryOK
    <2>3. CASE r.code = SetConfiguration
      <3>1. r.value \in {0, 1}
        BY <2>3, ConfigurationsOfRequests
      <3>2. IF devState = "default"
            THEN UNCHANGED devState /\ KeepEndpoints
            ELSE /\ devState' = IF r.value = 0 THEN "addressed" ELSE "configured"
                 /\ CASE devState = "addressed" /\ r.value = 1 -> OpenEndpoints
                      [] devState = "configured" /\ r.value = 0 -> CloseEndpoints
                      [] OTHER -> KeepEndpoints
        BY <1>2, <2>3 DEF StandardRequest, SetAddress, SetConfiguration
      <3>3. OpenEndpoints => configured' = TRUE /\ inOpen' \in BOOLEAN /\ outOpen' \in BOOLEAN
        BY DEF OpenEndpoints, In!Configure, Out!Configure, In!OpenEP, Out!OpenEP
      <3>4. CloseEndpoints => configured' = FALSE /\ inOpen' = FALSE /\ outOpen' = FALSE
        BY DEF CloseEndpoints, In!Deconfigure, Out!Deconfigure
      <3>5. KeepEndpoints => UNCHANGED <<configured, inOpen, outOpen>>
        BY DEF KeepEndpoints, inVars, outVars
      <3>6. pClassData' = TRUE /\ answers' \in {<<"status">>, <<"stall">>}
        BY <2>1 DEF IInv, TypeOK
      <3>7. CASE devState = "default"
        <4>1. UNCHANGED <<devState, configured, inOpen, outOpen>>
          BY <3>2, <3>5, <3>7
        <4>2. TypeOK' /\ OpenWhileConfigured'
          BY <3>6, <4>1 DEF IInv, TypeOK, OpenWhileConfigured
        <4> QED BY <2>2, <4>2 DEF IInv
      <3>8. CASE devState # "default" /\ r.value = 0
        <4>1. devState' = "addressed" /\ configured' = FALSE /\ inOpen' = FALSE /\ outOpen' = FALSE
          <5>1. CASE devState = "configured"
            BY <3>2, <3>4, <3>8, <5>1
          <5>2. CASE devState = "addressed"
            <6>1. UNCHANGED <<configured, inOpen, outOpen>> /\ devState' = "addressed"
              BY <3>2, <3>5, <3>8, <5>2
            <6> QED BY <5>2, <6>1 DEF IInv, TypeOK, OpenWhileConfigured
          <5> QED BY <3>8, <5>1, <5>2 DEF IInv, TypeOK
        <4>2. TypeOK' /\ OpenWhileConfigured'
          BY <3>6, <4>1 DEF TypeOK, OpenWhileConfigured
        <4> QED BY <2>2, <4>2 DEF IInv
      <3>9. CASE devState # "default" /\ r.value = 1
        <4>1. /\ devState' = "configured" /\ configured' = TRUE
              /\ inOpen' \in BOOLEAN /\ outOpen' \in BOOLEAN
          <5>1. CASE devState = "addressed"
            BY <3>2, <3>3, <3>9, <5>1
          <5>2. CASE devState = "configured"
            <6>1. UNCHANGED <<configured, inOpen, outOpen>> /\ devState' = "configured"
              BY <3>2, <3>5, <3>9, <5>2
            <6> QED BY <5>2, <6>1 DEF IInv, TypeOK, OpenWhileConfigured
          <5> QED BY <3>9, <5>1, <5>2 DEF IInv, TypeOK
        <4>2. TypeOK' /\ OpenWhileConfigured'
          BY <3>6, <4>1 DEF TypeOK, OpenWhileConfigured
        <4> QED BY <2>2, <4>2 DEF IInv
      <3> QED BY <3>1, <3>7, <3>8, <3>9
    <2>4. CASE r.code # SetConfiguration
      <3>1. /\ UNCHANGED <<inOpen, outOpen, configured>>
            /\ \/ devState' = devState
               \/ devState # "configured" /\ devState' \in {"default", "addressed"}
        BY <1>2, <2>4 DEF StandardRequest, KeepEndpoints, inVars, outVars
      <3>2. TypeOK' /\ OpenWhileConfigured'
        BY <2>1, <3>1 DEF IInv, TypeOK, OpenWhileConfigured
      <3> QED BY <2>2, <3>2 DEF IInv
    <2> QED BY <2>3, <2>4
  <1> QED BY <1>1, <1>2

LEMMA SetupKeeps ==
    ASSUME IInv, NEW r \in Requests, SetupStage(r)
    PROVE  IInv'
  <1>1. devState # "off" /\ pClassData' = pClassData
    BY DEF SetupStage
  <1>2. CASE Hook(r).done
    <2>1. /\ answers' \in {<<"data">>, <<"stall">>} /\ reply'.at # "buffer"
          /\ UNCHANGED <<buffer, devState, inOpen, outOpen, configured>>
      BY <1>2, HooksAnswerOrLeave DEF SetupStage, KeepEndpoints, inVars, outVars
    <2> QED BY <1>1, <2>1 DEF IInv, TypeOK, OpenWhileConfigured, MemoryOK
  <1>3. CASE ~Hook(r).done
    <2>1. StandardRequest(r, <<>>) \/ ClassRequest(<<>>)
      BY <1>3, HooksAnswerOrLeave DEF SetupStage
    <2>2. CASE ClassRequest(<<>>)
      <3>1. /\ UNCHANGED <<devState, inOpen, outOpen, configured, buffer>>
            /\ \/ UNCHANGED <<reply, answers>>
               \/ answers' = <<"stall">> /\ reply'.at = "none"
        BY <2>2, FirstAnswer DEF ClassRequest, Status, KeepEndpoints, inVars, outVars, NoReply
      <3> QED BY <1>1, <3>1
          DEF IInv, TypeOK, OpenWhileConfigured, MemoryOK, Tiles, Starts, CountOf
    <2> QED BY <1>1, <2>1, <2>2, StandardRequestKeeps
  <1> QED BY <1>2, <1>3

LEMMA StepKeeps == ASSUME IInv, [Next]_vars PROVE IInv'
  <1>1. CASE UNCHANGED vars
    <2>1. UNCHANGED <<inOpen, outOpen, configured, devState, pClassData, buffer, reply, answers>>
      BY <1>1 DEF vars, inVars, outVars, controlVars
    <2> QED BY <2>1 DEF IInv, TypeOK, OpenWhileConfigured, MemoryOK, Tiles, Starts, CountOf
  <1>2. ASSUME NEW r \in Requests, SetupStage(r) PROVE IInv'
    BY <1>2, SetupKeeps
  <1> QED BY <1>1, <1>2, BusKeeps, DataKeeps DEF Next, Interrupt

LEMMA Invariance == Spec => []IInv
  <1>1. IInv /\ [Next]_vars => IInv'
    BY StepKeeps
  <1> QED BY InitHolds, <1>1, PTL DEF Spec

-----------------------------------------------------------------------------
(* A setup packet gets one answer, from the hooks or from the library and  *)
(* never from both, in every state of the device.                          *)
THEOREM OneAnswer == Spec => []AnswersOnce
  <1>1. ASSUME IInv PROVE AnswersOnce
    <2>1. \/ answers = <<>> \/ answers = <<"data">>
          \/ answers = <<"stall">> \/ answers = <<"status">>
      BY <1>1 DEF IInv, TypeOK
    <2>2. CASE answers = <<>>
      BY <2>2 DEF AnswersOnce
    <2>3. ASSUME NEW what, answers = <<what>> PROVE AnswersOnce
      BY <2>3 DEF AnswersOnce
    <2> QED BY <2>1, <2>2, <2>3
  <1>2. IInv => AnswersOnce
    BY <1>1
  <1> QED BY Invariance, <1>2, PTL

(* The endpoints are open only while the host has the device configured.   *)
THEOREM OpenOnlyConfigured == Spec => []OpenWhileConfigured
  BY Invariance, PTL DEF IInv

(* A reply of this device, the configuration of its one interface with two *)
(* endpoints or a single descriptor, consists of its descriptors from its  *)
(* start to its end whatever earlier replies have left in the buffer, when *)
(* every string fits its bLength.                                          *)
THEOREM RepliesTile ==
    ASSUME StringsFit
    PROVE  Spec => []ReplyTiles
  <1>1. IInv => ReplyTiles
    BY StringsFit DEF IInv, ReplyTiles, Tiles, Starts, CountOf
  <1> QED BY Invariance, <1>1, PTL

-----------------------------------------------------------------------------
(* The endpoints of direction and number 1 are found for what the HAL says *)
(* of endpoint 1.                                                          *)
LEMMA Routes == RouteIn(1) = "in" /\ RouteOut(1) = "out"
  <1>1. MakeIn(1) = 129 /\ MakeIn(128 + 1) = 129 /\ MakeOut(1) = 1
    BY DEF MakeIn, MakeOut
  <1>2. IsIn(129) /\ ~IsIn(1) /\ InAddress = 129 /\ OutAddress = 1
    BY <1>1 DEF IsIn, InAddress, OutAddress
  <1>3. GetEndpoint(129) = "in" /\ GetEndpoint(1) = "out"
    BY <1>2 DEF GetEndpoint
  <1> QED BY <1>1, <1>3 DEF RouteIn, RouteOut

(* What opens, closes or keeps the interface does it to both endpoints.    *)
LEMMA InterfaceSteps ==
    ASSUME OpenEndpoints \/ CloseEndpoints \/ KeepEndpoints
    PROVE  [In!Next]_(In!vars) /\ [Out!Next]_(Out!vars)
  <1>1. CASE OpenEndpoints
    BY <1>1 DEF OpenEndpoints, In!Next, Out!Next
  <1>2. CASE CloseEndpoints
    BY <1>2 DEF CloseEndpoints, In!Next, Out!Next
  <1>3. CASE KeepEndpoints
    BY <1>3 DEF KeepEndpoints, inVars, outVars, In!vars, Out!vars
  <1> QED BY <1>1, <1>2, <1>3

LEMMA SetupSteps ==
    ASSUME NEW r \in Requests, SetupStage(r)
    PROVE  OpenEndpoints \/ CloseEndpoints \/ KeepEndpoints
  <1>1. CASE Hook(r).done
    BY <1>1 DEF SetupStage
  <1>2. ASSUME NEW earlier, StandardRequest(r, earlier)
        PROVE  OpenEndpoints \/ CloseEndpoints \/ KeepEndpoints
    BY <1>2 DEF StandardRequest, Give
  <1>3. ASSUME NEW earlier, ClassRequest(earlier) PROVE KeepEndpoints
    BY <1>3 DEF ClassRequest
  <1> QED BY <1>1, <1>2, <1>3 DEF SetupStage

(* A data stage reaches the endpoint of its direction; the other one, and  *)
(* the interface they share, stay as they are.                             *)
LEMMA DataSteps ==
    ASSUME DataIn \/ DataOut \/ \E t \in Tasks : TaskStep(t)
    PROVE  [In!Next]_(In!vars) /\ [Out!Next]_(Out!vars)
  <1>1. CASE DataIn
    <2>1. In!DataStage
      BY <1>1, Routes DEF DataIn
    <2>2. UNCHANGED Out!vars
      BY <1>1, <2>1 DEF DataIn, outVars, In!DataStage, Out!vars
    <2> QED BY <2>1, <2>2 DEF In!Next
  <1>2. CASE DataOut
    <2>1. Out!DataStage
      BY <1>2, Routes DEF DataOut
    <2>2. UNCHANGED In!vars
      BY <1>2, <2>1 DEF DataOut, inVars, Out!DataStage, In!vars
    <2> QED BY <2>1, <2>2 DEF Out!Next
  <1>3. ASSUME NEW t \in Tasks, TaskStep(t)
        PROVE  [In!Next]_(In!vars) /\ [Out!Next]_(Out!vars)
    <2>1. CASE (In!Check(t) \/ In!Submit(t)) /\ UNCHANGED <<outVars, controlVars>>
      <3>1. configured' = configured
        BY <2>1 DEF In!Check, In!Submit, In!Activate, In!Start, In!endpointVars
      <3>2. UNCHANGED Out!vars
        BY <2>1, <3>1 DEF outVars, Out!vars
      <3> QED BY <2>1, <3>2 DEF In!Next
    <2>2. CASE (Out!Check(t) \/ Out!Submit(t)) /\ UNCHANGED <<inVars, controlVars>>
      <3>1. configured' = configured
        BY <2>2 DEF Out!Check, Out!Submit, Out!Activate, Out!Start, Out!endpointVars
      <3>2. UNCHANGED In!vars
        BY <2>2, <3>1 DEF inVars, In!vars
      <3> QED BY <2>2, <3>2 DEF Out!Next
    <2> QED BY <1>3, <2>1, <2>2 DEF TaskStep
  <1> QED BY <1>1, <1>2, <1>3

(* Whatever the host asks for, each of the two endpoints is a UsbDEndpoint:*)
(* the end of a transfer reaches the endpoint that made it and no other.   *)
THEOREM EndpointsRefine == Spec => EndpointsBehave
  <1>1. Init => In!Init /\ Out!Init
    BY DEF Init
  <1>2. ASSUME [Next]_vars
        PROVE  [In!Next]_(In!vars) /\ [Out!Next]_(Out!vars)
    <2>1. CASE UNCHANGED vars
      BY <2>1 DEF vars, inVars, outVars, In!vars, Out!vars
    <2>2. CASE DataIn \/ DataOut \/ \E t \in Tasks : TaskStep(t)
      BY <2>2, DataSteps
    <2>3. CASE Start \/ Reset \/ Suspend \/ Resume \/ Ep0Done
      <3>1. OpenEndpoints \/ CloseEndpoints \/ KeepEndpoints
        BY <2>3 DEF Start, Reset, Suspend, Resume, Ep0Done, KeepEndpoints
      <3> QED BY <3>1, InterfaceSteps
    <2>4. ASSUME NEW r \in Requests, SetupStage(r)
          PROVE  [In!Next]_(In!vars) /\ [Out!Next]_(Out!vars)
      BY <2>4, SetupSteps, InterfaceSteps
    <2> QED BY <1>2, <2>1, <2>2, <2>3, <2>4 DEF Next, Interrupt
  <1> QED BY <1>1, <1>2, PTL DEF Spec, EndpointsBehave, In!Spec, Out!Spec
=============================================================================
