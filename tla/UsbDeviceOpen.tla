---------------------------- MODULE UsbDeviceOpen ----------------------------
(***************************************************************************)
(* How USB/Host/Linux finds and opens a device at one port: UsbService     *)
(* reads its ids from sysfs, the constructor of UsbDevice opens its node   *)
(* and an epoll descriptor and makes an UsbInterface of every interface    *)
(* directory, and the destructor, or an exception on the way, takes it all *)
(* down.  The device may be unplugged, and another one plugged in, between *)
(* any two steps.  sysfs, the descriptor table and usbfs are external; a   *)
(* descriptor that is only open while an attribute is read is left out.    *)
(***************************************************************************)
EXTENDS UsbTypes, FiniteSets

CONSTANTS
    Objects,        \* UsbDevice objects, each made by a client of its own
    Numbers,        \* descriptor numbers
    Unused,         \* what a number denotes that is not open
    Contents,       \* the devices plugged in one after the other: for each,
                    \* the endpoint addresses of each of its interfaces
    Isochronous,    \* the addresses of those whose type sysfs calls "Isoc"
    EpollFails      \* whether epoll_create or epoll_ctl may fail

(* What is assumed of the constants; an interface never lists endpoint 0.  *)
NumbersAssumption == Numbers \subseteq Nat /\ Cardinality(Numbers) >= 4 * Cardinality(Objects)
SwitchesAssumption == EpollFails \in BOOLEAN
UnusedAssumption == Unused \notin [what : {"device", "epoll", "directory"}, by : Objects]
ContentsAssumption ==
    /\ Len(Contents) \in Nat /\ DOMAIN Contents = 1..Len(Contents)
    /\ \A i \in DOMAIN Contents :
          /\ DOMAIN Contents[i] \subseteq Nat
          /\ \A name \in DOMAIN Contents[i] : Contents[i][name] \subseteq 1..255

VARIABLES
    plugged,        \* which device is at the port, 0 when there is none
    plugs,          \* how many there have been
    table,          \* what each descriptor number denotes
    obj             \* the objects

vars == <<plugged, plugs, table, obj>>

Closed == -1
NoInterface == [name |-> 0, number |-> 0, in |-> {}, out |-> {}]

NewObject == [
    at |-> "idle",
    vid |-> 0, pid |-> 0, node |-> 0,           \* the device each was read from
    fd |-> Closed, epoll |-> Closed,            \* _deviceFileDescriptor, _epoll
    directory |-> Closed, endpoints |-> Closed, \* the directories being listed
    names |-> {}, addresses |-> {},             \* what is still to be listed in them
    current |-> NoInterface,                    \* the interface being made
    interfaces |-> {},                          \* _interfaces
    left |-> <<>>]                              \* what is still to be taken down

(* An object that is gone; of a listing that failed the rest is kept.      *)
Ended(how, addresses) == [NewObject EXCEPT !.at = how, !.addresses = addresses]

Init ==
    /\ plugged = 0 /\ plugs = 0
    /\ table = [n \in Numbers |-> Unused]
    /\ obj = [o \in Objects |-> NewObject]

-----------------------------------------------------------------------------
(* The system: the lowest free number, and what sysfs shows of the port.   *)
Lowest(n) == table[n] = Unused /\ \A m \in Numbers : table[m] = Unused => n <= m
Open(n, what, o) == table' = [table EXCEPT ![n] = [what |-> what, by |-> o]]
Close(n) == table' = [table EXCEPT ![n] = Unused]

Listed(name) == plugged # 0 /\ name \in DOMAIN Contents[plugged]

Plug ==
    /\ plugged = 0
    /\ plugs < Len(Contents)
    /\ plugs' = plugs + 1
    /\ plugged' = plugs'
    /\ UNCHANGED <<table, obj>>

Unplug ==
    /\ plugged # 0
    /\ plugged' = 0
    /\ UNCHANGED <<plugs, table, obj>>

System == <<plugged, plugs>>
Go(o, place) == obj' = [obj EXCEPT ![o].at = place]

-----------------------------------------------------------------------------
(* enumerateDevices and getUsbDeviceInfo: a device without ids is skipped, *)
(* or refused with an exception.                                           *)
ReadVendor(o) ==
    /\ obj[o].at = "idle"
    /\ plugged # 0
    /\ obj' = [obj EXCEPT ![o].at = "product", ![o].vid = plugged]
    /\ UNCHANGED <<System, table>>

ReadProduct(o) ==
    /\ obj[o].at = "product"
    /\ obj' = [obj EXCEPT ![o] =
                  IF plugged = 0 THEN NewObject
                  ELSE [@ EXCEPT !.at = "found", !.pid = plugged]]
    /\ UNCHANGED <<System, table>>

(* getDeviceNodePath: bus and device number of what is at the port now; no *)
(* two devices have the same, and no node has the numbers of none.         *)
ReadNode(o) ==
    /\ obj[o].at = "found"
    /\ obj' = [obj EXCEPT ![o].at = "node", ![o].node = plugged]
    /\ UNCHANGED <<System, table>>

OpenNode(o) ==
    /\ obj[o].at = "node"
    /\ \/ /\ obj[o].node # 0 /\ obj[o].node = plugged
          /\ \E n \in Numbers :
                /\ Lowest(n)
                /\ Open(n, "device", o)
                /\ obj' = [obj EXCEPT ![o].at = "epoll", ![o].fd = n]
       \/ /\ obj[o].node # plugged \/ plugged = 0
          /\ obj' = [obj EXCEPT ![o] = Ended("failed", {})]
          /\ UNCHANGED table
    /\ UNCHANGED System

(* What destroys the members when the constructor throws, and ~UsbDevice.  *)
UnwindWithoutEpoll == <<"interfaces", "device">>
Unwind == <<"epoll", "interfaces", "device">>
Destroy == <<"interfaces", "epoll", "device">>

Throw(o) == obj' = [obj EXCEPT ![o].at = "unwinding", ![o].left = Unwind]

(* EpollContext closes its own descriptor before it throws; an error of    *)
(* the capabilities that are read next gives a default.                    *)
OpenEpoll(o) ==
    /\ obj[o].at = "epoll"
    /\ \/ \E n \in Numbers :
             /\ Lowest(n)
             /\ Open(n, "epoll", o)
             /\ obj' = [obj EXCEPT ![o].at = "list", ![o].epoll = n]
       \/ EpollFails /\ Throw(o) /\ UNCHANGED table
    /\ UNCHANGED System

-----------------------------------------------------------------------------
(* enumerateInterfaces: opendir's result is not looked at, and readdir of  *)
(* a null pointer crashes.                                                 *)
ListInterfaces(o) ==
    /\ obj[o].at = "list"
    /\ \/ /\ plugged # 0
          /\ \E n \in Numbers :
                /\ Lowest(n)
                /\ Open(n, "directory", o)
                /\ obj' = [obj EXCEPT ![o].at = "interfaces", ![o].directory = n,
                                      ![o].names = DOMAIN Contents[plugged]]
       \/ plugged = 0 /\ Go(o, "crashed") /\ UNCHANGED table
    /\ UNCHANGED System

(* A directory without bInterfaceClass is passed over.                     *)
NextInterface(o) ==
    /\ obj[o].at = "interfaces"
    /\ \E name \in obj[o].names :
          obj' = [obj EXCEPT ![o].names = @ \ {name},
                             ![o].at = IF Listed(name) THEN "attributes" ELSE "interfaces",
                             ![o].current = IF Listed(name) THEN [NoInterface EXCEPT !.name = name] ELSE @]
    /\ UNCHANGED <<System, table>>

(* UsbInterface: an attribute that cannot be read is zero.  Whether the    *)
(* interface could be claimed is not looked at.                            *)
ReadAttributes(o) ==
    /\ obj[o].at = "attributes"
    /\ LET name == obj[o].current.name
       IN  obj' = [obj EXCEPT ![o].at = "endpoints",
                              ![o].current.number = IF Listed(name) THEN name ELSE 0]
    /\ UNCHANGED <<System, table>>

Made(o) == [obj EXCEPT ![o].at = "interfaces",
                       ![o].interfaces = @ \cup {obj[o].current},
                       ![o].endpoints = Closed,
                       ![o].current = NoInterface]

(* enumerateEndpoints of a directory that is gone does nothing.            *)
ListEndpoints(o) ==
    /\ obj[o].at = "endpoints"
    /\ LET name == obj[o].current.name IN
         \/ /\ Listed(name)
            /\ \E n \in Numbers :
                  /\ Lowest(n)
                  /\ Open(n, "directory", o)
                  /\ obj' = [obj EXCEPT ![o].at = "addresses", ![o].endpoints = n,
                                        ![o].addresses = Contents[plugged][name]]
         \/ ~Listed(name) /\ obj' = Made(o) /\ UNCHANGED table
    /\ UNCHANGED System

SortSwapped(interface, address) ==
    IF IsOut(address) THEN [interface EXCEPT !.in = @ \cup {address}]
    ELSE [interface EXCEPT !.out = @ \cup {address}]

Sort(interface, address) ==
    IF IsIn(address) THEN [interface EXCEPT !.in = @ \cup {address}]
    ELSE [interface EXCEPT !.out = @ \cup {address}]

(* toEndpointType throws for a type that cannot be read, and for one that  *)
(* it does not know, as it calls "Isochronous" what sysfs calls "Isoc":    *)
(* neither directory is closed, and the interface is none of _interfaces   *)
(* yet.                                                                    *)
KnowsType(o, address) ==
    /\ Listed(obj[o].current.name)
    /\ address \in Contents[plugged][obj[o].current.name] \ Isochronous

ReadEndpoint(o) ==
    /\ obj[o].at = "addresses"
    /\ \E address \in obj[o].addresses :
          \/ /\ KnowsType(o, address)
             /\ obj' = [obj EXCEPT ![o].addresses = @ \ {address},
                                   ![o].current = Sort(@, address)]
          \/ ~KnowsType(o, address) /\ Throw(o)
    /\ UNCHANGED <<System, table>>

EndEndpoints(o) ==
    /\ obj[o].at = "addresses"
    /\ obj[o].addresses = {}
    /\ Close(obj[o].endpoints)
    /\ obj' = Made(o)
    /\ UNCHANGED System

(* closedir, and the thread that reaps starts.                             *)
EndInterfaces(o) ==
    /\ obj[o].at = "interfaces"
    /\ obj[o].names = {}
    /\ Close(obj[o].directory)
    /\ obj' = [obj EXCEPT ![o].at = "open", ![o].directory = Closed]
    /\ UNCHANGED System

-----------------------------------------------------------------------------
(* The client has let its interfaces go before it destroys the device.     *)
BeginDestroy(o) ==
    /\ obj[o].at = "open"
    /\ obj' = [obj EXCEPT ![o].at = "destroying", ![o].left = Destroy]
    /\ UNCHANGED <<System, table>>

(* The interfaces are released through their copy of the number.           *)
Without(o, what) ==
    CASE what = "epoll" -> [obj[o] EXCEPT !.epoll = Closed, !.left = Tail(@)]
      [] what = "device" -> [obj[o] EXCEPT !.fd = Closed, !.left = Tail(@)]
      [] what = "interfaces" -> [obj[o] EXCEPT !.interfaces = {}, !.left = Tail(@)]

NumberOf(o, what) ==
    CASE what = "epoll" -> obj[o].epoll [] what = "device" -> obj[o].fd [] OTHER -> Closed

(* With the last member the object is gone.                                *)
After(s) ==
    IF s.left # <<>> THEN s
    ELSE IF s.at = "unwinding" THEN Ended("failed", s.addresses)
    ELSE Ended("destroyed", {})

TakeDown(o) ==
    /\ obj[o].left # <<>>
    /\ LET what == Head(obj[o].left)
       IN  /\ IF NumberOf(o, what) = Closed THEN UNCHANGED table ELSE Close(NumberOf(o, what))
           /\ obj' = [obj EXCEPT ![o] = After(Without(o, what))]
    /\ UNCHANGED System

ObjectStep(o) ==
    \/ ReadVendor(o) \/ ReadProduct(o) \/ ReadNode(o) \/ OpenNode(o) \/ OpenEpoll(o)
    \/ ListInterfaces(o) \/ NextInterface(o) \/ ReadAttributes(o)
    \/ ListEndpoints(o) \/ ReadEndpoint(o) \/ EndEndpoints(o) \/ EndInterfaces(o)
    \/ BeginDestroy(o) \/ TakeDown(o)

Next ==
    /\ \A o \in Objects : obj[o].at # "crashed"
    /\ \/ Plug \/ Unplug
       \/ \E o \in Objects : ObjectStep(o)

Spec == Init /\ [][Next]_vars

-----------------------------------------------------------------------------
(* A device that was not unplugged while it was found and opened is        *)
(* described whole: its ids and its node are its own, and its interfaces   *)
(* have exactly its endpoints, each on the side of its direction.          *)
Described(name) == [name |-> name, number |-> name,
    in |-> {a \in Contents[plugged][name] : a >= 128},
    out |-> {a \in Contents[plugged][name] : a < 128}]
DescribesOneDevice == \A o \in Objects :
    obj[o].at = "open" /\ plugged # 0 /\ obj[o].vid = plugged =>
        /\ obj[o].pid = plugged /\ obj[o].node = plugged
        /\ obj[o].interfaces = {Described(name) : name \in DOMAIN Contents[plugged]}

(* An object's descriptors are its own as long as it has interfaces to     *)
(* release through them; when it is destroyed, or its open has failed, it  *)
(* has none left but the directories it was listing when a type could not  *)
(* be read or was not known.                                               *)
NothingIsLeft == \A o \in Objects :
    /\ obj[o].fd # Closed => table[obj[o].fd] = [what |-> "device", by |-> o]
    /\ obj[o].epoll # Closed => table[obj[o].epoll] = [what |-> "epoll", by |-> o]
    /\ obj[o].interfaces # {} => obj[o].fd # Closed
    /\ obj[o].at \in {"failed", "destroyed"} =>
          \A n \in Numbers : table[n] # Unused /\ table[n].by = o =>
              obj[o].at = "failed" /\ obj[o].addresses # {} /\ table[n].what = "directory"
=============================================================================
