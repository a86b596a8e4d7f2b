------------------------ MODULE HostServices_proofs ------------------------
(***************************************************************************)
(* The services around the devices of a host, for any number of readers,   *)
(* clients and transfers.  The Linux service, for a client that starts and *)
(* stops in turn, has one reader at most, which never meets an empty       *)
(* callback, calls back what the kernel sent in its order, and only        *)
(* between start and stop.  The Windows service calls the right client,    *)
(* and only between start and stop.  A wait for an overlapped transfer     *)
(* whose handle value nobody waits with twice uses its own event.          *)
(***************************************************************************)
EXTENDS MCHostServices, SequenceTheorems, TLAPS

Controls ==
    [at : {"idle", "opening", "forgetting"}, reader : {NoReader}]
    \cup [at : {"starting", "assigning"}, reader : Readers]
    \cup [at : {"clearing", "closing", "joining"}, reader : Readers, next : {"forgetting"}]

Places == {"none", "new", "check", "wait", "read", "call", "calling", "exited"}
ReaderStates == [at : Places, running : BOOLEAN, epoll : BOOLEAN, event : Nat]
Messages == [number : Nat, usb : BOOLEAN]
Calls == [callback : Callbacks, event : Nat]

TypeOK ==
    /\ control \in Controls
    /\ netlink \in Readers \cup {NoReader}
    /\ callback \in Callbacks \cup {NoCallback}
    /\ reader \in [Readers -> ReaderStates]
    /\ socket \in [Readers -> Seq(Messages)]
    /\ events \in Nat
    /\ heard \in Seq(Calls)
    /\ broken = FALSE

(* There is a reader only in _netlink or in the hands of a start or stop,  *)
(* never in both.                                                          *)
OneReader ==
    /\ \A r \in Readers : reader[r].at # "none" => r = netlink \/ r = control.reader
    /\ netlink # NoReader => control = Idle

(* How far the reader is that a start or a stop has in its hands.          *)
ReaderOfControl ==
    /\ netlink # NoReader =>
          reader[netlink].running /\ reader[netlink].at \notin {"none", "new", "exited"}
    /\ control.at = "starting" => reader[control.reader].at = "new"
    /\ control.at = "assigning" =>
          /\ reader[control.reader].running
          /\ reader[control.reader].at \notin {"none", "new", "exited"}
    /\ control.at \in {"clearing", "closing", "joining"} =>
          reader[control.reader].at \notin {"none", "new"}

(* A reader has a function to call as long as it runs.                     *)
FunctionForReader ==
    netlink # NoReader \/ control.at \notin {"idle", "forgetting"} => callback \in Callbacks

(* A socket is empty before it is bound, and not when it is read.          *)
SocketForReader == \A r \in Readers :
    /\ reader[r].at = "none" => socket[r] = <<>>
    /\ reader[r].at = "read" => socket[r] # <<>>

OwnershipInv == TypeOK /\ OneReader /\ ReaderOfControl /\ FunctionForReader /\ SocketForReader

LEMMA OwnershipInit == Init => OwnershipInv
  BY NullAssumption
  DEF Init, OwnershipInv, TypeOK, OneReader, ReaderOfControl, FunctionForReader, SocketForReader,
      Controls, Places, ReaderStates, Messages, Idle, NoThread

-----------------------------------------------------------------------------
(* Nobody runs while the service is stopped or forgets its callback.       *)
LEMMA NobodyRuns ==
    ASSUME OwnershipInv, netlink = NoReader, control.reader = NoReader
    PROVE  \A r \in Readers : reader[r].at = "none"
  BY NullAssumption DEF OwnershipInv, OneReader

LEMMA StartKeeps ==
    ASSUME ~Restarts, OwnershipInv, StartListening
    PROVE  OwnershipInv'
  <1>1. /\ control = Idle /\ netlink = NoReader
        /\ \A r \in Readers : reader[r].at = "none"
    BY NobodyRuns DEF StartListening, Idle
  <1>2. /\ control' = [at |-> "opening", reader |-> NoReader]
        /\ callback' \in Callbacks
        /\ broken' = FALSE
        /\ UNCHANGED <<netlink, reader, socket, events, heard>>
    BY <1>1 DEF StartListening, SetCallback, Idle, Calling, OwnershipInv, TypeOK
  <1>3. TypeOK'
    BY <1>2 DEF OwnershipInv, TypeOK, Controls
  <1>4. OneReader' /\ ReaderOfControl' /\ FunctionForReader' /\ SocketForReader'
    BY <1>1, <1>2
    DEF OwnershipInv, OneReader, ReaderOfControl, FunctionForReader, SocketForReader
  <1> QED BY <1>3, <1>4 DEF OwnershipInv

LEMMA OpenKeeps ==
    ASSUME OwnershipInv, OpenSocket
    PROVE  OwnershipInv'
  <1>1. PICK r \in Readers :
           /\ reader[r].at = "none"
           /\ reader' = [reader EXCEPT ![r] = [NoThread EXCEPT !.at = "new"]]
           /\ control' = [at |-> "starting", reader |-> r]
    BY DEF OpenSocket
  <1>2. /\ control.at = "opening" /\ control.reader = NoReader /\ netlink = NoReader
        /\ UNCHANGED <<netlink, callback, socket, events, heard, broken>>
    BY DEF OpenSocket, OwnershipInv, TypeOK, Controls, OneReader, Idle
  <1>3. \A q \in Readers : reader[q].at = "none"
    BY <1>2, NobodyRuns
  <1>4. TypeOK'
    BY <1>1, <1>2 DEF OwnershipInv, TypeOK, Controls, NoThread, Places, ReaderStates
  <1>5. OneReader' /\ ReaderOfControl' /\ FunctionForReader' /\ SocketForReader'
    BY <1>1, <1>2, <1>3
    DEF OwnershipInv, TypeOK, OneReader, ReaderOfControl, FunctionForReader, SocketForReader, NoThread
  <1> QED BY <1>4, <1>5 DEF OwnershipInv

LEMMA StartReaderKeeps ==
    ASSUME OwnershipInv, StartReader
    PROVE  OwnershipInv'
  <1> DEFINE r == control.reader
  <1>1. /\ control.at = "starting" /\ r \in Readers /\ netlink = NoReader
        /\ reader[r].at = "new"
    BY DEF StartReader, OwnershipInv, TypeOK, Controls, OneReader, ReaderOfControl, Idle
  <1>2. /\ reader' = [reader EXCEPT ![r] =
                         [at |-> "check", running |-> TRUE, epoll |-> TRUE, event |-> 0]]
        /\ control' = [at |-> "assigning", reader |-> r]
        /\ UNCHANGED <<netlink, callback, socket, events, heard, broken>>
    BY <1>1 DEF StartReader, OwnershipInv, TypeOK, Controls
  <1>3. TypeOK'
    BY <1>1, <1>2 DEF OwnershipInv, TypeOK, Controls, Places, ReaderStates
  <1>4. OneReader' /\ ReaderOfControl' /\ FunctionForReader' /\ SocketForReader'
    BY <1>1, <1>2
    DEF OwnershipInv, TypeOK, OneReader, ReaderOfControl, FunctionForReader, SocketForReader
  <1> QED BY <1>3, <1>4 DEF OwnershipInv

(* An exception finds no reader that listens: emptying the callback is     *)
(* safe, and the reader that was made goes.                                *)
LEMMA FailKeeps ==
    ASSUME OwnershipInv, FailStart
    PROVE  OwnershipInv' /\ \A r \in Readers : reader[r].at \in {"none", "new"} /\ reader'[r].at = "none"
  <1>1. /\ control.at \in {"opening", "starting"} /\ netlink = NoReader
        /\ netlink' = netlink /\ control' = Idle /\ callback' = NoCallback
        /\ UNCHANGED <<events, heard>>
    BY DEF FailStart, SetCallback, OwnershipInv, OneReader, Idle
  <1>2. \A r \in Readers : r # control.reader => reader[r].at = "none"
    BY <1>1, NullAssumption DEF OwnershipInv, OneReader
  <1>3. control.reader \in Readers => reader[control.reader].at = "new"
    BY <1>1, NullAssumption DEF OwnershipInv, TypeOK, Controls, ReaderOfControl
  <1>4. broken' = FALSE
    BY <1>2, <1>3 DEF FailStart, SetCallback, Calling, OwnershipInv, TypeOK
  <1>5. /\ reader' = [r \in Readers |-> IF r = control.reader THEN NoThread ELSE reader[r]]
        /\ socket' = [r \in Readers |-> IF r = control.reader THEN <<>> ELSE socket[r]]
    BY DEF FailStart
  <1>6. TypeOK'
    BY <1>1, <1>4, <1>5 DEF OwnershipInv, TypeOK, Controls, Idle, NoThread, Places, ReaderStates
  <1>7. \A r \in Readers : reader'[r].at = "none"
    BY <1>2, <1>5 DEF NoThread
  <1>8. OneReader' /\ ReaderOfControl' /\ FunctionForReader'
    BY <1>1, <1>7 DEF OneReader, ReaderOfControl, FunctionForReader, Idle
  <1>9. SocketForReader'
    BY <1>2, <1>5, <1>7 DEF OwnershipInv, SocketForReader
  <1> QED BY <1>2, <1>3, <1>6, <1>7, <1>8, <1>9 DEF OwnershipInv

(* What is assigned to _netlink was empty, so no reader goes.              *)
LEMMA AssignKeeps ==
    ASSUME OwnershipInv, AssignReader
    PROVE  OwnershipInv'
  <1>1. /\ control.at = "assigning" /\ control.reader \in Readers /\ netlink = NoReader
        /\ netlink' = control.reader /\ control' = Idle
        /\ UNCHANGED <<callback, reader, socket, events, heard, broken>>
    BY DEF AssignReader, OwnershipInv, TypeOK, Controls, OneReader, Idle
  <1>2. TypeOK'
    BY <1>1 DEF OwnershipInv, TypeOK, Controls, Idle
  <1>3. OneReader' /\ ReaderOfControl' /\ FunctionForReader' /\ SocketForReader'
    BY <1>1, NullAssumption
    DEF OwnershipInv, OneReader, ReaderOfControl, FunctionForReader, SocketForReader, Idle
  <1> QED BY <1>2, <1>3 DEF OwnershipInv

LEMMA StopKeeps ==
    ASSUME OwnershipInv, StopListening
    PROVE  OwnershipInv'
  <1>1. /\ control = Idle /\ netlink' = NoReader
        /\ control' = IF netlink = NoReader THEN [at |-> "forgetting", reader |-> NoReader]
                      ELSE [at |-> "clearing", reader |-> netlink, next |-> "forgetting"]
        /\ UNCHANGED <<callback, reader, socket, events, heard, broken>>
    BY DEF StopListening, Idle
  <1>2. TypeOK'
    BY <1>1 DEF OwnershipInv, TypeOK, Controls
  <1>3. OneReader' /\ ReaderOfControl' /\ FunctionForReader' /\ SocketForReader'
    BY <1>1, NullAssumption
    DEF OwnershipInv, TypeOK, OneReader, ReaderOfControl, FunctionForReader, SocketForReader, Idle
  <1> QED BY <1>2, <1>3 DEF OwnershipInv

LEMMA StoppingKeeps ==
    ASSUME OwnershipInv, ClearRunning \/ CloseEpoll
    PROVE  OwnershipInv'
  <1> DEFINE r == control.reader
  <1>1. /\ control.at \in {"clearing", "closing"} /\ r \in Readers /\ netlink = NoReader
        /\ reader[r].at \notin {"none", "new"}
    BY DEF ClearRunning, CloseEpoll, OwnershipInv, TypeOK, Controls, OneReader, ReaderOfControl, Idle
  <1>2. /\ \/ reader' = [reader EXCEPT ![r].running = FALSE]
           \/ reader' = [reader EXCEPT ![r].epoll = FALSE]
        /\ \E place \in {"closing", "joining"} :
              control' = [at |-> place, reader |-> r, next |-> "forgetting"]
        /\ UNCHANGED <<netlink, callback, socket, events, heard, broken>>
    BY <1>1 DEF ClearRunning, CloseEpoll, OwnershipInv, TypeOK, Controls
  <1>3. reader' \in [Readers -> ReaderStates] /\ \A q \in Readers : reader'[q].at = reader[q].at
    <2>1. reader \in [Readers -> ReaderStates]
      BY DEF OwnershipInv, TypeOK
    <2>2. CASE reader' = [reader EXCEPT ![r].running = FALSE]
      BY <1>1, <2>1, <2>2 DEF ReaderStates
    <2>3. CASE reader' = [reader EXCEPT ![r].epoll = FALSE]
      BY <1>1, <2>1, <2>3 DEF ReaderStates
    <2> QED BY <1>2, <2>2, <2>3
  <1>4. TypeOK'
    BY <1>1, <1>2, <1>3 DEF OwnershipInv, TypeOK, Controls
  <1>5. OneReader' /\ ReaderOfControl' /\ FunctionForReader' /\ SocketForReader'
    BY <1>1, <1>2, <1>3
    DEF OwnershipInv, OneReader, ReaderOfControl, FunctionForReader, SocketForReader
  <1> QED BY <1>4, <1>5 DEF OwnershipInv

LEMMA JoinKeeps ==
    ASSUME OwnershipInv, JoinReader
    PROVE  OwnershipInv' /\ \A r \in Readers : reader[r].at \in {"none", "exited"} /\ reader'[r].at = "none"
  <1> DEFINE r == control.reader
  <1>1. /\ control.at = "joining" /\ r \in Readers /\ netlink = NoReader
        /\ reader[r].at = "exited"
        /\ reader' = [reader EXCEPT ![r] = NoThread]
        /\ socket' = [socket EXCEPT ![r] = <<>>]
        /\ control' = [at |-> "forgetting", reader |-> NoReader]
        /\ UNCHANGED <<netlink, callback, events, heard, broken>>
    BY DEF JoinReader, OwnershipInv, TypeOK, Controls, OneReader, Idle
  <1>2. \A q \in Readers \ {r} : reader[q].at = "none"
    BY <1>1, NullAssumption DEF OwnershipInv, OneReader
  <1>3. \A q \in Readers : reader'[q].at = "none"
    BY <1>1, <1>2 DEF OwnershipInv, TypeOK, NoThread
  <1>4. TypeOK'
    BY <1>1 DEF OwnershipInv, TypeOK, Controls, NoThread, Places, ReaderStates
  <1>5. OneReader' /\ ReaderOfControl' /\ FunctionForReader'
    BY <1>1, <1>3 DEF OneReader, ReaderOfControl, FunctionForReader
  <1>6. SocketForReader'
    BY <1>1, <1>2, <1>3 DEF OwnershipInv, TypeOK, SocketForReader
  <1> QED BY <1>1, <1>2, <1>3, <1>4, <1>5, <1>6 DEF OwnershipInv

LEMMA ForgetKeeps ==
    ASSUME OwnershipInv, ForgetCallback
    PROVE  OwnershipInv' /\ \A r \in Readers : reader[r].at = "none"
  <1>1. /\ control.at = "forgetting" /\ control.reader = NoReader /\ netlink = NoReader
        /\ control' = Idle /\ callback' = NoCallback
        /\ UNCHANGED <<netlink, reader, socket, events, heard>>
    BY DEF ForgetCallback, SetCallback, OwnershipInv, TypeOK, Controls, OneReader, Idle
  <1>2. \A r \in Readers : reader[r].at = "none"
    BY <1>1, NobodyRuns
  <1>3. broken' = FALSE
    BY <1>2 DEF ForgetCallback, SetCallback, Calling, OwnershipInv, TypeOK
  <1>4. TypeOK'
    BY <1>1, <1>3 DEF OwnershipInv, TypeOK, Controls, Idle
  <1>5. OneReader' /\ ReaderOfControl' /\ FunctionForReader' /\ SocketForReader'
    BY <1>1, <1>2
    DEF OwnershipInv, OneReader, ReaderOfControl, FunctionForReader, SocketForReader, Idle
  <1> QED BY <1>2, <1>4, <1>5 DEF OwnershipInv

-----------------------------------------------------------------------------
(* A reader that runs is the service's, and has a function to call.        *)
LEMMA RunningReader ==
    ASSUME OwnershipInv, NEW r \in Readers, reader[r].at \notin {"none", "new"}
    PROVE  /\ callback \in Callbacks /\ callback # NoCallback
           /\ \A q \in Readers \ {r} : reader[q].at = "none"
           /\ \/ netlink = r /\ control = Idle /\ reader[r].running
              \/ /\ netlink = NoReader /\ control.reader = r
                 /\ control.at \in {"assigning", "clearing", "closing", "joining"}
                 /\ control.at = "assigning" => reader[r].running
  <1>1. r = netlink \/ r = control.reader
    BY DEF OwnershipInv, OneReader
  <1>2. CASE r = netlink
    BY <1>2, NullAssumption
    DEF OwnershipInv, OneReader, ReaderOfControl, FunctionForReader, Idle
  <1>3. CASE r # netlink
    <2>1. control.reader = r /\ control # Idle /\ netlink = NoReader
      BY <1>1, <1>3, NullAssumption DEF OwnershipInv, TypeOK, OneReader, Idle
    <2>2. control.at \in {"assigning", "clearing", "closing", "joining"}
      BY <2>1, NullAssumption DEF OwnershipInv, TypeOK, Controls, ReaderOfControl
    <2> QED BY <2>1, <2>2, NullAssumption
        DEF OwnershipInv, OneReader, ReaderOfControl, FunctionForReader
  <1> QED BY <1>2, <1>3

(* The steps of a reader's thread, without what they do to the messages.   *)
LEMMA ReaderSteps ==
    ASSUME OwnershipInv, NEW r \in Readers, ReaderStep(r)
    PROVE  /\ reader[r].at \in {"check", "wait", "read", "call", "calling"}
           /\ reader' \in [Readers -> ReaderStates]
           /\ \A q \in Readers \ {r} : reader'[q] = reader[q] /\ socket'[q] = socket[q]
           /\ reader'[r].running = reader[r].running
           /\ reader'[r].at \in {"check", "wait", "read", "call", "calling", "exited"}
           /\ reader'[r].at = "exited" => ~reader[r].running
           /\ reader'[r].at = "read" => socket'[r] # <<>>
           /\ socket' \in [Readers -> Seq(Messages)]
           /\ heard' \in Seq(Calls)
           /\ UNCHANGED <<control, netlink, callback, events>> /\ broken' = FALSE
  <1>1. /\ reader \in [Readers -> ReaderStates] /\ socket \in [Readers -> Seq(Messages)]
        /\ heard \in Seq(Calls) /\ broken = FALSE
    BY DEF OwnershipInv, TypeOK
  <1>2. CASE Check(r)
    BY <1>1, <1>2 DEF Check, MoveTo, ReaderStates, Places
  <1>3. CASE Wait(r)
    BY <1>1, <1>3 DEF Wait, MoveTo, ReaderStates, Places
  <1>4. CASE Read(r) /\ ReadMessage(r)
    <2>1. /\ reader[r].at = "read" /\ socket[r] # <<>>
          /\ socket' = [socket EXCEPT ![r] = Tail(socket[r])]
          /\ UNCHANGED <<control, netlink, callback, events, heard, broken>>
      BY <1>4 DEF Read, ReadMessage, OwnershipInv, SocketForReader
    <2>2. Message(r).number \in Nat /\ Tail(socket[r]) \in Seq(Messages)
      <3>1. Message(r) \in Messages /\ Tail(socket[r]) \in Seq(Messages)
        BY <1>1, <2>1, HeadTailProperties DEF Message
      <3> QED BY <3>1 DEF Messages
    <2>3. \E place \in {"call", "check"} :
             reader' = [reader EXCEPT ![r].at = place, ![r].event = Message(r).number]
      BY <1>4 DEF ReadMessage
    <2>4. PICK place \in {"call", "check"} :
             reader' = [reader EXCEPT ![r].at = place, ![r].event = Message(r).number]
      BY <2>3
    <2>5. /\ reader' \in [Readers -> ReaderStates]
          /\ \A q \in Readers \ {r} : reader'[q] = reader[q]
          /\ reader'[r].running = reader[r].running /\ reader'[r].at = place
      BY <1>1, <2>2, <2>4 DEF ReaderStates, Places
    <2> QED BY <1>1, <2>1, <2>2, <2>5
  <1>5. CASE Call(r)
    <2>1. reader[r].at = "call" /\ callback \in Callbacks /\ callback # NoCallback
      BY <1>5, RunningReader DEF Call
    <2>2. /\ reader' = [reader EXCEPT ![r].at = "calling"]
          /\ heard' = Append(heard, [callback |-> callback, event |-> reader[r].event])
          /\ UNCHANGED <<control, netlink, callback, socket, events, broken>>
      BY <1>5, <2>1 DEF Call, MoveTo
    <2>3. heard' \in Seq(Calls)
      <3>1. [callback |-> callback, event |-> reader[r].event] \in Calls
        BY <1>1, <2>1 DEF ReaderStates, Calls
      <3> QED BY <1>1, <2>2, <3>1
    <2> QED BY <1>1, <2>1, <2>2, <2>3 DEF ReaderStates, Places
  <1>6. CASE Return(r)
    BY <1>1, <1>6 DEF Return, Calling, MoveTo, ReaderStates, Places
  <1>7. CASE Read(r) /\ ReadError(r)
    BY <1>1, <1>7 DEF Read, ReadError, MoveTo, ReaderStates, Places
  <1> QED BY <1>2, <1>3, <1>4, <1>5, <1>6, <1>7 DEF ReaderStep, Read

LEMMA ReaderKeeps ==
    ASSUME OwnershipInv, NEW r \in Readers, ReaderStep(r)
    PROVE  OwnershipInv'
  <1>1. TypeOK'
    <2>1. /\ reader' \in [Readers -> ReaderStates] /\ socket' \in [Readers -> Seq(Messages)]
          /\ heard' \in Seq(Calls) /\ broken' = FALSE
          /\ UNCHANGED <<control, netlink, callback, events>>
      BY ReaderSteps
    <2>2. TypeOK
      BY DEF OwnershipInv
    <2> QED BY <2>1, <2>2 DEF TypeOK
  <1>2. reader[r].at \notin {"none", "new", "exited"}
    BY ReaderSteps
  <1>3. OneReader' /\ FunctionForReader'
    <2>1. /\ UNCHANGED <<control, netlink, callback>>
          /\ \A q \in Readers \ {r} : reader'[q] = reader[q]
      BY ReaderSteps
    <2>2. OneReader /\ FunctionForReader
      BY DEF OwnershipInv
    <2> QED BY <1>2, <2>1, <2>2 DEF OneReader, FunctionForReader
  <1>4. ReaderOfControl'
    <2>1. /\ control.at # "starting"
          /\ netlink # NoReader => netlink = r /\ reader[r].running
          /\ control.at \in {"assigning", "clearing", "closing", "joining"} => control.reader = r
          /\ control.at = "assigning" => reader[r].running
      BY <1>2, RunningReader DEF Idle
    <2>2. /\ UNCHANGED <<control, netlink>>
          /\ reader'[r].at \notin {"none", "new"}
          /\ reader[r].running => reader'[r].running /\ reader'[r].at # "exited"
      BY ReaderSteps
    <2> QED BY <2>1, <2>2 DEF ReaderOfControl
  <1>5. SocketForReader'
    BY ReaderSteps DEF OwnershipInv, SocketForReader
  <1> QED BY <1>1, <1>3, <1>4, <1>5 DEF OwnershipInv

(* A message of the kernel changes the sockets that are open, at their end.*)
LEMMA HotPlugSends ==
    ASSUME OwnershipInv, HotPlug
    PROVE  /\ events' = events + 1
           /\ UNCHANGED <<control, netlink, callback, reader, heard, broken>>
           /\ \E usb \in BOOLEAN :
                 /\ [number |-> events + 1, usb |-> usb] \in Messages
                 /\ \A r \in Readers :
                       \/ socket'[r] = socket[r]
                       \/ /\ reader[r].at # "none"
                          /\ socket'[r] = Append(socket[r], [number |-> events + 1, usb |-> usb])
           /\ socket' \in [Readers -> Seq(Messages)]
  <1>1. PICK usb \in BOOLEAN :
           socket' = [r \in Readers |->
                        IF reader[r].at # "none" /\ ~Full(r)
                        THEN Append(socket[r], [number |-> events + 1, usb |-> usb])
                        ELSE socket[r]]
    BY DEF HotPlug
  <1>2. [number |-> events + 1, usb |-> usb] \in Messages /\ socket \in [Readers -> Seq(Messages)]
    BY DEF OwnershipInv, TypeOK, Messages
  <1>3. socket' \in [Readers -> Seq(Messages)]
    BY <1>1, <1>2
  <1> QED BY <1>1, <1>2, <1>3 DEF HotPlug

LEMMA HotPlugKeeps ==
    ASSUME OwnershipInv, HotPlug
    PROVE  OwnershipInv'
  <1>1. TypeOK'
    <2>1. /\ events' = events + 1 /\ socket' \in [Readers -> Seq(Messages)]
          /\ UNCHANGED <<control, netlink, callback, reader, heard, broken>>
      BY HotPlugSends
    <2> QED BY <2>1 DEF OwnershipInv, TypeOK
  <1>2. OneReader' /\ FunctionForReader' /\ ReaderOfControl'
    BY HotPlugSends DEF OwnershipInv, OneReader, FunctionForReader, ReaderOfControl
  <1>3. SocketForReader'
    <2> SUFFICES ASSUME NEW r \in Readers
                 PROVE  /\ reader'[r].at = "none" => socket'[r] = <<>>
                        /\ reader'[r].at = "read" => socket'[r] # <<>>
      BY DEF SocketForReader
    <2>1. CASE socket'[r] = socket[r]
      BY <2>1, HotPlugSends DEF OwnershipInv, SocketForReader
    <2>2. ASSUME NEW m \in Messages, socket'[r] = Append(socket[r], m), reader[r].at # "none"
          PROVE  socket'[r] # <<>> /\ reader'[r].at # "none"
      <3>1. socket[r] \in Seq(Messages)
        BY DEF OwnershipInv, TypeOK
      <3>2. reader'[r].at # "none"
        BY <2>2, HotPlugSends
      <3> QED BY <2>2, <3>1, <3>2, AppendProperties
    <2> QED BY <2>1, <2>2, HotPlugSends
  <1> QED BY <1>1, <1>2, <1>3 DEF OwnershipInv

LEMMA OwnershipKeeps == ASSUME ~Restarts, OwnershipInv, [Next]_vars PROVE OwnershipInv'
  <1>1. CASE UNCHANGED vars
    BY <1>1 DEF vars, OwnershipInv, TypeOK, OneReader, ReaderOfControl, FunctionForReader,
                SocketForReader
  <1>2. CASE StartListening \/ StopListening \/ FailStart
    BY <1>2, StartKeeps, StopKeeps, FailKeeps
  <1>3. CASE ControlStep
    BY <1>3, OpenKeeps, StartReaderKeeps, AssignKeeps, StoppingKeeps, JoinKeeps, ForgetKeeps
    DEF ControlStep
  <1>4. ASSUME NEW r \in Readers, ReaderStep(r) PROVE OwnershipInv'
    BY <1>4, ReaderKeeps
  <1>5. CASE HotPlug
    BY <1>5, HotPlugKeeps
  <1> QED BY <1>1, <1>2, <1>3, <1>4, <1>5 DEF Next

LEMMA Ownership == ASSUME ~Restarts PROVE Spec => []OwnershipInv
  <1>1. OwnershipInv /\ [Next]_vars => OwnershipInv'
    BY OwnershipKeeps
  <1> QED BY OwnershipInit, <1>1, PTL DEF Spec

(* A client that starts and stops in turn never has its callback emptied   *)
(* or replaced while a reader calls it, nor an empty one called.           *)
THEOREM CallbackIsSafe == ASSUME ~Restarts PROVE Spec => []NothingBreaks
  <1>1. OwnershipInv => NothingBreaks
    BY DEF OwnershipInv, TypeOK, NothingBreaks
  <1> QED BY Ownership, <1>1, PTL

-----------------------------------------------------------------------------
(* Where an event is: it goes from the kernel through a socket and a       *)
(* reader's hands to the client, and overtakes none on the way.            *)
SocketInOrder == \A r \in Readers :
    /\ \A i \in 1 .. Len(socket[r]) : socket[r][i].number <= events
    /\ \A i, j \in 1 .. Len(socket[r]) : i < j => socket[r][i].number < socket[r][j].number

HandInOrder == \A r \in Readers : reader[r].at = "call" =>
    /\ reader[r].event <= events
    /\ \A i \in 1 .. Len(socket[r]) : reader[r].event < socket[r][i].number
    /\ \A k \in 1 .. Len(heard) : heard[k].event < reader[r].event

HeardBefore ==
    /\ \A k \in 1 .. Len(heard) : heard[k].event <= events
    /\ \A r \in Readers : \A i \in 1 .. Len(socket[r]) : \A k \in 1 .. Len(heard) :
          heard[k].event < socket[r][i].number

HeardRises == \A i, j \in 1 .. Len(heard) : i < j => heard[i].event < heard[j].event

OrderInv == SocketInOrder /\ HandInOrder /\ HeardBefore /\ HeardRises

LEMMA Numbers ==
    /\ \A s \in Seq(Messages) :
          Len(s) \in Nat /\ \A i \in 1 .. Len(s) : s[i].number \in Nat
    /\ \A s \in Seq(Calls) :
          Len(s) \in Nat /\ \A i \in 1 .. Len(s) : s[i].event \in Nat
  <1>1. ASSUME NEW s \in Seq(Messages)
        PROVE  Len(s) \in Nat /\ \A i \in 1 .. Len(s) : s[i].number \in Nat
    <2>1. Len(s) \in Nat /\ \A i \in 1 .. Len(s) : s[i] \in Messages
      OBVIOUS
    <2> QED BY <2>1 DEF Messages
  <1>2. ASSUME NEW s \in Seq(Calls)
        PROVE  Len(s) \in Nat /\ \A i \in 1 .. Len(s) : s[i].event \in Nat
    <2>1. Len(s) \in Nat /\ \A i \in 1 .. Len(s) : s[i] \in Calls
      OBVIOUS
    <2> QED BY <2>1 DEF Calls
  <1> QED BY <1>1, <1>2

LEMMA OrderInit == Init => OrderInv
  BY DEF Init, OrderInv, SocketInOrder, HandInOrder, HeardBefore, HeardRises, NoThread

(* Steps that send, read and call back nothing keep the order, also when   *)
(* they empty a socket.                                                    *)
LEMMA OthersKeepOrder ==
    ASSUME OwnershipInv, OrderInv, UNCHANGED <<events, heard>>,
           \A r \in Readers : socket'[r] = socket[r] \/ socket'[r] = <<>>,
           \A r \in Readers : reader'[r].at = "call" =>
               reader[r].at = "call" /\ reader'[r].event = reader[r].event
    PROVE  OrderInv'
  <1>1. \A r \in Readers : Len(socket'[r]) = 0 \/ socket'[r] = socket[r]
    OBVIOUS
  <1>2. SocketInOrder'
    BY <1>1 DEF OrderInv, SocketInOrder
  <1>3. HandInOrder'
    BY <1>1 DEF OrderInv, HandInOrder
  <1>4. HeardBefore' /\ HeardRises'
    BY <1>1 DEF OrderInv, HeardBefore, HeardRises
  <1> QED BY <1>2, <1>3, <1>4 DEF OrderInv

(* A new message has the highest number so far.                            *)
LEMMA HotPlugKeepsOrder ==
    ASSUME OwnershipInv, OrderInv, HotPlug
    PROVE  OrderInv'
  <1>1. events' = events + 1 /\ UNCHANGED <<reader, heard>>
    BY HotPlugSends
  <1>2. PICK m \in Messages :
           /\ m.number = events + 1
           /\ \A r \in Readers : socket'[r] = socket[r] \/ socket'[r] = Append(socket[r], m)
    BY HotPlugSends
  <1>3. /\ events \in Nat
        /\ \A r \in Readers : socket[r] \in Seq(Messages) /\ reader[r].event \in Nat
        /\ \A k \in 1 .. Len(heard) : heard[k].event \in Nat
    <2>1. /\ reader \in [Readers -> ReaderStates] /\ socket \in [Readers -> Seq(Messages)]
          /\ events \in Nat /\ heard \in Seq(Calls)
      BY DEF OwnershipInv, TypeOK
    <2>2. \A r \in Readers : reader[r].event \in Nat
      BY <2>1 DEF ReaderStates
    <2> QED BY <2>1, <2>2, Numbers
  <1> DEFINE Old(r, i) == i \in 1 .. Len(socket[r]) /\ socket'[r][i] = socket[r][i]
             New(r, i) == i = Len(socket[r]) + 1 /\ socket'[r][i].number = events + 1
  <1>4. ASSUME NEW r \in Readers
        PROVE  /\ Len(socket[r]) \in Nat
               /\ \A i \in 1 .. Len(socket[r]) : socket[r][i].number \in Nat
               /\ \A i \in 1 .. Len(socket'[r]) : Old(r, i) \/ New(r, i)
    <2>1. Len(socket[r]) \in Nat /\ \A i \in 1 .. Len(socket[r]) : socket[r][i].number \in Nat
      BY <1>3, Numbers
    <2>2. CASE socket'[r] = socket[r]
      BY <2>1, <2>2
    <2>3. CASE socket'[r] = Append(socket[r], m)
      BY <1>2, <1>3, <2>1, <2>3, AppendProperties
    <2> QED BY <1>2, <2>1, <2>2, <2>3
  <1> HIDE DEF Old, New
  <1>5. SocketInOrder'
    <2> SUFFICES ASSUME NEW r \in Readers
                 PROVE  /\ \A i \in 1 .. Len(socket'[r]) : socket'[r][i].number <= events'
                        /\ \A i, j \in 1 .. Len(socket'[r]) :
                              i < j => socket'[r][i].number < socket'[r][j].number
      BY DEF SocketInOrder
    <2>1. /\ \A i \in 1 .. Len(socket[r]) : socket[r][i].number <= events
          /\ \A i, j \in 1 .. Len(socket[r]) : i < j => socket[r][i].number < socket[r][j].number
      BY DEF OrderInv, SocketInOrder
    <2>2. ASSUME NEW i \in 1 .. Len(socket'[r]) PROVE socket'[r][i].number <= events'
      BY <1>1, <1>3, <1>4, <2>1 DEF Old, New
    <2>3. ASSUME NEW i \in 1 .. Len(socket'[r]), NEW j \in 1 .. Len(socket'[r]), i < j
          PROVE  socket'[r][i].number < socket'[r][j].number
      <3>1. Old(r, i)
        BY <1>4, <2>3 DEF Old, New
      <3>2. socket'[r][i].number <= events /\ socket'[r][i].number \in Nat
        BY <1>4, <2>1, <3>1 DEF Old
      <3>3. CASE Old(r, j)
        BY <2>1, <2>3, <3>1, <3>3 DEF Old
      <3>4. CASE New(r, j)
        BY <1>3, <3>2, <3>4 DEF New
      <3> QED BY <1>4, <3>3, <3>4
    <2> QED BY <2>2, <2>3
  <1>6. HandInOrder'
    <2> SUFFICES ASSUME NEW r \in Readers, reader[r].at = "call"
                 PROVE  /\ reader[r].event <= events'
                        /\ \A i \in 1 .. Len(socket'[r]) : reader[r].event < socket'[r][i].number
                        /\ \A k \in 1 .. Len(heard) : heard[k].event < reader[r].event
      BY <1>1 DEF HandInOrder
    <2>1. /\ reader[r].event <= events
          /\ \A i \in 1 .. Len(socket[r]) : reader[r].event < socket[r][i].number
          /\ \A k \in 1 .. Len(heard) : heard[k].event < reader[r].event
      BY DEF OrderInv, HandInOrder
    <2> QED BY <1>1, <1>3, <1>4, <2>1 DEF Old, New
  <1>7. HeardBefore'
    <2>1. \A k \in 1 .. Len(heard) : heard[k].event <= events
      BY DEF OrderInv, HeardBefore
    <2>2. ASSUME NEW r \in Readers, NEW i \in 1 .. Len(socket'[r]), NEW k \in 1 .. Len(heard)
          PROVE  heard[k].event < socket'[r][i].number
      <3>1. i \in 1 .. Len(socket[r]) => heard[k].event < socket[r][i].number
        BY DEF OrderInv, HeardBefore
      <3> QED BY <1>3, <1>4, <2>1, <3>1 DEF Old, New
    <2> QED BY <1>1, <1>3, <2>1, <2>2 DEF HeardBefore
  <1>8. HeardRises'
    BY <1>1 DEF OrderInv, HeardRises
  <1> QED BY <1>5, <1>6, <1>7, <1>8 DEF OrderInv

(* A reader takes the first message, which is before the rest.             *)
LEMMA ReadKeepsOrder ==
    ASSUME OwnershipInv, OrderInv, NEW r \in Readers, Read(r), ReadMessage(r)
    PROVE  OrderInv'
  <1>1. /\ socket[r] \in Seq(Messages) /\ socket[r] # <<>>
        /\ reader \in [Readers -> ReaderStates] /\ socket \in [Readers -> Seq(Messages)]
    BY DEF Read, OwnershipInv, TypeOK, SocketForReader
  <1>2. /\ socket' = [socket EXCEPT ![r] = Tail(socket[r])]
        /\ \E place \in {"call", "check"} :
              reader' = [reader EXCEPT ![r].at = place, ![r].event = Head(socket[r]).number]
        /\ UNCHANGED <<events, heard>>
    BY DEF Read, ReadMessage, Message
  <1>3. /\ Head(socket[r]) = socket[r][1] /\ Len(socket[r]) \in Nat \ {0}
        /\ Len(socket'[r]) = Len(socket[r]) - 1
        /\ \A i \in 1 .. Len(socket'[r]) :
              i + 1 \in 1 .. Len(socket[r]) /\ socket'[r][i] = socket[r][i + 1]
    <2>1. /\ Len(Tail(socket[r])) = Len(socket[r]) - 1 /\ Len(socket[r]) \in Nat \ {0}
          /\ \A i \in 1 .. Len(Tail(socket[r])) : Tail(socket[r])[i] = socket[r][i + 1]
      BY <1>1, HeadTailProperties
    <2>2. socket'[r] = Tail(socket[r]) /\ Head(socket[r]) = socket[r][1]
      BY <1>1, <1>2
    <2> QED BY <2>1, <2>2
  <1>4. \A q \in Readers \ {r} : socket'[q] = socket[q] /\ reader'[q] = reader[q]
    BY <1>1, <1>2
  <1>5. reader'[r].event = socket[r][1].number
    BY <1>1, <1>2, <1>3 DEF ReaderStates
  <1>6. SocketInOrder'
    <2>1. /\ \A i \in 1 .. Len(socket'[r]) : socket'[r][i].number <= events
          /\ \A i, j \in 1 .. Len(socket'[r]) : i < j => socket'[r][i].number < socket'[r][j].number
      <3>1. /\ \A i \in 1 .. Len(socket[r]) : socket[r][i].number <= events
            /\ \A i, j \in 1 .. Len(socket[r]) : i < j => socket[r][i].number < socket[r][j].number
        BY DEF OrderInv, SocketInOrder
      <3>2. \A i, j \in 1 .. Len(socket'[r]) : i < j => i + 1 < j + 1
        BY <1>3
      <3> QED BY <1>3, <3>1, <3>2
    <2> QED BY <1>2, <1>4, <2>1 DEF OrderInv, SocketInOrder
  <1>7. HandInOrder'
    <2>1. /\ reader'[r].event <= events
          /\ \A i \in 1 .. Len(socket'[r]) : reader'[r].event < socket'[r][i].number
          /\ \A k \in 1 .. Len(heard) : heard[k].event < reader'[r].event
      <3>1. /\ \A i \in 1 .. Len(socket[r]) : socket[r][i].number <= events
            /\ \A i, j \in 1 .. Len(socket[r]) : i < j => socket[r][i].number < socket[r][j].number
            /\ \A i \in 1 .. Len(socket[r]) : \A k \in 1 .. Len(heard) :
                  heard[k].event < socket[r][i].number
        BY DEF OrderInv, SocketInOrder, HeardBefore
      <3>2. 1 \in 1 .. Len(socket[r]) /\ \A i \in 1 .. Len(socket'[r]) : 1 < i + 1
        BY <1>3
      <3> QED BY <1>3, <1>5, <3>1, <3>2
    <2> QED BY <1>2, <1>4, <2>1 DEF OrderInv, HandInOrder
  <1>8. HeardBefore' /\ HeardRises'
    <2>1. \A i \in 1 .. Len(socket'[r]) : \A k \in 1 .. Len(heard) :
             heard[k].event < socket'[r][i].number
      <3>1. \A i \in 1 .. Len(socket[r]) : \A k \in 1 .. Len(heard) :
               heard[k].event < socket[r][i].number
        BY DEF OrderInv, HeardBefore
      <3> QED BY <1>3, <3>1
    <2> QED BY <1>2, <1>4, <2>1 DEF OrderInv, HeardBefore, HeardRises
  <1> QED BY <1>6, <1>7, <1>8 DEF OrderInv

(* What a reader has in its hands is after all that was heard and before   *)
(* all that is in the only socket that holds something.                    *)
LEMMA CallKeepsOrder ==
    ASSUME OwnershipInv, OrderInv, NEW r \in Readers, Call(r)
    PROVE  OrderInv'
  <1> DEFINE h == [callback |-> callback, event |-> reader[r].event]
  <1>1. /\ reader[r].at = "call" /\ callback \in Callbacks /\ callback # NoCallback
        /\ \A q \in Readers \ {r} : reader[q].at = "none" /\ socket[q] = <<>>
    BY RunningReader DEF Call, OwnershipInv, SocketForReader
  <1>2. /\ reader' = [reader EXCEPT ![r].at = "calling"]
        /\ heard' = Append(heard, h)
        /\ UNCHANGED <<socket, events>>
    BY <1>1 DEF Call, MoveTo
  <1>3. /\ reader \in [Readers -> ReaderStates] /\ h \in Calls
        /\ heard \in Seq(Calls)
    BY <1>1 DEF OwnershipInv, TypeOK, ReaderStates, Calls
  <1>4. /\ Len(heard) \in Nat /\ Len(heard') = Len(heard) + 1
        /\ \A k \in 1 .. Len(heard) : heard'[k] = heard[k]
        /\ heard'[Len(heard) + 1].event = reader[r].event
    BY <1>2, <1>3, AppendProperties
  <1>5. \A q \in Readers : reader'[q].at # "call"
    BY <1>1, <1>2, <1>3 DEF ReaderStates
  <1>6. SocketInOrder' /\ HandInOrder'
    BY <1>2, <1>5 DEF OrderInv, SocketInOrder, HandInOrder
  <1>7. HeardBefore'
    <2>1. \A k \in 1 .. Len(heard') : k \in 1 .. Len(heard) \/ k = Len(heard) + 1
      BY <1>4
    <2>2. \A q \in Readers : q = r \/ Len(socket[q]) = 0
      BY <1>1
    <2> QED BY <1>1, <1>2, <1>4, <2>1, <2>2 DEF OrderInv, HeardBefore, HandInOrder
  <1>8. HeardRises'
    BY <1>1, <1>4 DEF OrderInv, HandInOrder, HeardRises
  <1> QED BY <1>6, <1>7, <1>8 DEF OrderInv

LEMMA ControlKeepsOrder ==
    ASSUME OwnershipInv, OrderInv, StartListening \/ StopListening \/ FailStart \/ ControlStep
    PROVE  OrderInv'
  <1>1. reader \in [Readers -> ReaderStates] /\ socket \in [Readers -> Seq(Messages)]
    BY DEF OwnershipInv, TypeOK
  <1>2. CASE StartListening \/ StopListening \/ AssignReader \/ ForgetCallback
    <2>1. UNCHANGED <<reader, socket, events, heard>>
      BY <1>2 DEF StartListening, StopListening, AssignReader, ForgetCallback
    <2> QED BY <2>1, OthersKeepOrder
  <1>3. CASE FailStart
    <2>1. /\ UNCHANGED <<events, heard>>
          /\ \A r \in Readers : socket'[r] = socket[r] \/ socket'[r] = <<>>
          /\ \A r \in Readers : reader'[r].at # "call"
      BY <1>3, FailKeeps DEF FailStart
    <2> QED BY <2>1, OthersKeepOrder
  <1>4. CASE OpenSocket
    <2>1. PICK r \in Readers : reader' = [reader EXCEPT ![r] = [NoThread EXCEPT !.at = "new"]]
      BY <1>4 DEF OpenSocket
    <2>2. \A q \in Readers : reader'[q].at = "call" => reader'[q] = reader[q]
      BY <1>1, <2>1 DEF NoThread
    <2>3. UNCHANGED <<socket, events, heard>>
      BY <1>4 DEF OpenSocket
    <2> QED BY <2>2, <2>3, OthersKeepOrder
  <1>5. CASE StartReader
    <2>1. \A q \in Readers : reader'[q].at = "call" => reader'[q] = reader[q]
      BY <1>1, <1>5 DEF StartReader
    <2>2. UNCHANGED <<socket, events, heard>>
      BY <1>5 DEF StartReader
    <2> QED BY <2>1, <2>2, OthersKeepOrder
  <1>6. CASE ClearRunning \/ CloseEpoll
    <2>1. CASE ClearRunning
      <3>1. \A q \in Readers : reader'[q].at = reader[q].at /\ reader'[q].event = reader[q].event
        BY <1>1, <2>1 DEF ClearRunning, ReaderStates
      <3> QED BY <2>1, <3>1, OthersKeepOrder DEF ClearRunning
    <2>2. CASE CloseEpoll
      <3>1. \A q \in Readers : reader'[q].at = reader[q].at /\ reader'[q].event = reader[q].event
        BY <1>1, <2>2 DEF CloseEpoll, ReaderStates
      <3> QED BY <2>2, <3>1, OthersKeepOrder DEF CloseEpoll
    <2> QED BY <1>6, <2>1, <2>2
  <1>7. CASE JoinReader
    <2>1. /\ UNCHANGED <<events, heard>>
          /\ \A r \in Readers : socket'[r] = socket[r] \/ socket'[r] = <<>>
          /\ \A r \in Readers : reader'[r].at # "call"
      BY <1>1, <1>7, JoinKeeps DEF JoinReader
    <2> QED BY <2>1, OthersKeepOrder
  <1> QED BY <1>2, <1>3, <1>4, <1>5, <1>6, <1>7 DEF ControlStep

LEMMA ReaderKeepsOrder ==
    ASSUME OwnershipInv, OrderInv, NEW r \in Readers, ReaderStep(r)
    PROVE  OrderInv'
  <1>1. CASE Read(r) /\ ReadMessage(r)
    BY <1>1, ReadKeepsOrder
  <1>2. CASE Call(r)
    BY <1>2, CallKeepsOrder
  <1>3. CASE Check(r) \/ Wait(r) \/ (Read(r) /\ ReadError(r)) \/ Return(r)
    <2>1. reader \in [Readers -> ReaderStates]
      BY DEF OwnershipInv, TypeOK
    <2>2. \A q \in Readers : reader'[q].at = "call" => reader'[q] = reader[q]
      BY <1>3, <2>1 DEF Check, Wait, ReadError, Return, MoveTo, ReaderStates
    <2>3. UNCHANGED <<socket, events, heard>>
      BY <1>3 DEF Check, Wait, Read, ReadError, Return
    <2> QED BY <2>2, <2>3, OthersKeepOrder
  <1> QED BY <1>1, <1>2, <1>3 DEF ReaderStep, Read

(* Events are called back in the order the kernel sent them, once each,    *)
(* across all periods of listening and whatever a full socket loses.       *)
THEOREM OrderIsKept == ASSUME ~Restarts PROVE Spec => []HeardInOrder
  <1>1. OwnershipInv /\ OrderInv /\ [Next]_vars => OrderInv'
    <2> SUFFICES ASSUME OwnershipInv, OrderInv, [Next]_vars PROVE OrderInv'
      OBVIOUS
    <2>1. CASE UNCHANGED vars
      BY <2>1 DEF vars, OrderInv, SocketInOrder, HandInOrder, HeardBefore, HeardRises
    <2>2. CASE StartListening \/ StopListening \/ FailStart \/ ControlStep
      BY <2>2, ControlKeepsOrder
    <2>3. ASSUME NEW r \in Readers, ReaderStep(r) PROVE OrderInv'
      BY <2>3, ReaderKeepsOrder
    <2>4. CASE HotPlug
      BY <2>4, HotPlugKeepsOrder
    <2> QED BY <2>1, <2>2, <2>3, <2>4 DEF Next
  <1>2. OwnershipInv /\ OrderInv => HeardInOrder
    <2> SUFFICES ASSUME OwnershipInv, OrderInv PROVE HeardInOrder
      OBVIOUS
    <2>1. DOMAIN heard = 1 .. Len(heard)
      BY DEF OwnershipInv, TypeOK
    <2> QED BY <2>1 DEF OrderInv, HeardRises, HeardInOrder
  <1> QED BY Ownership, OrderInit, <1>1, <1>2, PTL DEF Spec

-----------------------------------------------------------------------------
(* The steps of the Linux service are those of the abstract one.           *)
LEMMA InitRefines == Init => Service!Init
  BY DEF Init, Service!Init, Phase, Calling, Idle, NoThread

LEMMA StartRefines ==
    ASSUME ~Restarts, OwnershipInv,
           StartListening \/ OpenSocket \/ StartReader \/ AssignReader \/ FailStart
    PROVE  Service!Next \/ UNCHANGED Service!avars
  <1>1. control \in Controls /\ reader \in [Readers -> ReaderStates]
    BY DEF OwnershipInv, TypeOK
  <1>2. CASE StartListening
    <2>1. Phase = "stopped" /\ Phase' = "starting" /\ reader' = reader
      BY <1>2 DEF StartListening, Phase, Idle
    <2>2. Service!Start
      BY <2>1 DEF Service!Start, Calling
    <2> QED BY <2>2 DEF Service!Next
  <1>3. CASE OpenSocket
    <2>1. Phase' = Phase
      BY <1>3 DEF OpenSocket, Phase
    <2>2. PICK r \in Readers :
             reader[r].at = "none" /\ reader' = [reader EXCEPT ![r] = [NoThread EXCEPT !.at = "new"]]
      BY <1>3 DEF OpenSocket
    <2>3. (\E q \in Readers : Calling(q))' <=> \E q \in Readers : Calling(q)
      BY <1>1, <2>2 DEF Calling, NoThread
    <2> QED BY <2>1, <2>3 DEF Service!avars
  <1>4. CASE StartReader
    <2>1. Phase' = Phase
      BY <1>1, <1>4 DEF StartReader, Phase, Controls
    <2>2. control.reader \in Readers /\ reader[control.reader].at = "new"
      BY <1>1, <1>4, NullAssumption DEF StartReader, Controls, OwnershipInv, ReaderOfControl
    <2>3. (\E q \in Readers : Calling(q))' <=> \E q \in Readers : Calling(q)
      BY <1>1, <1>4, <2>2 DEF StartReader, Calling
    <2> QED BY <2>1, <2>3 DEF Service!avars
  <1>5. CASE AssignReader
    <2>1. control.reader \in Readers /\ netlink = NoReader /\ control.at = "assigning"
      BY <1>1, <1>5 DEF AssignReader, Controls, OwnershipInv, OneReader, Idle
    <2>2. Phase = "starting" /\ Phase' = "listening" /\ reader' = reader
      BY <1>5, <2>1, NullAssumption DEF AssignReader, Phase, Idle
    <2>3. Service!Started
      BY <2>2 DEF Service!Started, Calling
    <2> QED BY <2>3 DEF Service!Next
  <1>6. CASE FailStart
    <2>1. Phase = "starting" /\ netlink = NoReader
      BY <1>6 DEF FailStart, Phase, OwnershipInv, OneReader, Idle
    <2>2. Phase' = "stopped"
      BY <1>6, <2>1 DEF FailStart, Phase, Idle
    <2>3. /\ ~\E r \in Readers : Calling(r)
          /\ ~(\E r \in Readers : Calling(r))'
      BY <1>6, FailKeeps DEF Calling
    <2>4. Service!StartFailed
      BY <2>1, <2>2, <2>3 DEF Service!StartFailed
    <2> QED BY <2>4 DEF Service!Next
  <1> QED BY <1>2, <1>3, <1>4, <1>5, <1>6

LEMMA StopRefines ==
    ASSUME OwnershipInv, StopListening \/ ClearRunning \/ CloseEpoll \/ JoinReader \/ ForgetCallback
    PROVE  Service!Next \/ UNCHANGED Service!avars
  <1>1. control \in Controls /\ reader \in [Readers -> ReaderStates]
    BY DEF OwnershipInv, TypeOK
  <1>2. CASE StopListening
    <2>1. reader' = reader /\ control = Idle
      BY <1>2 DEF StopListening
    <2>2. CASE netlink = NoReader
      <3>1. \A r \in Readers : reader[r].at = "none"
        BY <2>1, <2>2, NobodyRuns DEF Idle
      <3>2. Phase = "stopped" /\ Phase' = "stopped"
        BY <1>2, <2>1, <2>2, <3>1 DEF StopListening, Phase, Idle
      <3> QED BY <2>1, <3>2 DEF Service!avars, Calling
    <2>3. CASE netlink # NoReader
      <3>1. Phase = "listening" /\ Phase' = "stopping"
        BY <1>2, <2>1, <2>3 DEF StopListening, Phase, Idle
      <3>2. Service!Stop
        BY <2>1, <3>1 DEF Service!Stop, Calling
      <3> QED BY <3>2 DEF Service!Next
    <2> QED BY <2>2, <2>3
  <1>3. CASE ClearRunning
    <2>1. Phase' = Phase
      BY <1>1, <1>3 DEF ClearRunning, Phase, Controls
    <2>2. \A r \in Readers : reader'[r].at = reader[r].at
      BY <1>1, <1>3 DEF ClearRunning, ReaderStates
    <2> QED BY <2>1, <2>2 DEF Service!avars, Calling
  <1>4. CASE CloseEpoll
    <2>1. Phase' = Phase
      BY <1>1, <1>4 DEF CloseEpoll, Phase, Controls
    <2>2. \A r \in Readers : reader'[r].at = reader[r].at
      BY <1>1, <1>4 DEF CloseEpoll, ReaderStates
    <2> QED BY <2>1, <2>2 DEF Service!avars, Calling
  <1>5. CASE JoinReader
    <2>1. \A r \in Readers : reader[r].at \in {"none", "exited"} /\ reader'[r].at = "none"
      BY <1>5, JoinKeeps
    <2>2. Phase = "stopping"
      BY <1>5 DEF JoinReader, Phase
    <2>3. Phase' = "stopped"
      BY <1>1, <1>5, <2>1 DEF JoinReader, Phase, Controls, Idle
    <2>4. Service!Stopped
      BY <2>1, <2>2, <2>3 DEF Service!Stopped, Calling
    <2> QED BY <2>4 DEF Service!Next
  <1>6. CASE ForgetCallback
    <2>1. \A r \in Readers : reader[r].at = "none"
      BY <1>6, ForgetKeeps
    <2>2. Phase = "stopped" /\ Phase' = "stopped" /\ reader' = reader
      BY <1>6, <2>1 DEF ForgetCallback, Phase, Idle, OwnershipInv, OneReader
    <2> QED BY <2>2 DEF Service!avars, Calling
  <1> QED BY <1>2, <1>3, <1>4, <1>5, <1>6

(* With one reader, the one that steps is the one that calls or does not.  *)
LEMMA ReaderRefines ==
    ASSUME OwnershipInv, NEW r \in Readers, ReaderStep(r)
    PROVE  Service!Next \/ UNCHANGED Service!avars
  <1>1. /\ reader[r].at \notin {"none", "new"} /\ reader'[r].at # "none"
        /\ \A q \in Readers \ {r} : reader'[q] = reader[q] /\ reader[q].at = "none"
        /\ UNCHANGED <<control, netlink>>
    <2>1. /\ reader[r].at \in {"check", "wait", "read", "call", "calling"}
          /\ reader'[r].at \in {"check", "wait", "read", "call", "calling", "exited"}
          /\ \A q \in Readers \ {r} : reader'[q] = reader[q]
          /\ UNCHANGED <<control, netlink>>
      BY ReaderSteps
    <2>2. reader[r].at \notin {"none", "new", "exited"}
      BY <2>1
    <2>3. \A q \in Readers \ {r} : reader[q].at = "none"
      BY <2>2, RunningReader
    <2> QED BY <2>1, <2>3
  <1>2. Phase' = Phase /\ Phase # "stopped"
    <2>1. control = Idle => netlink # NoReader
      BY <1>1, RunningReader, NullAssumption DEF Idle
    <2>2. control.at # "idle" => control.at \in {"assigning", "clearing", "closing", "joining"}
      BY <1>1, RunningReader DEF Idle
    <2>3. control.at = "idle" => control = Idle
      BY DEF OwnershipInv, TypeOK, Controls, Idle
    <2> QED BY <1>1, <2>1, <2>2, <2>3 DEF Phase
  <1>3. /\ (\E q \in Readers : Calling(q)) <=> Calling(r)
        /\ (\E q \in Readers : Calling(q))' <=> Calling(r)'
    BY <1>1 DEF Calling
  <1>4. CASE Call(r)
    <2>1. ~Calling(r) /\ Calling(r)'
      <3>1. reader' = [reader EXCEPT ![r].at = "calling"] /\ reader[r].at = "call"
        BY <1>1, <1>4, RunningReader DEF Call, MoveTo
      <3> QED BY <3>1 DEF Calling, OwnershipInv, TypeOK, ReaderStates
    <2>2. Service!CallBack
      BY <1>2, <1>3, <2>1 DEF Service!CallBack
    <2> QED BY <2>2 DEF Service!Next
  <1>5. CASE Return(r)
    <2>1. Calling(r) /\ ~Calling(r)'
      BY <1>5 DEF Return, MoveTo, Calling, OwnershipInv, TypeOK, ReaderStates
    <2>2. Service!Return
      BY <1>2, <1>3, <2>1 DEF Service!Return
    <2> QED BY <2>2 DEF Service!Next
  <1>6. CASE Check(r) \/ Wait(r) \/ Read(r)
    <2>1. ~Calling(r) /\ ~Calling(r)'
      BY <1>6
      DEF Check, Wait, Read, ReadError, ReadMessage, MoveTo, Calling, OwnershipInv, TypeOK, ReaderStates
    <2> QED BY <1>2, <1>3, <2>1 DEF Service!avars
  <1> QED BY <1>4, <1>5, <1>6 DEF ReaderStep

(* The Linux service, too, implements IUsbService: it calls its client     *)
(* back only between start and stop, and by one thread.                    *)
THEOREM ServiceRefinement == ASSUME ~Restarts PROVE Spec => ImplementsService
  <1>1. OwnershipInv /\ [Next]_vars => [Service!Next]_(Service!avars)
    <2> SUFFICES ASSUME OwnershipInv, [Next]_vars PROVE Service!Next \/ UNCHANGED Service!avars
      OBVIOUS
    <2>1. CASE UNCHANGED vars
      BY <2>1 DEF vars, Service!avars, Phase, Calling
    <2>2. CASE StartListening \/ StopListening \/ FailStart \/ ControlStep
      BY <2>2, StartRefines, StopRefines DEF ControlStep
    <2>3. ASSUME NEW r \in Readers, ReaderStep(r) PROVE Service!Next \/ UNCHANGED Service!avars
      BY <2>3, ReaderRefines
    <2>4. CASE HotPlug
      BY <2>4, HotPlugSends DEF Service!avars, Phase, Calling
    <2> QED BY <2>1, <2>2, <2>3, <2>4 DEF Next
  <1> QED BY InitRefines, Ownership, <1>1, PTL DEF Spec, ImplementsService, Service!Spec

-----------------------------------------------------------------------------
(* The Windows service.                                                    *)
WinTypeOK ==
    /\ winControl \in {"idle", "creating", "awaiting", "posting", "joining"}
    /\ handle \in BOOLEAN /\ quit \in BOOLEAN
    /\ winCallback \in Clients \cup {NoCallback}
    /\ promise \in {"none", "pending", "true", "false"}
    /\ worker \in {"none", "starting", "made", "failed", "pumping", "calling", "exited"}

Serving == worker \in {"pumping", "calling"}

(* The client's thread and the window's are in step: the promise says how  *)
(* far the window's thread has come, and only a stop asks it to end.       *)
InStep ==
    /\ winControl = "idle" => quit = FALSE /\ IF handle THEN Serving /\ promise = "true"
                                           ELSE worker = "none"
    /\ winControl = "creating" => ~quit /\ ~handle /\ worker = "none" /\ promise = "pending"
    /\ winControl = "awaiting" =>
          /\ ~quit
          /\ handle \/ worker = "none"
          /\ \/ worker \in {"none", "starting", "made", "failed"} /\ promise = "pending"
             \/ handle /\ Serving /\ promise = "true"
             \/ worker = "exited" /\ promise = "false"
    /\ winControl = "posting" => ~quit /\ handle /\ Serving /\ promise = "true"
    /\ winControl = "joining" =>
          \/ promise = "false" /\ worker = "exited" /\ ~quit
          \/ promise = "true" /\ Serving /\ quit
          \/ promise = "true" /\ worker = "exited" /\ ~quit

(* A window has the function of the start that made it.                    *)
WindowIsTheClients ==
    /\ winControl # "idle" \/ handle => winCallback \in Clients
    /\ worker = "made" \/ Serving => windowCallback = winCallback

WinInv == WinTypeOK /\ InStep /\ WindowIsTheClients

LEMMA WinInit == Win!Init => WinInv
  BY DEF Win!Init, WinInv, WinTypeOK, InStep, Serving, WindowIsTheClients

LEMMA WinControlKeeps ==
    ASSUME WinInv, Win!StartListening \/ Win!StopListening \/ Win!ControlStep
    PROVE  WinInv'
  <1> USE DEF WinInv, WinTypeOK, InStep, Serving, WindowIsTheClients,
              Win!workerVars, Win!messageVars
  <1>1. CASE Win!StartListening
    BY <1>1 DEF Win!StartListening
  <1>2. CASE Win!CreateThread
    BY <1>2 DEF Win!CreateThread
  <1>3. CASE Win!AwaitPromise
    BY <1>3 DEF Win!AwaitPromise
  <1>4. CASE Win!StopListening
    BY <1>4 DEF Win!StopListening
  <1>5. CASE Win!PostQuit
    BY <1>5 DEF Win!PostQuit
  <1>6. CASE Win!JoinThread
    BY <1>6 DEF Win!JoinThread
  <1> QED BY <1>1, <1>2, <1>3, <1>4, <1>5, <1>6 DEF Win!ControlStep

LEMMA WinWorkerKeeps ==
    ASSUME WinInv, Win!WorkerStep \/ Win!DeviceChange
    PROVE  WinInv'
  <1> USE DEF WinInv, WinTypeOK, InStep, Serving, WindowIsTheClients,
              Win!controlVars, Win!workerVars, Win!messageVars
  <1>1. CASE Win!MakeWindow
    BY <1>1 DEF Win!MakeWindow
  <1>2. CASE Win!KeepPromise
    BY <1>2 DEF Win!KeepPromise
  <1>3. CASE Win!CallBack
    BY <1>3 DEF Win!CallBack
  <1>4. CASE Win!Return
    BY <1>4 DEF Win!Return
  <1>5. CASE Win!Quit
    BY <1>5 DEF Win!Quit
  <1>6. CASE Win!DeviceChange
    BY <1>6 DEF Win!DeviceChange
  <1> QED BY <1>1, <1>2, <1>3, <1>4, <1>5, <1>6 DEF Win!WorkerStep

LEMMA WinStepKeeps == ASSUME WinInv, [Win!Next]_(Win!vars) PROVE WinInv'
  <1>1. CASE UNCHANGED Win!vars
    BY <1>1 DEF Win!vars, WinInv, WinTypeOK, InStep, Serving, WindowIsTheClients
  <1> QED BY <1>1, WinControlKeeps, WinWorkerKeeps DEF Win!Next

LEMMA WinInvariance == Win!Spec => []WinInv
  <1>1. WinInv /\ [Win!Next]_(Win!vars) => WinInv'
    BY WinStepKeeps
  <1> QED BY WinInit, <1>1, PTL DEF Win!Spec

(* Each listening period calls its own client's function.                  *)
LEMMA CallsTheRightClient == Win!Spec => []Win!CallsItsClient
  <1>1. WinInv => Win!CallsItsClient
    BY DEF WinInv, WinTypeOK, InStep, Serving, WindowIsTheClients, Win!CallsItsClient
  <1> QED BY WinInvariance, <1>1, PTL

-----------------------------------------------------------------------------
(* The steps of the Windows service are those of the abstract one: the     *)
(* client's calls change its phase, the window's thread calls back in it.  *)
LEMMA WinInitRefines == Win!Init => Win!Service!Init
  BY DEF Win!Init, Win!Service!Init, Win!Phase

LEMMA WinControlRefines ==
    ASSUME WinInv, Win!StartListening \/ Win!StopListening \/ Win!ControlStep
    PROVE  Win!Service!Next \/ UNCHANGED Win!Service!avars
  <1> USE DEF WinInv, WinTypeOK, InStep, Serving, Win!Service!avars, Win!Phase,
              Win!workerVars, Win!messageVars
  <1>1. CASE Win!StartListening
    <2>1. Win!Service!Start
      BY <1>1 DEF Win!StartListening, Win!Service!Start
    <2> QED BY <2>1 DEF Win!Service!Next
  <1>2. CASE Win!CreateThread
    BY <1>2 DEF Win!CreateThread
  <1>3. CASE Win!AwaitPromise
    <2>1. Win!Service!Started \/ UNCHANGED Win!Service!avars
      BY <1>3 DEF Win!AwaitPromise, Win!Service!Started
    <2> QED BY <2>1 DEF Win!Service!Next
  <1>4. CASE Win!StopListening
    <2>1. Win!Service!Stop
      BY <1>4 DEF Win!StopListening, Win!Service!Stop
    <2> QED BY <2>1 DEF Win!Service!Next
  <1>5. CASE Win!PostQuit
    BY <1>5 DEF Win!PostQuit
  <1>6. CASE Win!JoinThread
    <2>1. Win!Service!StartFailed \/ Win!Service!Stopped
      BY <1>6 DEF Win!JoinThread, Win!Service!StartFailed, Win!Service!Stopped
    <2> QED BY <2>1 DEF Win!Service!Next
  <1> QED BY <1>1, <1>2, <1>3, <1>4, <1>5, <1>6 DEF Win!ControlStep

LEMMA WinWorkerRefines ==
    ASSUME WinInv, Win!WorkerStep \/ Win!DeviceChange
    PROVE  Win!Service!Next \/ UNCHANGED Win!Service!avars
  <1> USE DEF WinInv, WinTypeOK, InStep, Serving, Win!Service!avars, Win!Phase,
              Win!controlVars, Win!workerVars, Win!messageVars
  <1>1. CASE Win!MakeWindow
    BY <1>1 DEF Win!MakeWindow
  <1>2. CASE Win!KeepPromise
    BY <1>2 DEF Win!KeepPromise
  <1>3. CASE Win!CallBack
    <2>1. Win!Service!CallBack
      BY <1>3 DEF Win!CallBack, Win!Service!CallBack
    <2> QED BY <2>1 DEF Win!Service!Next
  <1>4. CASE Win!Return
    <2>1. Win!Service!Return
      BY <1>4 DEF Win!Return, Win!Service!Return
    <2> QED BY <2>1 DEF Win!Service!Next
  <1>5. CASE Win!Quit
    BY <1>5 DEF Win!Quit
  <1>6. CASE Win!DeviceChange
    BY <1>6 DEF Win!DeviceChange
  <1> QED BY <1>1, <1>2, <1>3, <1>4, <1>5, <1>6 DEF Win!WorkerStep

(* The service calls its client back only between start and stop, and from *)
(* one thread: the Windows service implements IUsbService.                 *)
LEMMA WinRefinement == Win!Spec => Win!ImplementsService
  <1>1. WinInv /\ [Win!Next]_(Win!vars) => [Win!Service!Next]_(Win!Service!avars)
    <2>1. CASE UNCHANGED Win!vars
      BY <2>1 DEF Win!vars, Win!Service!avars, Win!Phase
    <2> QED BY <2>1, WinControlRefines, WinWorkerRefines DEF Win!Next
  <1> QED
    BY WinInitRefines, WinInvariance, <1>1, PTL
    DEF Win!Spec, Win!ImplementsService, Win!Service!Spec

-----------------------------------------------------------------------------
(* The transfers.  A handle value that no repeated wait() has touched has  *)
(* an owner from its event's creation until the owner's wait closes it,    *)
(* and is not closed twice.                                                *)
Owning == {"created", "future", "refused", "waiting", "closing"}

TransfersTypeOK ==
    /\ table \in [Handles -> Transfers \cup {Free}]
    /\ io \in [Transfers -> {"none", "pending", "done", "failed"}]
    /\ at \in [Transfers -> Owning \cup {"none", "returned"}]
    /\ hEvent \in [Transfers -> Handles \cup {NoHandle}]
    /\ waits \in [Transfers -> Nat]
    /\ found \in [Transfers -> Transfers \cup {Free}]
    /\ outcome \in [Transfers -> {"none", "bytes", "failed", "nothing", "invalid", "alerted"}]

(* Nobody has waited twice with this value.                                *)
Clean(h) == \A u \in Transfers : hEvent[u] = h => waits[u] <= 1

(* Holds of every value: only its creator is ever found behind it.         *)
DenotesItsCreator == \A h \in Handles : table[h] # Free => hEvent[table[h]] = h

OwnedWhileInUse == \A h \in Handles : Clean(h) =>
    /\ table[h] # Free => at[table[h]] \in Owning
    /\ \A t \in Transfers : hEvent[t] = h /\ at[t] \in Owning => table[h] = t

(* A read has no event only where it never comes to a wait.                *)
EventOrWrite == \A t \in Transfers :
    /\ at[t] = "none" => hEvent[t] = NoHandle /\ waits[t] = 0
    /\ at[t] \in {"created", "future", "waiting", "closing", "returned"} =>
          hEvent[t] # NoHandle \/ t \in Writes
    /\ at[t] \in {"created", "future", "refused"} => waits[t] = 0
    /\ at[t] \in {"waiting", "closing", "returned"} => waits[t] >= 1

FindsItsOwn == \A t \in Transfers : at[t] = "waiting" =>
    /\ hEvent[t] = NoHandle => found[t] = Free
    /\ hEvent[t] # NoHandle /\ Clean(hEvent[t]) => found[t] = t

OutcomeIsTrue(t) ==
    \/ outcome[t] = "bytes" /\ io[t] = "done" /\ hEvent[t] # NoHandle
    \/ outcome[t] = "failed" /\ io[t] = "failed" /\ hEvent[t] # NoHandle
    \/ outcome[t] = "alerted" /\ hEvent[t] # NoHandle
    \/ outcome[t] = "invalid" /\ hEvent[t] = NoHandle

KnowsOutcome == \A t \in Transfers :
    at[t] \in {"closing", "returned"} /\ (hEvent[t] = NoHandle \/ Clean(hEvent[t])) => OutcomeIsTrue(t)

TransfersInv ==
    /\ TransfersTypeOK /\ DenotesItsCreator /\ OwnedWhileInUse
    /\ EventOrWrite /\ FindsItsOwn /\ KnowsOutcome

LEMMA TransfersInit == Overlapped!NamesAssumption /\ Overlapped!Init => TransfersInv
  BY DEF Overlapped!NamesAssumption, Overlapped!Init, TransfersInv, TransfersTypeOK, DenotesItsCreator,
         OwnedWhileInUse, EventOrWrite, FindsItsOwn, KnowsOutcome, Owning

LEMMA CreateEventKeeps ==
    ASSUME Overlapped!NamesAssumption, TransfersInv,
           NEW t \in Transfers, Overlapped!CreateEvent(t)
    PROVE  TransfersInv'
  <1>1. at[t] = "none" /\ hEvent[t] = NoHandle /\ waits[t] = 0 /\ UNCHANGED <<io, waits, found, outcome>>
    BY DEF Overlapped!CreateEvent, TransfersInv, EventOrWrite
  <1>2. CASE \E h \in Handles :
                /\ table[h] = Free
                /\ table' = [table EXCEPT ![h] = t]
                /\ hEvent' = [hEvent EXCEPT ![t] = h]
                /\ at' = [at EXCEPT ![t] = "created"]
    <2>1. PICK h \in Handles :
             /\ table[h] = Free
             /\ table' = [table EXCEPT ![h] = t]
             /\ hEvent' = [hEvent EXCEPT ![t] = h]
             /\ at' = [at EXCEPT ![t] = "created"]
      BY <1>2
    <2>2. t # Free /\ h # NoHandle /\ \A g \in Handles : table[g] # t
      BY <1>1 DEF Overlapped!NamesAssumption, TransfersInv, DenotesItsCreator
    <2>3. TransfersTypeOK' /\ DenotesItsCreator'
      BY <2>1, <2>2, <1>1 DEF TransfersInv, TransfersTypeOK, DenotesItsCreator, Owning
    <2>4. \A g \in Handles : Clean(g)' => Clean(g)
      BY <2>1, <2>2, <1>1 DEF TransfersInv, TransfersTypeOK, Clean
    <2>5. OwnedWhileInUse'
      <3>1. ASSUME NEW g \in Handles, Clean(g)
            PROVE  /\ table'[g] # Free => at'[table'[g]] \in Owning
                   /\ \A u \in Transfers : hEvent'[u] = g /\ at'[u] \in Owning => table'[g] = u
        <4>1. /\ table[g] # Free => at[table[g]] \in Owning
              /\ \A u \in Transfers : hEvent[u] = g /\ at[u] \in Owning => table[g] = u
          BY <3>1 DEF TransfersInv, OwnedWhileInUse
        <4>2. CASE g = h
          BY <2>1, <2>2, <4>1, <4>2 DEF Overlapped!NamesAssumption, TransfersInv, TransfersTypeOK, Owning
        <4>3. CASE g # h
          BY <2>1, <2>2, <1>1, <4>1, <4>3 DEF TransfersInv, TransfersTypeOK, Owning
        <4> QED BY <4>2, <4>3
      <3> QED BY <3>1, <2>4 DEF OwnedWhileInUse
    <2>6. EventOrWrite'
      BY <2>1, <2>2, <1>1 DEF TransfersInv, TransfersTypeOK, EventOrWrite
    <2>7. FindsItsOwn' /\ KnowsOutcome'
      BY <2>1, <2>2, <2>4, <1>1
      DEF TransfersInv, TransfersTypeOK, FindsItsOwn, KnowsOutcome, OutcomeIsTrue
    <2> QED BY <2>3, <2>5, <2>6, <2>7 DEF TransfersInv
  <1>3. CASE /\ at' = [at EXCEPT ![t] = IF t \in Writes THEN "created" ELSE "refused"]
             /\ UNCHANGED <<table, hEvent>>
    <2>1. \A g : Clean(g)' <=> Clean(g)
      BY <1>1, <1>3 DEF Clean
    <2>2. TransfersTypeOK' /\ DenotesItsCreator'
      BY <1>1, <1>3 DEF TransfersInv, TransfersTypeOK, DenotesItsCreator, Owning
    <2>3. OwnedWhileInUse'
      BY <1>1, <1>3, <2>1
      DEF Overlapped!NamesAssumption, TransfersInv, TransfersTypeOK, OwnedWhileInUse, DenotesItsCreator, Owning
    <2>4. EventOrWrite' /\ FindsItsOwn' /\ KnowsOutcome'
      BY <1>1, <1>3, <2>1
      DEF TransfersInv, TransfersTypeOK, EventOrWrite, FindsItsOwn, KnowsOutcome, OutcomeIsTrue
    <2> QED BY <2>2, <2>3, <2>4 DEF TransfersInv
  <1> QED BY <1>2, <1>3 DEF Overlapped!CreateEvent, Overlapped!Go

LEMMA SubmitKeeps ==
    ASSUME TransfersInv, NEW t \in Transfers, Overlapped!Submit(t)
    PROVE  TransfersInv'
  <1>1. /\ at[t] = "created" /\ UNCHANGED <<table, hEvent, waits, found, outcome>>
        /\ \/ io' = [io EXCEPT ![t] = "pending"] /\ at' = [at EXCEPT ![t] = "future"]
           \/ io' = io /\ at' = [at EXCEPT ![t] = "refused"]
    BY DEF Overlapped!Submit, Overlapped!Go
  <1>2. \A g : Clean(g)' <=> Clean(g)
    BY <1>1 DEF Clean
  <1>3. TransfersTypeOK' /\ DenotesItsCreator' /\ OwnedWhileInUse'
    BY <1>1, <1>2 DEF TransfersInv, TransfersTypeOK, DenotesItsCreator, OwnedWhileInUse, Owning
  <1>4. EventOrWrite' /\ FindsItsOwn' /\ KnowsOutcome'
    BY <1>1, <1>2
    DEF TransfersInv, TransfersTypeOK, EventOrWrite, FindsItsOwn, KnowsOutcome, OutcomeIsTrue
  <1> QED BY <1>3, <1>4 DEF TransfersInv

(* A second wait() only makes its own value unclean.                       *)
LEMMA WaitKeeps ==
    ASSUME Overlapped!NamesAssumption, TransfersInv, NEW t \in Transfers, Overlapped!Wait(t)
    PROVE  TransfersInv'
  <1>1. /\ at[t] \in {"future", "returned"}
        /\ at' = [at EXCEPT ![t] = "waiting"] /\ waits' = [waits EXCEPT ![t] = @ + 1]
        /\ found' = [found EXCEPT ![t] = IF hEvent[t] = NoHandle THEN Free ELSE table[hEvent[t]]]
        /\ UNCHANGED <<table, io, hEvent, outcome>>
    BY DEF Overlapped!Wait, Overlapped!Go, Overlapped!Denotes
  <1>2. \A g : Clean(g)' => Clean(g)
    BY <1>1 DEF TransfersInv, TransfersTypeOK, Clean
  <1>3. Clean(hEvent[t])' => at[t] = "future"
    BY <1>1 DEF TransfersInv, TransfersTypeOK, Clean, EventOrWrite
  <1>4. TransfersTypeOK' /\ DenotesItsCreator'
    BY <1>1 DEF TransfersInv, TransfersTypeOK, DenotesItsCreator, Owning
  <1>5. OwnedWhileInUse'
    BY <1>1, <1>2, <1>3 DEF TransfersInv, TransfersTypeOK, OwnedWhileInUse, Owning
  <1>6. EventOrWrite'
    BY <1>1 DEF TransfersInv, TransfersTypeOK, EventOrWrite
  <1>7. FindsItsOwn'
    BY <1>1, <1>2, <1>3
    DEF Overlapped!NamesAssumption, TransfersInv, TransfersTypeOK, OwnedWhileInUse, FindsItsOwn, Owning
  <1>8. KnowsOutcome'
    BY <1>1, <1>2 DEF TransfersInv, TransfersTypeOK, KnowsOutcome, OutcomeIsTrue
  <1> QED BY <1>4, <1>5, <1>6, <1>7, <1>8 DEF TransfersInv

(* Waking, whatever the outcome, and the hardware leave the events alone.  *)
LEMMA WakeKeeps ==
    ASSUME Overlapped!NamesAssumption, TransfersInv, NEW t \in Transfers,
           Overlapped!Wake(t) \/ Overlapped!Alert(t)
    PROVE  TransfersInv'
  <1>1. PICK result \in {"bytes", "failed", "nothing", "invalid", "alerted"} :
           /\ at[t] = "waiting" /\ at' = [at EXCEPT ![t] = "closing"]
           /\ outcome' = [outcome EXCEPT ![t] = result]
           /\ found' = [found EXCEPT ![t] = Free]
           /\ UNCHANGED <<table, io, hEvent, waits>>
           /\ \/ found[t] = Free /\ result = "invalid"
              \/ found[t] # Free /\ result = "alerted"
              \/ /\ found[t] # Free /\ io[found[t]] \in {"done", "failed"}
                 /\ result = IF io[t] = "done" THEN "bytes"
                             ELSE IF io[t] = "failed" THEN "failed" ELSE "nothing"
    BY DEF Overlapped!Wake, Overlapped!Alert, Overlapped!End, Overlapped!Go, Overlapped!Signalled
  <1>2. \A g : Clean(g)' <=> Clean(g)
    BY <1>1 DEF Clean
  <1>3. TransfersTypeOK' /\ DenotesItsCreator' /\ OwnedWhileInUse'
    BY <1>1, <1>2 DEF TransfersInv, TransfersTypeOK, DenotesItsCreator, OwnedWhileInUse, Owning
  <1>4. EventOrWrite' /\ FindsItsOwn'
    BY <1>1, <1>2 DEF TransfersInv, TransfersTypeOK, EventOrWrite, FindsItsOwn
  <1>5. ASSUME NEW u \in Transfers, at'[u] \in {"closing", "returned"},
               hEvent[u] = NoHandle \/ Clean(hEvent[u])
        PROVE  OutcomeIsTrue(u)'
    <2>1. CASE u # t
      BY <1>1, <1>5, <2>1 DEF TransfersInv, TransfersTypeOK, KnowsOutcome, OutcomeIsTrue
    <2>2. CASE u = t
      <3>1. outcome'[t] = result
        BY <1>1 DEF TransfersInv, TransfersTypeOK
      <3>2. /\ hEvent[t] = NoHandle => found[t] = Free
            /\ hEvent[t] # NoHandle => found[t] = t /\ t # Free
        BY <1>1, <1>5, <2>2 DEF Overlapped!NamesAssumption, TransfersInv, FindsItsOwn
      <3> QED BY <1>1, <2>2, <3>1, <3>2 DEF OutcomeIsTrue
    <2> QED BY <2>1, <2>2
  <1>6. KnowsOutcome'
    BY <1>1, <1>2, <1>5 DEF KnowsOutcome
  <1> QED BY <1>3, <1>4, <1>6 DEF TransfersInv

LEMMA CompleteKeeps ==
    ASSUME TransfersInv, NEW t \in Transfers, Overlapped!Complete(t)
    PROVE  TransfersInv'
  <1>1. /\ io[t] = "pending" /\ UNCHANGED <<table, at, hEvent, waits, found, outcome>>
        /\ \/ io' = [io EXCEPT ![t] = "done"]
           \/ io' = [io EXCEPT ![t] = "failed"]
    BY DEF Overlapped!Complete
  <1>2. \A g : Clean(g)' <=> Clean(g)
    BY <1>1 DEF Clean
  <1>3. TransfersTypeOK' /\ DenotesItsCreator' /\ OwnedWhileInUse'
    BY <1>1, <1>2 DEF TransfersInv, TransfersTypeOK, DenotesItsCreator, OwnedWhileInUse
  <1>4. EventOrWrite' /\ FindsItsOwn' /\ KnowsOutcome'
    BY <1>1, <1>2
    DEF TransfersInv, TransfersTypeOK, EventOrWrite, FindsItsOwn, KnowsOutcome, OutcomeIsTrue
  <1> QED BY <1>3, <1>4 DEF TransfersInv

(* A clean value is closed by its owner; closing an unclean one leaves all *)
(* the clean ones alone.                                                   *)
LEMMA CloseKeeps ==
    ASSUME Overlapped!NamesAssumption, TransfersInv, NEW t \in Transfers, Overlapped!Close(t)
    PROVE  TransfersInv'
  <1>1. /\ at[t] = "closing" /\ at' = [at EXCEPT ![t] = "returned"]
        /\ table' = IF hEvent[t] = NoHandle THEN table ELSE [table EXCEPT ![hEvent[t]] = Free]
        /\ UNCHANGED <<io, hEvent, waits, found, outcome>>
    BY DEF Overlapped!Close, Overlapped!CloseHandle, Overlapped!Go
  <1>2. \A g : Clean(g)' <=> Clean(g)
    BY <1>1 DEF Clean
  <1>3. TransfersTypeOK' /\ DenotesItsCreator'
    BY <1>1 DEF TransfersInv, TransfersTypeOK, DenotesItsCreator, Owning
  <1>4. ASSUME NEW h \in Handles, Clean(h)
        PROVE  /\ table'[h] # Free => at'[table'[h]] \in Owning
               /\ \A u \in Transfers : hEvent[u] = h /\ at'[u] \in Owning => table'[h] = u
    <2>1. /\ table[h] # Free => at[table[h]] \in Owning /\ hEvent[table[h]] = h
          /\ \A u \in Transfers : hEvent[u] = h /\ at[u] \in Owning => table[h] = u
      BY <1>4 DEF TransfersInv, OwnedWhileInUse, DenotesItsCreator
    <2>2. CASE hEvent[t] = h
      <3>1. table[h] = t /\ table'[h] = Free
        BY <1>1, <2>1, <2>2 DEF Overlapped!NamesAssumption, TransfersInv, TransfersTypeOK, Owning
      <3> QED BY <1>1, <2>1, <2>2, <3>1 DEF TransfersInv, TransfersTypeOK, Owning
    <2>3. CASE hEvent[t] # h
      <3>1. table'[h] = table[h] /\ table[h] # t
        BY <1>1, <2>1, <2>3 DEF Overlapped!NamesAssumption, TransfersInv, TransfersTypeOK
      <3> QED BY <1>1, <2>1, <2>3, <3>1 DEF TransfersInv, TransfersTypeOK, Owning
    <2> QED BY <2>2, <2>3
  <1>5. OwnedWhileInUse'
    BY <1>1, <1>2, <1>4 DEF OwnedWhileInUse
  <1>6. EventOrWrite' /\ FindsItsOwn' /\ KnowsOutcome'
    BY <1>1, <1>2
    DEF TransfersInv, TransfersTypeOK, EventOrWrite, FindsItsOwn, KnowsOutcome, OutcomeIsTrue
  <1> QED BY <1>3, <1>5, <1>6 DEF TransfersInv

LEMMA TransfersInvariance ==
    ASSUME Overlapped!NamesAssumption
    PROVE  Overlapped!Spec => []TransfersInv
  <1>1. TransfersInv /\ [Overlapped!Next]_(Overlapped!vars) => TransfersInv'
    <2> SUFFICES ASSUME TransfersInv, [Overlapped!Next]_(Overlapped!vars) PROVE TransfersInv'
      OBVIOUS
    <2>1. CASE UNCHANGED Overlapped!vars
      <3>1. \A g : Clean(g)' <=> Clean(g)
        BY <2>1 DEF Overlapped!vars, Clean
      <3> QED
        BY <2>1, <3>1 DEF Overlapped!vars, TransfersInv, TransfersTypeOK, DenotesItsCreator,
               OwnedWhileInUse, EventOrWrite, FindsItsOwn, KnowsOutcome, OutcomeIsTrue
    <2>2. ASSUME NEW t \in Transfers, Overlapped!ClientStep(t) \/ Overlapped!Complete(t)
          PROVE  TransfersInv'
      BY <2>2, CreateEventKeeps, SubmitKeeps, WaitKeeps, WakeKeeps, CompleteKeeps, CloseKeeps
      DEF Overlapped!ClientStep
    <2> QED BY <2>1, <2>2 DEF Overlapped!Next
  <1> QED BY TransfersInit, <1>1, PTL DEF Overlapped!Spec

(* From the ownership of the values that no repeated wait() has touched.   *)
LEMMA EventsAreOwned ==
    ASSUME Overlapped!NamesAssumption
    PROVE  Overlapped!Spec => []Overlapped!WaitsForItself
  <1>1. ASSUME TransfersInv, NEW t \in Transfers, ~Overlapped!Disturbed(t)
        PROVE  /\ at[t] \in {"created", "future", "waiting", "closing"} =>
                     hEvent[t] = NoHandle \/ table[hEvent[t]] = t
               /\ at[t] = "waiting" /\ hEvent[t] # NoHandle => found[t] = t
               /\ at[t] = "returned" => /\ OutcomeIsTrue(t)
                                        /\ hEvent[t] # NoHandle \/ t \in Writes
                                        /\ \A h \in Handles : table[h] # t
    <2>1. hEvent[t] = NoHandle \/ (hEvent[t] \in Handles /\ Clean(hEvent[t]))
      BY <1>1 DEF Overlapped!Disturbed, TransfersInv, TransfersTypeOK, Clean
    <2>2. \A h \in Handles : table[h] = t => h = hEvent[t] /\ h # NoHandle /\ (Clean(h) => at[t] \in Owning)
      BY <1>1 DEF Overlapped!NamesAssumption, TransfersInv, DenotesItsCreator, OwnedWhileInUse
    <2> QED
      BY <1>1, <2>1, <2>2
      DEF TransfersInv, OwnedWhileInUse, EventOrWrite, FindsItsOwn, KnowsOutcome, Owning
  <1>2. TransfersInv => Overlapped!WaitsForItself
    BY <1>1 DEF Overlapped!WaitsForItself, OutcomeIsTrue
  <1> QED BY TransfersInvariance, <1>2, PTL

-----------------------------------------------------------------------------
(* A behaviour of the three together is a behaviour of each.               *)
LEMMA PartsBehave == HostSpec => Spec /\ Win!Spec /\ Overlapped!Spec
  <1> DEFINE hostVars == <<part, vars, winVars, transferVars>>
  <1>1. HostInit => Init /\ Win!Init /\ Overlapped!Init
    BY DEF HostInit
  <1>2. [HostNext]_hostVars => [Next]_vars
    BY DEF HostNext
  <1>3. [HostNext]_hostVars => [Win!Next]_(Win!vars)
    BY DEF HostNext, winVars, Win!vars
  <1>4. [HostNext]_hostVars => [Overlapped!Next]_(Overlapped!vars)
    BY DEF HostNext, transferVars, Overlapped!vars
  <1> QED BY <1>1, <1>2, <1>3, <1>4, PTL DEF HostSpec, Spec, Win!Spec, Overlapped!Spec

(* Each listening period of the Windows service calls its own client.      *)
THEOREM ClientIsItsOwn == HostSpec => []CallsItsClient
  BY PartsBehave, CallsTheRightClient, PTL DEF CallsItsClient

(* A transfer whose handle value nobody waits with twice: the value is its *)
(* own event's, whatever values Windows gives to the others and whatever   *)
(* the others do twice; its wait answers for it, or throws when something  *)
(* else alerts it or a write has no event, and the event does not outlive  *)
(* the wait.                                                               *)
THEOREM WaitIsItsOwn == HostSpec => []WaitsForItself
  <1>1. Overlapped!NamesAssumption
    BY PartsAssumption
  <1> QED BY PartsBehave, <1>1, EventsAreOwned, PTL DEF WaitsForItself

(* Both services call their client back only between start and stop, and   *)
(* from one thread: they implement IUsbService.                            *)
THEOREM ServicesRefine == ASSUME ~Restarts PROVE HostSpec => ServicesImplementAbstract
  BY PartsBehave, ServiceRefinement, WinRefinement, PTL DEF ServicesImplementAbstract
=============================================================================
