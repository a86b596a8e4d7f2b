------------------------------ MODULE RawInput ------------------------------
(***************************************************************************)
(* Input/: Windows queues the raw reports of a mouse and a keyboard for a  *)
(* hidden window; strobe() pumps the queue dry and then turns the states   *)
(* of keys and buttons into edges and the motion into one delta.  Windows, *)
(* its queue and the devices are modelled from the calls made to them.     *)
(***************************************************************************)
EXTENDS Integers, Sequences

CONSTANTS
    Buttons,        \* mouse buttons, out of 0 .. 4
    PlainKeys,      \* keys of the keyboard
    ExtendedKeys,   \* keys whose scan code has the prefix E0
    MaxQueue,       \* bounds the reports that wait
    MaxMotion       \* bounds the position of the mouse

Keys == PlainKeys \cup ExtendedKeys

(* What is assumed of the constants.                                       *)
ControlsAssumption ==
    Buttons \subseteq 0 .. 4 /\ Buttons \cap Keys = {} /\ PlainKeys \cap ExtendedKeys = {}

Controls == Buttons \cup Keys

VARIABLES
    inputQueue,     \* the WM_INPUT messages
    pumping,        \* strobe() is in its message loop
    keyStates,      \* _key_states of the mouse and of the keyboard
    keyPrevious,    \* _key_states_previous
    keyPressed,     \* _key_pressed
    keyReleased,    \* _key_released
    integral,       \* _deltax_integral
    delta,          \* _deltax
    down,           \* what is down on the devices themselves
    position,       \* where the mouse has been moved
    known,          \* what a client that follows the edges holds to be down
    travelled,      \* the sum of the deltas a client has read
    fresh           \* nothing has happened since the last strobe()

deviceVars == <<keyStates, keyPrevious, keyPressed, keyReleased, integral, delta>>
vars == <<inputQueue, pumping, deviceVars, down, position, known, travelled, fresh>>

AllUp == [c \in Controls |-> FALSE]

(* The devices are enumerated once; KeysStateManager() clears all states.  *)
Init ==
    /\ inputQueue = <<>>
    /\ pumping = FALSE
    /\ keyStates = AllUp /\ keyPrevious = AllUp
    /\ keyPressed = AllUp /\ keyReleased = AllUp
    /\ integral = 0 /\ delta = 0
    /\ down = AllUp
    /\ position = 0
    /\ known = AllUp
    /\ travelled = 0
    /\ fresh = FALSE

-----------------------------------------------------------------------------
(* A report of the mouse: the motion, and in ulButtons two bits for every  *)
(* button, then the wheel's.  A report of a key: its flags are a bit for   *)
(* the break and one for E0.                                               *)
DownBit(i) == 2^(2 * i)
UpBit(i) == 2 * 2^(2 * i)
WheelBit == 2^10
BitIsSet(word, bit) == (word \div bit) % 2 = 1

MouseReports ==
    [from : {"mouse"}, dx : {-1, 1}, ulButtons : {WheelBit}]
    \cup {[from |-> "mouse", dx |-> 0,
           ulButtons |-> IF down[b] THEN UpBit(b) ELSE DownBit(b)] : b \in Buttons}

BreakFlags == 1
E0 == 2
KeyReports ==
    {[from |-> "keyboard", key |-> k,
      flags |-> (IF down[k] THEN BreakFlags ELSE 0) + (IF k \in ExtendedKeys THEN E0 ELSE 0)] : k \in Keys}

(* A device that was plugged in after the enumeration reports as well.     *)
StrangerReports == {[from |-> "stranger"]}

Report(r) ==
    /\ Len(inputQueue) < MaxQueue
    /\ r.from = "mouse" => position + r.dx \in -MaxMotion .. MaxMotion
    /\ inputQueue' = Append(inputQueue, r)
    /\ position' = IF r.from = "mouse" THEN position + r.dx ELSE position
    /\ down' = [c \in Controls |->
          IF \/ r.from = "keyboard" /\ r.key = c
             \/ r.from = "mouse" /\ c \in Buttons /\ (BitIsSet(r.ulButtons, DownBit(c)) \/ BitIsSet(r.ulButtons, UpBit(c)))
          THEN ~down[c] ELSE down[c]]
    /\ fresh' = FALSE
    /\ UNCHANGED <<pumping, deviceVars, known, travelled>>

-----------------------------------------------------------------------------
BeginStrobe ==
    /\ ~pumping
    /\ pumping' = TRUE
    /\ fresh' = FALSE
    /\ UNCHANGED <<inputQueue, deviceVars, down, position, known, travelled>>

(* Mouse::ApplyInput: both bits of each button are looked at.              *)
ApplyMouse(r) ==
    /\ r.from = "mouse"
    /\ integral' = integral + r.dx
    /\ keyStates' = [c \in Controls |->
          IF c \in Buttons /\ BitIsSet(r.ulButtons, UpBit(c)) THEN FALSE
          ELSE IF c \in Buttons /\ BitIsSet(r.ulButtons, DownBit(c)) THEN TRUE
          ELSE keyStates[c]]

(* Keyboard::ApplyInput compares the flags with RI_KEY_BREAK.              *)
IsBreak(flags) == flags = BreakFlags

ApplyKeyboard(r) ==
    /\ r.from = "keyboard"
    /\ keyStates' = [keyStates EXCEPT ![r.key] = ~IsBreak(r.flags)]
    /\ UNCHANGED integral

(* wnd_proc finds the device by its handle and drops what it cannot place. *)
Dispatch ==
    /\ pumping
    /\ inputQueue # <<>>
    /\ inputQueue' = Tail(inputQueue)
    /\ \/ ApplyMouse(Head(inputQueue))
       \/ ApplyKeyboard(Head(inputQueue))
       \/ Head(inputQueue).from = "stranger" /\ UNCHANGED <<keyStates, integral>>
    /\ UNCHANGED <<pumping, keyPrevious, keyPressed, keyReleased, delta, down, position, known, travelled, fresh>>

(* The devices are strobed when the queue is dry; then the client reads    *)
(* GetKeyPressed, GetKeyReleased and GetDx of everything.                  *)
DeltasKept == delta' = integral /\ UNCHANGED integral
Deltas == delta' = integral /\ integral' = 0

StrobeDevices ==
    /\ pumping
    /\ inputQueue = <<>>
    /\ pumping' = FALSE
    /\ keyPressed' = [c \in Controls |-> keyStates[c] /\ ~keyPrevious[c]]
    /\ keyReleased' = [c \in Controls |-> ~keyStates[c] /\ keyPrevious[c]]
    /\ keyPrevious' = keyStates
    /\ Deltas
    /\ known' = [c \in Controls |-> (known[c] \/ keyPressed'[c]) /\ ~keyReleased'[c]]
    /\ travelled' = travelled + delta'
    /\ fresh' = TRUE
    /\ UNCHANGED <<inputQueue, keyStates, down, position>>

Next ==
    \/ \E r \in MouseReports \cup KeyReports \cup StrangerReports : Report(r)
    \/ BeginStrobe \/ Dispatch \/ StrobeDevices

Spec == Init /\ [][Next]_vars

-----------------------------------------------------------------------------
(* Right after strobe() a client that only ever read edges and deltas knows*)
(* which plain keys and buttons are down and where the mouse is, whatever  *)
(* reports came while the queue was pumped and whichever device sent them. *)
EdgesTellStates == fresh =>
    /\ \A c \in Buttons \cup PlainKeys : known[c] = down[c]
    /\ travelled = position

(* "if now pressed": _key_states of every key is whether it is pressed,    *)
(* once its reports have been taken from the queue.                        *)
StatesAreNow == fresh => \A c \in Controls : keyStates[c] = down[c]
=============================================================================
