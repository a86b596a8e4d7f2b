------------------------ MODULE UsbHostDevice_proofs ------------------------
(***************************************************************************)
(* The safety of UsbHostDevice for any number of transfers and endpoints   *)
(* and buffers of any size.  ClientsWait is what the code leaves to the    *)
(* clients: they wait for their transfers before they give them up, and    *)
(* destroy the device after its transfers.  The theorems are about the     *)
(* behaviours in which no later block of a transfer is refused: of one     *)
(* that is, an earlier block may have finished that the reaper still uses. *)
(***************************************************************************)
EXTENDS UsbHostDevice, FiniteSetTheorems, SequenceTheorems, WellFoundedInduction, TLAPS

ClientsWait ==
    /\ ~ClosesInUse
    /\ Drops \subseteq {"returned", "threw"}

(* A constructor gives up after it has submitted at least one block.       *)
LaterBlockRefused == \E t \in Transfers :
    client[t].at = "discard" /\ Len(object[t].urb) > 1

-----------------------------------------------------------------------------
Blocks == [transfer : Transfers, index : Nat \ {0}]
Answers == [urb : Blocks, status : {"ok", "error"}, actual : Nat]
Flags == {"ZeroPacket", "BulkContinuation", "ShortNotOk"}
Urbs == [length : Nat, flags : SUBSET Flags, userContext : BOOLEAN,
         status : {"none", "ok", "error"}, actual : Nat, notified : Nat]
Fields == [size : Nat, urb : Seq(Urbs), finishedUrbCount : Nat, finishedBytes : Nat,
           error : BOOLEAN, locked : BOOLEAN]
Clients ==
    [at : {"none", "emplace", "submit", "ready", "blocked", "woken", "threw", "destroyed"}]
    \cup [at : {"discard", "forget"}, next : Nat \ {0}]
    \cup [at : {"returned"}, bytes : Nat]
Reapers ==
    [at : {"poll", "reap", "dispatch", "notify", "exited"}]
    \cup [at : {"discard"}, next : Nat \ {0}]

TypeOK ==
    /\ pending \in [Endpoints -> Seq(Blocks)]
    /\ completed \in Seq(Answers)
    /\ plugged \in BOOLEAN
    /\ object \in [Transfers -> Fields]
    /\ client \in [Transfers -> Clients]
    /\ reaper \in Reapers
    /\ context \in Blocks \cup {NoUrb}
    /\ errno \in {"none", "EBADF", "EINVAL"}
    /\ device \in {"open", "cleared", "epollReset", "fdClosed", "stopped", "joined"}
    /\ running \in BOOLEAN

(* A transfer that its client has not got back.                            *)
Live(t) == client[t].at \in {"emplace", "submit", "ready", "blocked", "woken"}

(* The block the reaper has got from the kernel.                           *)
InHand(u) == reaper.at \in {"dispatch", "notify"} /\ context = u

(* The vector grows up to the plan's length while the constructor runs.    *)
Planned(t) ==
    LET o == object[t]
        at == client[t].at
    IN  /\ \A i \in DOMAIN o.urb : /\ o.urb[i].length = UrbLength(o.size, i)
                                   /\ o.urb[i].flags = UrbFlags(o.size, Dir(t), i)
        /\ Len(o.urb) <= UrbCount(o.size)
        /\ at = "none" => o = NoObject
        /\ at = "emplace" => Len(o.urb) < UrbCount(o.size)
        /\ at = "submit" => /\ Len(o.urb) >= 1
                            /\ o.urb[Len(o.urb)].status = "none" /\ o.urb[Len(o.urb)].notified = 0
        /\ at \in {"ready", "blocked", "woken", "returned", "threw"} => Len(o.urb) = UrbCount(o.size)
        /\ at \in {"discard", "forget"} => Len(o.urb) = 1 /\ ~o.error
        /\ at = "forget" => client[t].next = 1

(* What the object counts, as long as no block was seen to have failed.    *)
Actuals(urb) == [i \in DOMAIN urb |-> urb[i].actual]
Counted(t) ==
    LET o == object[t]
    IN  /\ o.finishedUrbCount <= Len(o.urb)
        /\ o.finishedBytes = Total(Actuals(o.urb), o.finishedUrbCount)
        /\ \A i \in DOMAIN o.urb :
              /\ o.urb[i].notified = (IF i <= o.finishedUrbCount THEN 1 ELSE 0)
              /\ i <= o.finishedUrbCount => o.urb[i].status = "ok"
              /\ client[t].at \notin {"discard", "forget", "destroyed"} => o.urb[i].userContext

(* What a client has been told.                                            *)
Told(t) ==
    LET o == object[t]
    IN  /\ o.error => Failed(t)
        /\ client[t].at = "threw" => o.error
        /\ client[t].at = "returned" =>
              /\ ~o.error
              /\ o.finishedUrbCount = Len(o.urb)
              /\ client[t].bytes = o.finishedBytes

(* Only the last block of a transfer comes back short.                     *)
Full(u, n) == LET size == object[u.transfer].size
              IN  ~IsLast(size, u.index) => n = UrbLength(size, u.index)
FullUnlessLast(t) == \A i \in DOMAIN object[t].urb :
    object[t].urb[i].status = "ok" => Full(Urb(t, i), object[t].urb[i].actual)

-----------------------------------------------------------------------------
(* A block in the kernel is one that its live object has submitted and not *)
(* been notified of; after a failure the client may be through.            *)
OnItsWay(u) ==
    LET o == object[u.transfer]
    IN  /\ u.index \in DOMAIN o.urb
        /\ o.urb[u.index].status = "none" /\ o.urb[u.index].notified = 0
        /\ client[u.transfer].at = "submit" => u.index # Len(o.urb)
        /\ ~o.error => Live(u.transfer)

PendingOK == \A e \in Endpoints :
    /\ \A j \in DOMAIN pending[e] : OnItsWay(pending[e][j]) /\ EndpointOf[pending[e][j].transfer] = e
    /\ \A j, k \in DOMAIN pending[e] :
          j < k /\ pending[e][j].transfer = pending[e][k].transfer
              => pending[e][j].index < pending[e][k].index

CompletedOK ==
    /\ \A j \in DOMAIN completed :
          /\ OnItsWay(completed[j].urb) /\ completed[j].urb \notin InFlight
          /\ completed[j].status = "ok" => Full(completed[j].urb, completed[j].actual)
    /\ \A i, j \in DOMAIN completed : i # j => completed[i].urb # completed[j].urb

(* Blocks that come back well come back in their order.                    *)
Unfinished(t) == (object[t].finishedUrbCount + 1) .. Len(object[t].urb)
InOrder == \A j \in DOMAIN completed :
    LET t == completed[j].urb.transfer
    IN  completed[j].status = "ok" /\ ~object[t].error =>
            \A m \in (object[t].finishedUrbCount + 1) .. (completed[j].urb.index - 1) :
                InHand(Urb(t, m)) \/ \E i \in DOMAIN completed : i < j /\ completed[i].urb = Urb(t, m)

(* No block gets lost.                                                     *)
NothingLost == \A t \in Transfers :
    plugged /\ Live(t) /\ ~object[t].error =>
        \A m \in Unfinished(t) :
            \/ client[t].at = "submit" /\ m = Len(object[t].urb)
            \/ Urb(t, m) \in InFlight \cup Finished
            \/ InHand(Urb(t, m))

(* The block in the reaper's hand is the one its object counts next.       *)
HandOK == reaper.at \in {"dispatch", "notify"} =>
    LET o == object[context.transfer]
    IN  /\ context \in Blocks
        /\ Live(context.transfer)
        /\ context \notin InFlight \cup Finished
        /\ context.index \in DOMAIN o.urb
        /\ o.urb[context.index].status # "none" /\ o.urb[context.index].notified = 0
        /\ o.urb[context.index].status = "ok" => context.index = o.finishedUrbCount + 1

(* Once a block has failed errno tells, and the reaper reaps no more.      *)
ErrorsEnd ==
    /\ reaper.at \in {"reap", "dispatch", "notify"} => errno = "none"
    /\ reaper.at = "reap" => completed # <<>>
    /\ errno = "none" => \A t \in Transfers :
          object[t].error => reaper.at = "discard" /\ t = context.transfer
    /\ reaper.at = "discard" =>
          /\ context \in Blocks /\ context \notin InFlight
          /\ Live(context.transfer)
          /\ object[context.transfer].error /\ object[context.transfer].locked
          /\ context.index \in DOMAIN object[context.transfer].urb
          /\ object[context.transfer].urb[context.index].status = "error"
          /\ errno = "none" => reaper.next <= context.index

(* The device is destroyed after its transfers.                            *)
DestroyedLast == device # "open" => \A t \in Transfers : ~Live(t)

ObjectsOK == \A t \in Transfers :
    Planned(t) /\ (~object[t].error => Counted(t)) /\ Told(t) /\ FullUnlessLast(t)

IInv == /\ TypeOK /\ ObjectsOK
        /\ PendingOK /\ CompletedOK /\ InOrder /\ NothingLost
        /\ HandOK /\ ErrorsEnd /\ DestroyedLast /\ ~wild

-----------------------------------------------------------------------------
(* A nonempty set of natural numbers has a least element, and induction    *)
(* for sets of numbers.                                                    *)
LEMMA Least ==
    ASSUME NEW T, T \subseteq Nat, T # {}
    PROVE  \E x \in T : \A y \in T : x <= y
  <1>1. PICK x \in T : \A y \in T : ~(<<y, x>> \in OpToRel(<, Nat))
    BY NatLessThanWellFounded, WFMin
  <1>2. \A y \in T : ~(y < x)
    BY <1>1 DEF OpToRel
  <1> QED BY <1>2

LEMMA SetInduction ==
    ASSUME NEW T, 0 \in T, \A n \in Nat : n \in T => n + 1 \in T
    PROVE  Nat \subseteq T
  <1> DEFINE rest == Nat \ T
  <1>1. ASSUME rest # {} PROVE FALSE
    <2>1. PICK x \in rest : \A y \in rest : x <= y
      <3>1. rest \subseteq Nat
        OBVIOUS
      <3> HIDE DEF rest
      <3> QED BY <3>1, <1>1, Least
    <2>2. x # 0 /\ x \in Nat /\ x - 1 \in Nat
      BY <2>1
    <2>3. x - 1 \in T /\ (x - 1) + 1 \in T
      BY <2>1, <2>2
    <2> QED BY <2>1, <2>2, <2>3
  <1> QED BY <1>1

Step(s, g, i) == IF i = 0 THEN 0 ELSE g[i - 1] + s[i]
Sums(s, n, g) == g = [i \in 0 .. n |-> Step(s, g, i)]

(* The sums of a sequence exist up to every number, and agree where the    *)
(* sequences do: Total is what its recursion says.                         *)
LEMMA SumsExist ==
    ASSUME NEW s
    PROVE  \A n \in Nat : \E g : Sums(s, n, g)
  <1> DEFINE T == {n \in Nat : \E g : Sums(s, n, g)}
  <1>1. 0 \in T
    <2>1. Sums(s, 0, [i \in 0 .. 0 |-> 0])
      BY DEF Sums, Step
    <2> QED BY <2>1
  <1>2. ASSUME NEW n \in Nat, n \in T PROVE n + 1 \in T
    <2>1. PICK g : Sums(s, n, g)
      BY <1>2
    <2> DEFINE h == [i \in 0 .. (n + 1) |-> IF i = n + 1 THEN g[n] + s[n + 1] ELSE g[i]]
    <2>2. \A i \in 0 .. n : h[i] = g[i] /\ g[i] = Step(s, g, i)
      BY <2>1 DEF Sums
    <2>3. \A i \in 0 .. (n + 1) : h[i] = Step(s, h, i)
      <3> SUFFICES ASSUME NEW i \in 0 .. (n + 1) PROVE h[i] = Step(s, h, i)
        OBVIOUS
      <3>1. CASE i = 0
        <4>1. 0 \in 0 .. n /\ h[0] = Step(s, g, 0)
          BY <2>2
        <4> QED BY <3>1, <4>1 DEF Step
      <3>2. CASE i \in 1 .. n
        <4>1. i - 1 \in 0 .. n /\ i \in 0 .. n
          BY <3>2
        <4> QED BY <2>2, <3>2, <4>1 DEF Step
      <3>3. CASE i = n + 1
        <4>1. h[n + 1] = g[n] + s[n + 1] /\ h[n] = g[n] /\ (n + 1) - 1 = n /\ n + 1 # 0
          OBVIOUS
        <4> QED BY <3>3, <4>1 DEF Step
      <3> QED BY <3>1, <3>2, <3>3
    <2>4. Sums(s, n + 1, h)
      <3>1. h = [i \in 0 .. (n + 1) |-> h[i]]
        OBVIOUS
      <3> HIDE DEF h
      <3> QED BY <2>3, <3>1 DEF Sums
    <2> QED BY <2>4
  <1> HIDE DEF T
  <1>3. Nat \subseteq T
    BY <1>1, <1>2, SetInduction
  <1> QED BY <1>3 DEF T

LEMMA SumsAgree ==
    ASSUME NEW s, NEW r, NEW n \in Nat, NEW m \in Nat, NEW g, NEW h, Sums(s, n, g), Sums(r, m, h),
           NEW k \in Nat, k <= n, k <= m, \A i \in 1 .. k : s[i] = r[i]
    PROVE  g[k] = h[k]
  <1> DEFINE T == {i \in Nat : i <= k => g[i] = h[i]}
  <1>1. 0 \in T
    BY DEF Sums, Step
  <1>2. ASSUME NEW i \in Nat, i \in T PROVE i + 1 \in T
    <2>1. CASE i + 1 <= k
      <3>1. g[i] = h[i] /\ i + 1 \in 1 .. k /\ i + 1 \in 0 .. n /\ i + 1 \in 0 .. m /\ i + 1 # 0 /\ (i + 1) - 1 = i
        BY <1>2, <2>1
      <3>2. g[i + 1] = g[i] + s[i + 1] /\ h[i + 1] = h[i] + r[i + 1]
        BY <3>1 DEF Sums, Step
      <3> QED BY <3>1, <3>2
    <2>2. CASE ~(i + 1 <= k)
      BY <2>2
    <2> QED BY <2>1, <2>2
  <1> HIDE DEF T
  <1>3. k \in T
    BY <1>1, <1>2, SetInduction
  <1> QED BY <1>3 DEF T

LEMMA TotalExists ==
    ASSUME NEW s
    PROVE  \E g : g = [i \in Nat |-> IF i = 0 THEN 0 ELSE g[i - 1] + s[i]]
  <1> DEFINE part(n) == CHOOSE h : Sums(s, n, h)
             g == [n \in Nat |-> part(n)[n]]
  <1>1. \A n \in Nat : Sums(s, n, part(n))
    BY SumsExist
  <1>2. ASSUME NEW i \in Nat PROVE g[i] = Step(s, g, i)
    <2>1. CASE i = 0
      <3>1. Sums(s, 0, part(0)) /\ g[0] = part(0)[0] /\ 0 \in 0 .. 0
        BY <1>1
      <3> HIDE DEF part, g
      <3>2. part(0)[0] = 0
        BY <3>1 DEF Sums, Step
      <3> QED BY <2>1, <3>1, <3>2 DEF Step
    <2>2. CASE i # 0
      <3>1. i - 1 \in Nat /\ i \in 0 .. i /\ i - 1 \in 0 .. (i - 1)
        BY <2>2
      <3>2. part(i)[i] = part(i)[i - 1] + s[i]
        <4>1. Sums(s, i, part(i))
          BY <1>1
        <4> HIDE DEF part
        <4> QED BY <2>2, <3>1, <4>1 DEF Sums, Step
      <3>3. part(i)[i - 1] = part(i - 1)[i - 1]
        <4>1. Sums(s, i, part(i)) /\ Sums(s, i - 1, part(i - 1))
          BY <1>1, <3>1
        <4> HIDE DEF part
        <4> QED BY <3>1, <4>1, SumsAgree
      <3> HIDE DEF part
      <3> QED BY <2>2, <3>1, <3>2, <3>3 DEF Step
    <2> QED BY <2>1, <2>2
  <1>3. g = [i \in Nat |-> Step(s, g, i)]
    <2>1. g = [i \in Nat |-> g[i]]
      OBVIOUS
    <2> HIDE DEF g
    <2> QED BY <1>2, <2>1
  <1> HIDE DEF g
  <1> QED BY <1>3 DEF Step

LEMMA TotalSteps ==
    ASSUME NEW s
    PROVE  /\ Total(s, 0) = 0
           /\ \A n \in Nat : Total(s, n + 1) = Total(s, n) + s[n + 1]
  <1> DEFINE P(g) == g = [i \in Nat |-> IF i = 0 THEN 0 ELSE g[i - 1] + s[i]]
             total == CHOOSE g : P(g)
  <1>1. P(total)
    <2>1. \E g : P(g)
      BY TotalExists
    <2> HIDE DEF P
    <2> QED BY <2>1
  <1>2. \A n : Total(s, n) = total[n]
    BY DEF Total
  <1> HIDE DEF total
  <1>3. total[0] = 0 /\ \A n \in Nat : total[n + 1] = total[n] + s[n + 1]
    <2>1. \A i \in Nat : total[i] = IF i = 0 THEN 0 ELSE total[i - 1] + s[i]
      BY <1>1
    <2>2. \A n \in Nat : n + 1 \in Nat /\ n + 1 # 0 /\ (n + 1) - 1 = n
      OBVIOUS
    <2> HIDE DEF P
    <2> QED BY <2>1, <2>2
  <1> QED BY <1>2, <1>3

(* A sum depends on what is summed, and is a multiple of equal terms.      *)
LEMMA TotalIsLocal ==
    ASSUME NEW s, NEW r, NEW n \in Nat, \A i \in 1 .. n : s[i] = r[i]
    PROVE  Total(s, n) = Total(r, n)
  <1> DEFINE T == {i \in Nat : i <= n => Total(s, i) = Total(r, i)}
  <1>1. 0 \in T
    BY TotalSteps
  <1>2. ASSUME NEW i \in Nat, i \in T PROVE i + 1 \in T
    <2>1. Total(s, i + 1) = Total(s, i) + s[i + 1] /\ Total(r, i + 1) = Total(r, i) + r[i + 1]
      BY TotalSteps
    <2> QED BY <1>2, <2>1
  <1> HIDE DEF T
  <1>3. n \in T
    BY <1>1, <1>2, SetInduction
  <1> QED BY <1>3 DEF T

LEMMA TotalOfEqual ==
    ASSUME NEW s, NEW b \in Nat, NEW n \in Nat, \A i \in 1 .. n : s[i] = b
    PROVE  Total(s, n) = n * b
  <1> DEFINE T == {i \in Nat : i <= n => Total(s, i) = i * b}
  <1>1. 0 \in T
    BY TotalSteps
  <1>2. ASSUME NEW i \in Nat, i \in T PROVE i + 1 \in T
    <2>1. Total(s, i + 1) = Total(s, i) + s[i + 1]
      BY TotalSteps
    <2>2. (i + 1) * b = i * b + b
      OBVIOUS
    <2> QED BY <1>2, <2>1, <2>2
  <1> HIDE DEF T
  <1>3. n \in T
    BY <1>1, <1>2, SetInduction
  <1> QED BY <1>3 DEF T

(* What is left of a queue in its order.                                   *)
Thinned(r, s) == \E f \in [DOMAIN r -> DOMAIN s] :
    /\ \A j \in DOMAIN r : r[j] = s[f[j]]
    /\ \A j, k \in DOMAIN r : j < k => f[j] < f[k]

(* RemoveFirst takes the first of the elements asked for.                  *)
LEMMA FirstFound ==
    ASSUME NEW S, NEW s \in Seq(S), NEW u, u \in ToSet(s)
    PROVE  \E i \in 1 .. Len(s) : s[i] = u /\ RemoveFirst(s, u) = RemoveAt(s, i)
  <1> DEFINE I == {i \in 1 .. Len(s) : s[i] = u}
  <1>1. I # {} /\ I \subseteq Nat
    BY DEF ToSet
  <1>2. \E x \in I : \A y \in I : x <= y
    <2> HIDE DEF I
    <2> QED BY <1>1, Least
  <1>3. Min(I) \in I
    BY <1>2 DEF Min
  <1>4. RemoveFirst(s, u) = RemoveAt(s, Min(I))
    BY <1>1 DEF RemoveFirst, SelectInSeq
  <1> QED BY <1>3, <1>4

LEMMA RemovedAt ==
    ASSUME NEW S, NEW s \in Seq(S), NEW i \in 1 .. Len(s)
    PROVE  /\ RemoveAt(s, i) \in Seq(S)
           /\ Len(RemoveAt(s, i)) = Len(s) - 1
           /\ \A j \in 1 .. (Len(s) - 1) : RemoveAt(s, i)[j] = s[IF j < i THEN j ELSE j + 1]
  <1> DEFINE a == SubSeq(s, 1, i - 1)
             b == SubSeq(s, i + 1, Len(s))
  <1>1. a \in Seq(S) /\ Len(a) = i - 1 /\ \A j \in 1 .. (i - 1) : a[j] = s[j]
    OBVIOUS
  <1>2. b \in Seq(S) /\ Len(b) = Len(s) - i /\ \A j \in 1 .. (Len(s) - i) : b[j] = s[i + j]
    OBVIOUS
  <1>3. RemoveAt(s, i) = a \o b
    BY DEF RemoveAt
  <1> HIDE DEF a, b
  <1>4. RemoveAt(s, i) \in Seq(S) /\ Len(RemoveAt(s, i)) = Len(s) - 1
    BY <1>1, <1>2, <1>3, ConcatProperties
  <1>5. ASSUME NEW j \in 1 .. (Len(s) - 1)
        PROVE  RemoveAt(s, i)[j] = s[IF j < i THEN j ELSE j + 1]
    <2>1. (a \o b)[j] = IF j <= Len(a) THEN a[j] ELSE b[j - Len(a)]
      BY <1>1, <1>2, ConcatProperties
    <2>2. CASE j < i
      BY <1>1, <1>3, <2>1, <2>2
    <2>3. CASE j >= i
      <3>1. j - (i - 1) \in 1 .. (Len(s) - i) /\ i + (j - (i - 1)) = j + 1
        BY <2>3
      <3> QED BY <1>1, <1>2, <1>3, <2>1, <2>3, <3>1
    <2> QED BY <2>2, <2>3
  <1> QED BY <1>4, <1>5

(* Removing a block from a queue, or taking its head, thins it and leaves  *)
(* all the others.                                                         *)
LEMMA RemovingThins ==
    ASSUME NEW S, NEW s \in Seq(S), NEW u
    PROVE  /\ RemoveFirst(s, u) \in Seq(S)
           /\ Thinned(RemoveFirst(s, u), s)
           /\ ToSet(s) \ {u} \subseteq ToSet(RemoveFirst(s, u))
           /\ (\A i, j \in DOMAIN s : s[i] = s[j] => i = j) => u \notin ToSet(RemoveFirst(s, u))
           /\ u \notin ToSet(s) => RemoveFirst(s, u) = s
  <1>1. CASE u \notin ToSet(s)
    <2>1. RemoveFirst(s, u) = s
      BY <1>1 DEF RemoveFirst, ToSet
    <2>2. Thinned(s, s)
      <3>1. [j \in DOMAIN s |-> j] \in [DOMAIN s -> DOMAIN s]
        OBVIOUS
      <3> QED BY <3>1 DEF Thinned
    <2> QED BY <1>1, <2>1, <2>2
  <1>2. CASE u \in ToSet(s)
    <2>1. PICK i \in 1 .. Len(s) : s[i] = u /\ RemoveFirst(s, u) = RemoveAt(s, i)
      BY <1>2, FirstFound
    <2> DEFINE r == RemoveFirst(s, u)
               f == [j \in 1 .. (Len(s) - 1) |-> IF j < i THEN j ELSE j + 1]
    <2>2. /\ r \in Seq(S) /\ Len(r) = Len(s) - 1
          /\ \A j \in 1 .. (Len(s) - 1) : r[j] = s[IF j < i THEN j ELSE j + 1]
      BY <2>1, RemovedAt
    <2> HIDE DEF r
    <2>3. /\ DOMAIN r = 1 .. (Len(s) - 1)
          /\ \A j \in 1 .. (Len(s) - 1) : r[j] = s[f[j]] /\ f[j] \in 1 .. Len(s) /\ f[j] # i
      BY <2>2
    <2>4. Thinned(r, s)
      <3>1. f \in [DOMAIN r -> DOMAIN s]
        BY <2>3
      <3>2. \A j, k \in DOMAIN r : j < k => f[j] < f[k]
        BY <2>3
      <3> HIDE DEF f
      <3> QED BY <2>3, <3>1, <3>2 DEF Thinned
    <2>5. ToSet(s) \ {u} \subseteq ToSet(r)
      <3> SUFFICES ASSUME NEW k \in DOMAIN s, s[k] # u PROVE s[k] \in ToSet(r)
        BY DEF ToSet
      <3>1. k \in 1 .. Len(s) /\ k # i
        BY <2>1
      <3>2. CASE k < i
        BY <2>2, <2>3, <3>1, <3>2 DEF ToSet
      <3>3. CASE k > i
        <4>1. k - 1 \in 1 .. (Len(s) - 1) /\ ~(k - 1 < i) /\ (k - 1) + 1 = k
          BY <3>1, <3>3
        <4>2. r[k - 1] = s[k]
          BY <2>2, <4>1
        <4> QED BY <2>3, <4>1, <4>2 DEF ToSet
      <3> QED BY <3>1, <3>2, <3>3
    <2>6. ASSUME \A k, j \in DOMAIN s : s[k] = s[j] => k = j PROVE u \notin ToSet(r)
      <3> HIDE DEF f
      <3> QED BY <2>1, <2>3, <2>6 DEF ToSet
    <2> QED BY <1>2, <2>2, <2>4, <2>5, <2>6 DEF r
  <1> QED BY <1>1, <1>2

LEMMA TailThins ==
    ASSUME NEW S, NEW s \in Seq(S), s # <<>>
    PROVE  /\ Tail(s) \in Seq(S) /\ Head(s) \in S
           /\ Thinned(Tail(s), s)
           /\ ToSet(s) = ToSet(Tail(s)) \cup {Head(s)}
           /\ (\A i, j \in DOMAIN s : s[i] = s[j] => i = j) => Head(s) \notin ToSet(Tail(s))
  <1>1. /\ Tail(s) \in Seq(S) /\ Head(s) \in S /\ Head(s) = s[1] /\ Len(s) >= 1
        /\ DOMAIN Tail(s) = 1 .. (Len(s) - 1) /\ DOMAIN s = 1 .. Len(s)
        /\ \A j \in 1 .. (Len(s) - 1) : Tail(s)[j] = s[j + 1] /\ j + 1 \in 1 .. Len(s)
    OBVIOUS
  <1> DEFINE f == [j \in DOMAIN Tail(s) |-> j + 1]
  <1>2. Thinned(Tail(s), s)
    <2>1. f \in [DOMAIN Tail(s) -> DOMAIN s]
      BY <1>1
    <2>2. \A j \in DOMAIN Tail(s) : f[j] = j + 1 /\ Tail(s)[j] = s[j + 1] /\ j \in Nat
      BY <1>1
    <2> HIDE DEF f
    <2> QED BY <2>1, <2>2 DEF Thinned
  <1>3. ToSet(s) = ToSet(Tail(s)) \cup {Head(s)}
    <2>1. ASSUME NEW x \in ToSet(s) PROVE x = Head(s) \/ x \in ToSet(Tail(s))
      <3>1. PICK k \in 1 .. Len(s) : x = s[k]
        BY <1>1, <2>1 DEF ToSet
      <3>2. CASE k = 1
        BY <1>1, <3>1, <3>2
      <3>3. CASE k # 1
        <4>1. k - 1 \in 1 .. (Len(s) - 1) /\ (k - 1) + 1 = k
          BY <3>3
        <4>2. Tail(s)[k - 1] = x /\ k - 1 \in DOMAIN Tail(s)
          BY <1>1, <3>1, <4>1
        <4> QED BY <4>2 DEF ToSet
      <3> QED BY <3>2, <3>3
    <2>2. ASSUME NEW x \in ToSet(Tail(s)) PROVE x \in ToSet(s)
      BY <1>1 DEF ToSet
    <2>3. Head(s) \in ToSet(s)
      BY <1>1 DEF ToSet
    <2> QED BY <2>1, <2>2, <2>3
  <1>4. ASSUME \A i, j \in DOMAIN s : s[i] = s[j] => i = j PROVE Head(s) \notin ToSet(Tail(s))
    BY <1>1, <1>4 DEF ToSet
  <1> QED BY <1>1, <1>2, <1>3, <1>4

-----------------------------------------------------------------------------
LEMMA Division ==
    ASSUME NEW a \in Nat, NEW b \in Nat \ {0}
    PROVE  /\ a \div b \in Nat /\ a % b \in 0 .. (b - 1)
           /\ a = b * (a \div b) + (a % b)
  OBVIOUS

LEMMA DivisionIsUnique ==
    ASSUME NEW a \in Nat, NEW b \in Nat \ {0}, NEW q \in Nat, NEW r \in 0 .. (b - 1), a = b * q + r
    PROVE  a \div b = q
  OBVIOUS

(* The plan of a buffer is made of numbers.                                *)
LEMMA PlanNumbers ==
    ASSUME NEW size \in Nat
    PROVE  /\ UrbCount(size) \in Nat \ {0} /\ BlockSize(size) \in Nat
           /\ \A i : UrbLength(size, i) \in Nat
  <1>1. CASE size = 0
    <2>1. BlockSize(size) \in Nat
      BY <1>1, BlockAssumption DEF BlockSize
    <2>2. UrbCount(size) = 1
      BY <1>1 DEF UrbCount
    <2>3. \A i : UrbLength(size, i) = 0
      BY <1>1, ModulusAssumption DEF UrbLength
    <2> QED BY <2>1, <2>2, <2>3
  <1>2. CASE size # 0
    <2> DEFINE b == BlockSize(size)
    <2>1. b \in Nat \ {0}
      BY <1>2, BlockAssumption DEF BlockSize
    <2>2. UrbCount(size) = (size + (b - 1)) \div b
      BY <1>2 DEF UrbCount
    <2>3. \A i : UrbLength(size, i) \in {(size % b) % LengthModulus, b % LengthModulus}
      BY <1>2 DEF UrbLength
    <2> HIDE DEF b
    <2>4. size % b \in Nat /\ (size % b) % LengthModulus \in Nat /\ b % LengthModulus \in Nat
      BY <2>1, ModulusAssumption
    <2> DEFINE s == size + (b - 1)
               q == s \div b
               r == s % b
    <2>5. s \in Nat /\ s >= b
      BY <1>2, <2>1
    <2>6. UrbCount(size) = q
      BY <2>2
    <2> HIDE DEF s
    <2>7. q \in Nat /\ r \in 0 .. (b - 1) /\ s = b * q + r
      BY <2>1, <2>5, Division
    <2> HIDE DEF q, r
    <2>8. q # 0
      BY <2>1, <2>5, <2>7
    <2> QED BY <2>1, <2>3, <2>4, <2>6, <2>7, <2>8 DEF b
  <1> QED BY <1>1, <1>2

(* Every block but the last has the block size, and the last one takes     *)
(* what is left, as long as the block size survives its cast.              *)
LEMMA PlanCovers ==
    ASSUME NEW size \in Nat, BlockSize(size) < LengthModulus
    PROVE  /\ \A i : ~IsLast(size, i) => UrbLength(size, i) = BlockSize(size)
           /\ (UrbCount(size) - 1) * BlockSize(size) + UrbLength(size, UrbCount(size)) = size
  <1>1. CASE size = 0
    <2>1. BlockSize(size) = 0
      BY <1>1, BlockAssumption DEF BlockSize
    <2>2. UrbCount(size) = 1
      BY <1>1 DEF UrbCount
    <2>3. \A i : UrbLength(size, i) = 0
      BY <1>1, ModulusAssumption DEF UrbLength
    <2> QED BY <1>1, <2>1, <2>2, <2>3
  <1>2. CASE size # 0
    <2> DEFINE b == BlockSize(size)
               q == size \div b
               r == size % b
               k == UrbCount(size)
    <2>0. b < LengthModulus
      OBVIOUS
    <2>1. b \in Nat \ {0}
      BY <1>2, BlockAssumption DEF BlockSize
    <2>2. k = (size + (b - 1)) \div b
      BY <1>2 DEF UrbCount
    <2>3. \A i : UrbLength(size, i) = (IF i = k /\ r # 0 THEN r ELSE b) % LengthModulus
      BY <1>2 DEF UrbLength, IsLast
    <2> HIDE DEF b, k
    <2>4. q \in Nat /\ r \in 0 .. (b - 1) /\ size = b * q + r
      BY <2>1, Division
    <2> HIDE DEF q, r
    <2>7. \A n \in Nat : n < LengthModulus => n % LengthModulus = n
      BY ModulusAssumption
    <2>8. r % LengthModulus = r /\ b % LengthModulus = b
      BY <2>0, <2>1, <2>4, <2>7, ModulusAssumption
    <2>9. \A i : UrbLength(size, i) = IF i = k /\ r # 0 THEN r ELSE b
      BY <2>3, <2>8
    <2>5. CASE r = 0
      <3>1. q # 0
        BY <1>2, <2>1, <2>4, <2>5
      <3>2. size + (b - 1) = b * q + (b - 1) /\ b - 1 \in 0 .. (b - 1) /\ size + (b - 1) \in Nat
        BY <2>1, <2>4, <2>5
      <3>3. k = q
        BY <2>1, <2>2, <2>4, <3>2, DivisionIsUnique
      <3>4. (q - 1) * b + b = b * q
        BY <2>1, <2>4
      <3>5. (k - 1) * b + UrbLength(size, k) = size
        BY <2>1, <2>4, <2>5, <2>9, <3>3, <3>4
      <3> QED BY <2>1, <2>4, <2>5, <2>9, <3>1, <3>3, <3>5 DEF b, k, IsLast
    <2>6. CASE r # 0
      <3>1. b * (q + 1) = b * q + b
        BY <2>1, <2>4
      <3>2. size + (b - 1) = b * (q + 1) + (r - 1) /\ r - 1 \in 0 .. (b - 1) /\ size + (b - 1) \in Nat
        BY <2>1, <2>4, <2>6, <3>1
      <3>3. k = q + 1
        BY <2>1, <2>2, <2>4, <3>2, DivisionIsUnique
      <3>4. (k - 1) * b = b * q
        BY <2>1, <2>4, <3>3
      <3>5. (k - 1) * b + UrbLength(size, k) = size
        BY <2>4, <2>6, <2>9, <3>4
      <3> QED BY <2>1, <2>4, <2>9, <3>3, <3>5 DEF b, k, IsLast
    <2> QED BY <2>4, <2>5, <2>6
  <1> QED BY <1>1, <1>2

(* The blocks of a set in some order.                                      *)
LEMMA CancelledInSomeOrder ==
    ASSUME NEW S, NEW B, IsFiniteSet(B), NEW order \in SetToSeqs(B), B \subseteq S
    PROVE  /\ order \in Seq(S)
           /\ \A i \in DOMAIN order : order[i] \in B
           /\ \A i, j \in DOMAIN order : i # j => order[i] # order[j]
  <1>1. Cardinality(B) \in Nat
    BY FS_CardinalityType
  <1>2. order \in [1 .. Cardinality(B) -> B] /\ \A i, j \in 1 .. Cardinality(B) : i # j => order[i] # order[j]
    BY DEF SetToSeqs
  <1> QED BY <1>1, <1>2

-----------------------------------------------------------------------------
(* The blocks of the kernel, by where they wait.                           *)
LEMMA WherePending ==
    ASSUME NEW p
    PROVE  \A u : u \in UNION {ToSet(p[e]) : e \in Endpoints}
                      <=> \E e \in Endpoints : \E j \in DOMAIN p[e] : p[e][j] = u
  BY DEF ToSet

LEMMA Queued ==
    ASSUME NEW u \in InFlight
    PROVE  \E e \in Endpoints : \E j \in DOMAIN pending[e] : pending[e][j] = u
  BY DEF InFlight, ToSet

LEMMA KernelBlocks ==
    ASSUME IInv, NEW u \in InFlight \cup Finished
    PROVE  u \in Blocks /\ OnItsWay(u)
  <1>1. CASE u \in InFlight
    <2>1. PICK e \in Endpoints : \E j \in DOMAIN pending[e] : pending[e][j] = u
      BY <1>1, WherePending DEF InFlight
    <2>2. PICK j \in DOMAIN pending[e] : pending[e][j] = u
      BY <2>1
    <2> QED BY <2>2 DEF IInv, TypeOK, PendingOK
  <1>2. CASE u \in Finished
    <2>1. PICK j \in DOMAIN completed : completed[j].urb = u
      BY <1>2 DEF Finished
    <2>2. completed[j] \in Answers
      BY <2>1 DEF IInv, TypeOK
    <2> QED BY <2>1, <2>2 DEF IInv, CompletedOK, Answers
  <1> QED BY <1>1, <1>2

(* The state of one object and of its client.                              *)
LEMMA OneObject ==
    ASSUME TypeOK, NEW t \in Transfers
    PROVE  /\ object[t] \in Fields /\ client[t] \in Clients
           /\ object[t].urb \in Seq(Urbs) /\ Len(object[t].urb) \in Nat
           /\ DOMAIN object[t].urb = 1 .. Len(object[t].urb)
           /\ \A i \in DOMAIN object[t].urb : object[t].urb[i] \in Urbs
           /\ object[t].size \in Nat /\ object[t].finishedUrbCount \in Nat
  BY DEF TypeOK, Fields

(* What the step of one client's thread leaves alone.                      *)
OthersStay(t) == \A s \in Transfers \ {t} : object'[s] = object[s] /\ client'[s] = client[s]

LEMMA OtherObjects ==
    ASSUME IInv, NEW t, OthersStay(t), plugged' = plugged,
           (Planned(t) /\ (~object[t].error => Counted(t)) /\ Told(t) /\ FullUnlessLast(t))'
    PROVE  ObjectsOK'
  <1> SUFFICES ASSUME NEW s \in Transfers, s # t
               PROVE  (Planned(s) /\ (~object[s].error => Counted(s)) /\ Told(s) /\ FullUnlessLast(s))'
    BY DEF ObjectsOK
  <1>1. object'[s] = object[s] /\ client'[s] = client[s] /\ plugged' = plugged
    BY DEF OthersStay
  <1>2. Planned(s) /\ (~object[s].error => Counted(s)) /\ Told(s) /\ FullUnlessLast(s)
    BY DEF IInv, ObjectsOK
  <1>3. Planned(s)'
    BY <1>1, <1>2 DEF Planned
  <1>4. (~object[s].error => Counted(s))'
    BY <1>1, <1>2 DEF Counted
  <1>5. Told(s)'
    BY <1>1, <1>2 DEF Told, Failed
  <1>6. FullUnlessLast(s)'
    BY <1>1, <1>2 DEF FullUnlessLast, Full, Urb
  <1> QED BY <1>3, <1>4, <1>5, <1>6

(* A client's step leaves the blocks that are under way as they are, and   *)
(* its transfer alive while the reaper may come to it.                     *)
Grows(t) ==
    LET o == object[t]
        n == object'[t]
    IN  /\ n.size = o.size \/ Len(o.urb) = 0
        /\ n.finishedUrbCount = o.finishedUrbCount
        /\ n.error = o.error /\ n.locked = o.locked
        /\ Len(o.urb) <= Len(n.urb)
        /\ \A i \in DOMAIN o.urb :
              n.urb[i].status = o.urb[i].status /\ n.urb[i].notified = o.urb[i].notified

Leaves(t) == Live(t) /\ ~Live(t)' =>
    /\ reaper.at \in {"dispatch", "notify", "discard"} => context.transfer # t
    /\ object[t].error \/ \A u \in InFlight \cup Finished : u.transfer # t

Comes(t) == Live(t)' /\ ~Live(t) => Len(object'[t].urb) = 0 /\ device = "open"

LEMMA ClientFrame ==
    ASSUME IInv, TypeOK', NEW t \in Transfers, OthersStay(t),
           UNCHANGED <<kernelVars, reaperVars, deviceVars>>,
           Grows(t), Leaves(t), Comes(t),
           client'[t].at = "submit" =>
               \A u \in InFlight \cup Finished : u.transfer = t => u.index # Len(object'[t].urb),
           Live(t) /\ Live(t)' /\ ~object[t].error =>
               \A m \in Unfinished(t)' :
                   \/ client'[t].at = "submit" /\ m = Len(object'[t].urb)
                   \/ m \in Unfinished(t) /\ ~(client[t].at = "submit" /\ m = Len(object[t].urb))
    PROVE  PendingOK' /\ CompletedOK' /\ InOrder' /\ NothingLost' /\ HandOK' /\ ErrorsEnd' /\ DestroyedLast'
  <1>1. /\ UNCHANGED <<pending, completed, plugged, reaper, context, errno, device>>
        /\ InFlight' = InFlight /\ Finished' = Finished
    BY DEF kernelVars, reaperVars, deviceVars, InFlight, Finished
  <1>2. /\ DOMAIN object[t].urb = 1 .. Len(object[t].urb) /\ Len(object[t].urb) \in Nat
        /\ DOMAIN object'[t].urb = 1 .. Len(object'[t].urb) /\ Len(object'[t].urb) \in Nat
    BY DEF IInv, TypeOK, Fields
  <1>3. ASSUME NEW u \in InFlight \cup Finished PROVE OnItsWay(u)' /\ object'[u.transfer].size = object[u.transfer].size
    <2>1. u \in Blocks /\ OnItsWay(u)
      BY KernelBlocks
    <2>2. CASE u.transfer # t
      BY <2>1, <2>2 DEF OnItsWay, OthersStay, Blocks, Live
    <2>3. CASE u.transfer = t
      <3>1. u.index \in DOMAIN object[t].urb /\ u.index \in DOMAIN object'[t].urb /\ Len(object[t].urb) # 0
        <4>1. u.index \in DOMAIN object[t].urb
          BY <2>1, <2>3 DEF OnItsWay
        <4> QED BY <1>2, <4>1 DEF Grows
      <3>2. ~object[t].error => Live(t)'
        <4>1. Live(t)' \/ ~Live(t) \/ object[t].error
          BY <2>3 DEF Leaves
        <4> QED BY <2>1, <2>3, <4>1 DEF OnItsWay
      <3> QED BY <2>1, <2>3, <3>1, <3>2 DEF OnItsWay, Grows
    <2> QED BY <2>2, <2>3
  <1>4. PendingOK'
    <2>1. ASSUME NEW e \in Endpoints, NEW j \in DOMAIN pending[e] PROVE OnItsWay(pending[e][j])'
      <3>1. pending[e][j] \in InFlight
        <4>1. pending[e][j] \in ToSet(pending[e])
          BY DEF ToSet
        <4> QED BY <4>1 DEF InFlight
      <3>2. PICK u : u = pending[e][j]
        OBVIOUS
      <3>3. OnItsWay(u)'
        BY <1>3, <3>1, <3>2
      <3>4. pending'[e][j] = u
        BY <1>1, <3>2
      <3> QED BY <3>3, <3>4
    <2> QED BY <1>1, <2>1 DEF IInv, PendingOK
  <1>5. CompletedOK'
    <2>1. ASSUME NEW j \in DOMAIN completed
          PROVE  OnItsWay(completed[j].urb)' /\ object'[completed[j].urb.transfer].size = object[completed[j].urb.transfer].size
      <3>1. completed[j].urb \in Finished
        BY DEF Finished
      <3> QED BY <1>1, <1>3, <3>1
    <2> QED BY <1>1, <2>1 DEF IInv, CompletedOK, Full
  <1>6. InOrder'
    <2> SUFFICES ASSUME NEW j \in DOMAIN completed,
                        completed[j].status = "ok", ~object'[completed[j].urb.transfer].error,
                        NEW m \in (object'[completed[j].urb.transfer].finishedUrbCount + 1) .. (completed[j].urb.index - 1)
                 PROVE  InHand(Urb(completed[j].urb.transfer, m)) \/ \E i \in DOMAIN completed : i < j /\ completed[i].urb = Urb(completed[j].urb.transfer, m)
      BY <1>1 DEF InOrder, InHand
    <2>1. completed[j].urb.transfer \in Transfers
      <3>1. completed[j].urb \in Finished
        BY DEF Finished
      <3> QED BY <3>1, KernelBlocks DEF Blocks
    <2>2. /\ object'[completed[j].urb.transfer].finishedUrbCount = object[completed[j].urb.transfer].finishedUrbCount
          /\ object'[completed[j].urb.transfer].error = object[completed[j].urb.transfer].error
      BY <2>1 DEF OthersStay, Grows
    <2> QED BY <2>2 DEF IInv, InOrder
  <1>7. NothingLost'
    <2> SUFFICES ASSUME NEW s \in Transfers, plugged, Live(s)', ~object'[s].error, NEW m \in Unfinished(s)'
                 PROVE  \/ client'[s].at = "submit" /\ m = Len(object'[s].urb)
                        \/ Urb(s, m) \in InFlight \cup Finished
                        \/ InHand(Urb(s, m))
      BY <1>1 DEF NothingLost, InHand
    <2>1. CASE s # t
      BY <2>1 DEF IInv, NothingLost, OthersStay, Unfinished, Live
    <2>2. CASE s = t /\ Live(t)
      <3>1. ~object[t].error
        BY <2>2 DEF Grows
      <3>2. CASE m \in Unfinished(t) /\ ~(client[t].at = "submit" /\ m = Len(object[t].urb))
        BY <2>2, <3>1, <3>2 DEF IInv, NothingLost
      <3> QED BY <2>2, <3>1, <3>2
    <2>3. CASE s = t /\ ~Live(t)
      <3>1. Len(object'[t].urb) = 0
        BY <2>3 DEF Comes
      <3>2. object'[t].finishedUrbCount \in Nat
        BY DEF TypeOK, Fields
      <3> QED BY <2>3, <3>1, <3>2 DEF Unfinished
    <2> QED BY <2>1, <2>2, <2>3
  <1>8. HandOK'
    <2> SUFFICES ASSUME reaper.at \in {"dispatch", "notify"} PROVE HandOK'
      BY <1>1 DEF HandOK
    <2>1. CASE context.transfer # t
      BY <1>1, <2>1 DEF IInv, HandOK, OthersStay, Live, Blocks
    <2>2. CASE context.transfer = t
      <3>1. Live(t)'
        BY <2>2 DEF IInv, HandOK, Leaves
      <3>2. context.index \in DOMAIN object[t].urb /\ context.index \in DOMAIN object'[t].urb
        BY <1>2, <2>2 DEF IInv, HandOK, Grows
      <3> QED BY <1>1, <2>2, <3>1, <3>2 DEF IInv, HandOK, Grows
    <2> QED BY <2>1, <2>2
  <1>9. ErrorsEnd'
    <2>1. \A s \in Transfers : object'[s].error = object[s].error
      BY DEF OthersStay, Grows
    <2>2. ASSUME reaper.at = "discard"
          PROVE  /\ Live(context.transfer)' /\ object'[context.transfer].error
                 /\ object'[context.transfer].locked /\ context.index \in DOMAIN object'[context.transfer].urb
                 /\ object'[context.transfer].urb[context.index].status = "error"
      <3>1. /\ context.transfer \in Transfers /\ Live(context.transfer)
            /\ object[context.transfer].error /\ object[context.transfer].locked
            /\ context.index \in DOMAIN object[context.transfer].urb
            /\ object[context.transfer].urb[context.index].status = "error"
        BY <2>2 DEF IInv, ErrorsEnd, Blocks
      <3>2. CASE context.transfer # t
        BY <1>1, <3>1, <3>2 DEF OthersStay, Live
      <3>3. CASE context.transfer = t
        <4>1. Live(t)'
          BY <2>2, <3>1, <3>3 DEF Leaves
        <4>2. context.index \in DOMAIN object'[t].urb
          BY <1>2, <3>1, <3>3 DEF Grows
        <4> QED BY <1>1, <3>1, <3>3, <4>1, <4>2 DEF Grows
      <3> QED BY <3>2, <3>3
    <2> QED BY <1>1, <2>1, <2>2 DEF IInv, ErrorsEnd
  <1>10. DestroyedLast'
    BY <1>1 DEF IInv, DestroyedLast, OthersStay, Live, Comes
  <1> QED BY <1>4, <1>5, <1>6, <1>7, <1>8, <1>9, <1>10

LEMMA OneClient ==
    ASSUME TypeOK, NEW t \in Transfers, NEW o \in Fields, NEW c \in Clients,
           object' = [object EXCEPT ![t] = o], client' = [client EXCEPT ![t] = c],
           UNCHANGED <<kernelVars, reaperVars, deviceVars>>
    PROVE  TypeOK' /\ OthersStay(t) /\ object'[t] = o /\ client'[t] = c
  <1>1. object' \in [Transfers -> Fields] /\ client' \in [Transfers -> Clients]
    BY DEF TypeOK
  <1>2. TypeOK'
    BY <1>1 DEF TypeOK, kernelVars, reaperVars, deviceVars
  <1>3. OthersStay(t) /\ object'[t] = o /\ client'[t] = c
    BY DEF TypeOK, OthersStay
  <1> QED BY <1>2, <1>3

LEMMA OneClientMoves ==
    ASSUME IInv, NEW t \in Transfers, NEW c \in Clients,
           object' = object, client' = [client EXCEPT ![t] = c],
           UNCHANGED <<kernelVars, reaperVars, deviceVars>>,
           c.at # "submit",
           Live(t)' => Live(t) /\ client[t].at # "submit",
           client[t].at \in {"discard", "forget", "destroyed"} => c.at \in {"discard", "forget", "destroyed"},
           Planned(t)', Told(t)', Leaves(t)
    PROVE  IInv'
  <1>1. /\ object[t] \in Fields /\ DOMAIN object[t].urb = 1 .. Len(object[t].urb)
        /\ object[t].finishedUrbCount \in Nat
        /\ object' = [object EXCEPT ![t] = object[t]]
    BY DEF IInv, TypeOK, Fields
  <1>2. TypeOK' /\ OthersStay(t) /\ client'[t] = c
    BY <1>1, OneClient DEF IInv
  <1>3. (~object[t].error => Counted(t))'
    BY <1>2 DEF IInv, ObjectsOK, Counted
  <1>4. FullUnlessLast(t)'
    BY DEF IInv, ObjectsOK, FullUnlessLast, Full, Urb
  <1>5. plugged' = plugged /\ wild' = wild
    BY DEF kernelVars, reaperVars
  <1>6. ObjectsOK'
    BY <1>2, <1>3, <1>4, <1>5, OtherObjects
  <1>7. Grows(t) /\ Comes(t)
    BY <1>1 DEF Grows, Comes
  <1>8. client'[t].at # "submit" /\ Unfinished(t)' = Unfinished(t)
    BY <1>2 DEF Unfinished
  <1>9. PendingOK' /\ CompletedOK' /\ InOrder' /\ NothingLost' /\ HandOK' /\ ErrorsEnd' /\ DestroyedLast'
    BY <1>2, <1>7, <1>8, ClientFrame
  <1> QED BY <1>2, <1>5, <1>6, <1>9 DEF IInv

-----------------------------------------------------------------------------
(* The client's thread.                                                    *)
LEMMA ConstructKeeps ==
    ASSUME IInv, NEW t \in Transfers, Construct(t), device = "open", UNCHANGED <<reaperVars, deviceVars>>
    PROVE  IInv'
  <1>1. PICK size \in Sizes : object' = [object EXCEPT ![t].size = size]
    BY DEF Construct
  <1> DEFINE o == [object[t] EXCEPT !.size = size]
             c == [at |-> "emplace"]
  <1>2. /\ size \in Nat /\ object[t] = NoObject /\ client[t].at = "none"
        /\ client' = [client EXCEPT ![t] = c]
        /\ UNCHANGED <<kernelVars, reaperVars, deviceVars>>
    BY SizesAssumption DEF Construct, IInv, ObjectsOK, Planned
  <1>3. o \in Fields /\ c \in Clients /\ object' = [object EXCEPT ![t] = o]
    <2>1. object[t] \in Fields
      BY DEF IInv, TypeOK
    <2>2. o \in Fields
      BY <1>2, <2>1 DEF Fields
    <2> QED BY <1>1, <2>2 DEF Clients
  <1>4. TypeOK' /\ OthersStay(t) /\ object'[t] = o /\ client'[t] = c
    BY <1>2, <1>3, OneClient DEF IInv
  <1>5. /\ object[t].urb = <<>> /\ Len(object[t].urb) = 0 /\ DOMAIN object[t].urb = {}
        /\ object[t].finishedUrbCount = 0 /\ object[t].finishedBytes = 0
        /\ object[t].error = FALSE /\ object[t].locked = FALSE
    BY <1>2 DEF NoObject
  <1>6. /\ o.size = size /\ o.urb = object[t].urb
        /\ o.finishedUrbCount = 0 /\ o.finishedBytes = 0 /\ o.error = FALSE /\ o.locked = FALSE
        /\ c.at = "emplace"
    <2>1. object[t] \in Fields
      BY DEF IInv, TypeOK
    <2> QED BY <1>5, <2>1 DEF Fields
  <1> HIDE DEF o, c
  <1>7. Planned(t)'
    <2>1. UrbCount(size) \in Nat \ {0}
      BY <1>2, PlanNumbers
    <2> QED BY <1>4, <1>5, <1>6, <2>1 DEF Planned
  <1>8. Counted(t)' /\ Told(t)' /\ FullUnlessLast(t)'
    BY <1>4, <1>5, <1>6, TotalSteps DEF Counted, Told, FullUnlessLast
  <1>9. ObjectsOK'
    BY <1>2, <1>4, <1>7, <1>8, OtherObjects DEF kernelVars
  <1>10. Grows(t) /\ Leaves(t) /\ Comes(t) /\ ~Live(t)
    <2>1. ~Live(t)
      BY <1>2 DEF Live
    <2>2. Grows(t)
      <3>1. /\ object'[t].urb = object[t].urb /\ object'[t].finishedUrbCount = 0
            /\ object'[t].error = FALSE /\ object'[t].locked = FALSE
        BY <1>4, <1>6
      <3>2. Len(object[t].urb) <= Len(object'[t].urb)
        BY <1>5, <3>1
      <3> QED BY <1>5, <3>1, <3>2 DEF Grows
    <2>3. Comes(t)
      BY <1>4, <1>5, <1>6 DEF Comes
    <2> QED BY <2>1, <2>2, <2>3 DEF Leaves
  <1>11. client'[t].at # "submit"
    BY <1>4, <1>5, <1>6
  <1>12. PendingOK' /\ CompletedOK' /\ InOrder' /\ NothingLost' /\ HandOK' /\ ErrorsEnd' /\ DestroyedLast'
    BY <1>2, <1>4, <1>10, <1>11, ClientFrame
  <1> QED BY <1>2, <1>4, <1>9, <1>12 DEF IInv, reaperVars

LEMMA EmplaceKeeps ==
    ASSUME IInv, NEW t \in Transfers, EmplaceUrb(t), UNCHANGED <<reaperVars, deviceVars>>
    PROVE  IInv'
  <1> DEFINE old == object[t].urb
             k == Len(old) + 1
             urb == Append(old, NewUrb(object[t].size, Dir(t), k))
             o == [object[t] EXCEPT !.urb = urb]
             c == [at |-> "submit"]
  <1>1. /\ client[t].at = "emplace" /\ object' = [object EXCEPT ![t] = o]
        /\ client' = [client EXCEPT ![t] = c]
        /\ UNCHANGED <<kernelVars, reaperVars, deviceVars>> /\ plugged' = plugged
    BY DEF EmplaceUrb, kernelVars
  <1>2. /\ object[t] \in Fields /\ old \in Seq(Urbs) /\ Len(old) \in Nat /\ object[t].size \in Nat
        /\ DOMAIN old = 1 .. Len(old) /\ object[t].finishedUrbCount \in Nat
    BY OneObject DEF IInv
  <1>3. /\ NewUrb(object[t].size, Dir(t), k) \in Urbs
        /\ NewUrb(object[t].size, Dir(t), k).length = UrbLength(object[t].size, k)
        /\ NewUrb(object[t].size, Dir(t), k).flags = UrbFlags(object[t].size, Dir(t), k)
        /\ NewUrb(object[t].size, Dir(t), k).status = "none"
        /\ NewUrb(object[t].size, Dir(t), k).notified = 0
        /\ NewUrb(object[t].size, Dir(t), k).userContext
    <2>1. UrbLength(object[t].size, k) \in Nat /\ UrbFlags(object[t].size, Dir(t), k) \in SUBSET Flags
      BY <1>2, PlanNumbers DEF UrbFlags, Flags
    <2> QED BY <2>1 DEF NewUrb, Urbs
  <1>4. /\ urb \in Seq(Urbs) /\ Len(urb) = k /\ DOMAIN urb = 1 .. k
        /\ \A i \in 1 .. Len(old) : urb[i] = old[i]
        /\ urb[k] = NewUrb(object[t].size, Dir(t), k)
    BY <1>2, <1>3
  <1> HIDE DEF urb
  <1>5. /\ o \in Fields /\ c \in Clients /\ c.at = "submit" /\ o.urb = urb
        /\ o.size = object[t].size /\ o.finishedUrbCount = object[t].finishedUrbCount
        /\ o.finishedBytes = object[t].finishedBytes
        /\ o.error = object[t].error /\ o.locked = object[t].locked
    BY <1>2, <1>4 DEF Fields, Clients
  <1> HIDE DEF o, c
  <1>6. TypeOK' /\ OthersStay(t) /\ object'[t] = o /\ client'[t] = c
    BY <1>1, <1>5, OneClient DEF IInv
  <1>7. Planned(t) /\ (~object[t].error => Counted(t)) /\ Told(t) /\ FullUnlessLast(t)
    BY DEF IInv, ObjectsOK
  <1>8. Planned(t)'
    <2>1. \A i \in DOMAIN urb : i \in 1 .. Len(old) \/ i = k
      BY <1>2, <1>4
    <2>2. \A i \in DOMAIN urb : urb[i].length = UrbLength(o.size, i) /\ urb[i].flags = UrbFlags(o.size, Dir(t), i)
      BY <1>2, <1>3, <1>4, <1>5, <1>7, <2>1 DEF Planned
    <2>3. k <= UrbCount(o.size) /\ k >= 1
      <3>1. Len(old) < UrbCount(object[t].size)
        BY <1>1, <1>7 DEF Planned
      <3>2. UrbCount(object[t].size) \in Nat
        BY <1>2, PlanNumbers
      <3> QED BY <1>2, <1>5, <3>1, <3>2
    <2>5. urb[Len(urb)].status = "none" /\ urb[Len(urb)].notified = 0 /\ Len(urb) >= 1 /\ Len(urb) <= UrbCount(o.size)
      BY <1>3, <1>4, <2>3
    <2> QED BY <1>5, <1>6, <2>2, <2>3, <2>5 DEF Planned
  <1>9. (~object[t].error => Counted(t))'
    <2> SUFFICES ASSUME ~object[t].error PROVE Counted(t)'
      BY <1>5, <1>6
    <2>1. Counted(t)
      BY <1>7
    <2>2. Total(Actuals(urb), o.finishedUrbCount) = Total(Actuals(old), o.finishedUrbCount)
      <3>1. \A i \in 1 .. o.finishedUrbCount : Actuals(urb)[i] = Actuals(old)[i]
        BY <1>2, <1>4, <1>5, <2>1 DEF Actuals, Counted
      <3> QED BY <1>2, <1>5, <3>1, TotalIsLocal
    <2>3. \A i \in DOMAIN urb :
              /\ urb[i].notified = (IF i <= o.finishedUrbCount THEN 1 ELSE 0)
              /\ i <= o.finishedUrbCount => urb[i].status = "ok"
              /\ urb[i].userContext
      <3> SUFFICES ASSUME NEW i \in DOMAIN urb
                   PROVE  /\ urb[i].notified = (IF i <= o.finishedUrbCount THEN 1 ELSE 0)
                          /\ i <= o.finishedUrbCount => urb[i].status = "ok"
                          /\ urb[i].userContext
        OBVIOUS
      <3>1. CASE i \in DOMAIN old
        BY <1>1, <1>2, <1>4, <1>5, <2>1, <3>1 DEF Counted
      <3>2. CASE i \notin DOMAIN old
        <4>1. i = k /\ ~(k <= o.finishedUrbCount)
          BY <1>2, <1>4, <1>5, <2>1, <3>2 DEF Counted
        <4> QED BY <1>3, <1>4, <4>1
      <3> QED BY <3>1, <3>2
    <2>4. o.finishedUrbCount <= Len(urb) /\ o.finishedBytes = Total(Actuals(old), o.finishedUrbCount)
      BY <1>2, <1>4, <1>5, <2>1 DEF Counted
    <2> QED BY <1>5, <1>6, <2>2, <2>3, <2>4 DEF Counted
  <1>10. Told(t)'
    BY <1>2, <1>4, <1>5, <1>6, <1>7 DEF Told, Failed
  <1>11. FullUnlessLast(t)'
    <2> SUFFICES ASSUME NEW i \in DOMAIN urb, urb[i].status = "ok"
                 PROVE  ~IsLast(o.size, i) => urb[i].actual = UrbLength(o.size, i)
      BY <1>6, <1>5 DEF FullUnlessLast, Full, Urb
    <2>1. i \in DOMAIN old
      BY <1>2, <1>3, <1>4
    <2> QED BY <1>2, <1>4, <1>5, <1>7, <2>1 DEF FullUnlessLast, Full, Urb
  <1>12. ObjectsOK'
    BY <1>1, <1>6, <1>8, <1>9, <1>10, <1>11, OtherObjects
  <1>13. Grows(t) /\ Leaves(t) /\ Comes(t)
    BY <1>1, <1>2, <1>4, <1>5, <1>6 DEF Grows, Leaves, Comes, Live
  <1>14. ASSUME NEW u \in InFlight \cup Finished, u.transfer = t PROVE u.index # Len(object'[t].urb)
    <2>1. u.index \in DOMAIN old
      BY <1>14, KernelBlocks DEF OnItsWay
    <2> QED BY <1>2, <1>4, <1>5, <1>6, <2>1
  <1>15. ASSUME NEW m \in Unfinished(t)'
         PROVE  \/ client'[t].at = "submit" /\ m = Len(object'[t].urb)
                \/ m \in Unfinished(t) /\ ~(client[t].at = "submit" /\ m = Len(object[t].urb))
    BY <1>1, <1>2, <1>4, <1>5, <1>6 DEF Unfinished
  <1>16. PendingOK' /\ CompletedOK' /\ InOrder' /\ NothingLost' /\ HandOK' /\ ErrorsEnd' /\ DestroyedLast'
    BY <1>1, <1>6, <1>13, <1>14, <1>15, ClientFrame
  <1> QED BY <1>1, <1>6, <1>12, <1>16 DEF IInv, reaperVars

LEMMA SubmitKeeps ==
    ASSUME IInv, NEW t \in Transfers, SubmitUrb(t), UNCHANGED <<reaperVars, deviceVars>>
    PROVE  IInv'
  <1>1. PICK k \in Nat, e \in Endpoints : k = Len(object[t].urb) /\ e = EndpointOf[t]
    BY OneObject, EndpointOfAssumption DEF IInv
  <1> DEFINE u == Urb(t, k)
             c == [at |-> IF IsLast(object[t].size, k) THEN "ready" ELSE "emplace"]
  <1>2. /\ client[t].at = "submit" /\ client' = [client EXCEPT ![t] = c] /\ object' = object
        /\ plugged /\ pending' = [pending EXCEPT ![e] = Append(@, u)]
        /\ UNCHANGED <<completed, plugged>>
        /\ UNCHANGED <<reaper, context, errno, wild, device, running>>
    BY <1>1 DEF SubmitUrb, KernelSubmit, reaperVars, deviceVars
  <1>3. Planned(t) /\ (~object[t].error => Counted(t)) /\ Told(t) /\ FullUnlessLast(t)
    BY DEF IInv, ObjectsOK
  <1>4. /\ k \in Nat \ {0} /\ DOMAIN object[t].urb = 1 .. k /\ k <= UrbCount(object[t].size)
        /\ UrbCount(object[t].size) \in Nat
        /\ object[t].urb[k].status = "none" /\ object[t].urb[k].notified = 0
        /\ \A i \in 1 .. k : object[t].urb[i] \in Urbs
    <2>1. /\ DOMAIN object[t].urb = 1 .. k /\ object[t].size \in Nat
          /\ \A i \in 1 .. k : object[t].urb[i] \in Urbs
      BY <1>1, OneObject DEF IInv
    <2>2. /\ k >= 1 /\ k <= UrbCount(object[t].size)
          /\ object[t].urb[k].status = "none" /\ object[t].urb[k].notified = 0
      BY <1>1, <1>2, <1>3 DEF Planned
    <2>3. UrbCount(object[t].size) \in Nat
      BY <2>1, PlanNumbers
    <2> QED BY <2>1, <2>2, <2>3
  <1>5. u \in Blocks /\ u.transfer = t /\ u.index = k
    BY <1>4 DEF Urb, Blocks
  <1>6. /\ e \in Endpoints /\ pending[e] \in Seq(Blocks)
        /\ pending'[e] \in Seq(Blocks) /\ Len(pending'[e]) = Len(pending[e]) + 1
        /\ DOMAIN pending'[e] = 1 .. (Len(pending[e]) + 1) /\ DOMAIN pending[e] = 1 .. Len(pending[e])
        /\ pending'[e][Len(pending[e]) + 1] = u
        /\ \A j \in DOMAIN pending[e] : pending'[e][j] = pending[e][j]
        /\ \A d \in Endpoints \ {e} : pending'[d] = pending[d]
    <2>1. e \in Endpoints /\ pending \in [Endpoints -> Seq(Blocks)]
      BY DEF IInv, TypeOK
    <2>2. pending'[e] = Append(pending[e], u) /\ \A d \in Endpoints \ {e} : pending'[d] = pending[d]
      BY <1>2, <2>1
    <2> HIDE DEF u
    <2> QED BY <1>5, <2>1, <2>2
  <1> HIDE DEF u
  <1>7. c \in Clients /\ c.at \in {"ready", "emplace"} /\ (c.at = "ready" <=> k = UrbCount(object[t].size))
    BY DEF Clients, IsLast
  <1> HIDE DEF c
  <1>8. TypeOK'
    <2>1. pending' \in [Endpoints -> Seq(Blocks)]
      BY <1>2, <1>5, <1>6 DEF IInv, TypeOK
    <2>2. client' \in [Transfers -> Clients]
      BY <1>2, <1>7 DEF IInv, TypeOK
    <2> QED BY <1>2, <2>1, <2>2 DEF IInv, TypeOK
  <1>9. client'[t] = c /\ OthersStay(t)
    BY <1>2 DEF IInv, TypeOK, OthersStay
  <1>10. ObjectsOK'
    <2>1. Planned(t)'
      <3>1. Len(object[t].urb) = k
        BY <1>1
      <3>2. k < UrbCount(object[t].size) \/ c.at = "ready"
        BY <1>4, <1>7
      <3> QED BY <1>2, <1>3, <1>4, <1>7, <1>9, <3>1, <3>2 DEF Planned
    <2>2. (~object[t].error => Counted(t))'
      BY <1>2, <1>3, <1>7, <1>9 DEF Counted
    <2>3. Told(t)'
      BY <1>2, <1>3, <1>7, <1>9 DEF Told, Failed
    <2>4. FullUnlessLast(t)'
      BY <1>2, <1>3 DEF FullUnlessLast, Full, Urb
    <2> QED BY <1>2, <1>9, <2>1, <2>2, <2>3, <2>4, OtherObjects
  <1>11. InFlight' = InFlight \cup {u} /\ Finished' = Finished
    <2>1. ASSUME NEW v \in InFlight' PROVE v \in InFlight \cup {u}
      <3>1. PICK d \in Endpoints : \E j \in DOMAIN pending'[d] : pending'[d][j] = v
        BY <2>1, WherePending DEF InFlight
      <3>2. PICK j \in DOMAIN pending'[d] : pending'[d][j] = v
        BY <3>1
      <3>3. v = u \/ \E i \in DOMAIN pending[d] : pending[d][i] = v
        BY <1>6, <3>2
      <3> QED BY <3>3, WherePending DEF InFlight
    <2>2. ASSUME NEW v \in InFlight PROVE v \in InFlight'
      <3>1. PICK d \in Endpoints : \E j \in DOMAIN pending[d] : pending[d][j] = v
        BY <2>2, WherePending DEF InFlight
      <3>2. \E j \in DOMAIN pending'[d] : pending'[d][j] = v
        BY <1>6, <3>1
      <3> QED BY <3>2, WherePending DEF InFlight
    <2>3. u \in InFlight'
      <3>1. Len(pending[e]) + 1 \in DOMAIN pending'[e]
        BY <1>6
      <3> QED BY <1>6, <3>1, WherePending DEF InFlight
    <2> QED BY <1>2, <2>1, <2>2, <2>3 DEF Finished
  <1>12. ASSUME NEW v \in InFlight \cup Finished
         PROVE  v \in Blocks /\ v # u /\ OnItsWay(v)' /\ (v.transfer = t => v.index < k)
    <2>1. v \in Blocks /\ OnItsWay(v)
      BY KernelBlocks
    <2>2. v.transfer = t => v.index < k /\ v.index # k
      BY <1>1, <1>2, <1>4, <2>1 DEF OnItsWay
    <2>3. OnItsWay(v)'
      BY <1>2, <1>7, <1>9, <2>1 DEF OnItsWay, OthersStay, Live, Blocks
    <2> QED BY <1>5, <2>1, <2>2, <2>3
  <1>13. OnItsWay(u)'
    <2>1. /\ u.index \in DOMAIN object'[u.transfer].urb
          /\ object'[u.transfer].urb[u.index].status = "none" /\ object'[u.transfer].urb[u.index].notified = 0
      BY <1>2, <1>4, <1>5
    <2>2. client'[u.transfer].at # "submit" /\ Live(u.transfer)'
      BY <1>5, <1>7, <1>9 DEF Live
    <2> QED BY <2>1, <2>2 DEF OnItsWay
  <1>14. PendingOK'
    <2>1. ASSUME NEW d \in Endpoints, NEW j \in DOMAIN pending'[d]
          PROVE  /\ OnItsWay(pending[d][j])' /\ EndpointOf[pending'[d][j].transfer] = d
      <3>1. CASE pending'[d][j] = u /\ d = e
        BY <1>1, <1>5, <1>13, <3>1
      <3>2. CASE j \in DOMAIN pending[d] /\ pending'[d][j] = pending[d][j]
        <4>1. pending[d][j] \in InFlight
          BY <3>2, WherePending DEF InFlight
        <4> QED BY <1>12, <3>2, <4>1 DEF IInv, PendingOK
      <3> QED BY <1>6, <3>1, <3>2
    <2>2. ASSUME NEW d \in Endpoints, NEW i \in DOMAIN pending'[d], NEW j \in DOMAIN pending'[d],
                 i < j, pending'[d][i].transfer = pending'[d][j].transfer
          PROVE  pending'[d][i].index < pending'[d][j].index
      <3>1. CASE j \in DOMAIN pending[d] /\ i \in DOMAIN pending[d]
        <4>1. pending'[d][i] = pending[d][i] /\ pending'[d][j] = pending[d][j]
          BY <1>6, <3>1
        <4> QED BY <2>2, <3>1, <4>1 DEF IInv, PendingOK
      <3>2. CASE ~(j \in DOMAIN pending[d] /\ i \in DOMAIN pending[d])
        <4>1. d = e /\ j = Len(pending[e]) + 1 /\ i \in DOMAIN pending[e] /\ pending'[d][j] = u
          BY <1>6, <2>2, <3>2
        <4>2. pending'[d][i] = pending[e][i] /\ pending[e][i] \in InFlight
          <5>1. pending[e][i] \in InFlight
            BY <4>1, WherePending DEF InFlight
          <5> QED BY <1>6, <4>1, <5>1
        <4> QED BY <1>5, <1>12, <2>2, <4>1, <4>2
      <3> QED BY <3>1, <3>2
    <2> QED BY <2>1, <2>2 DEF PendingOK
  <1>15. CompletedOK'
    <2>1. ASSUME NEW j \in DOMAIN completed
          PROVE  OnItsWay(completed[j].urb)' /\ completed[j].urb \notin InFlight'
      <3>1. completed[j].urb \in Finished
        BY DEF Finished
      <3>2. OnItsWay(completed[j].urb)'
        BY <1>2, <1>12, <3>1
      <3>3. completed[j].urb \notin InFlight
        BY DEF IInv, CompletedOK
      <3> QED BY <1>11, <1>12, <3>1, <3>2, <3>3
    <2> QED BY <1>2, <2>1 DEF IInv, CompletedOK, Full
  <1>16. InOrder'
    BY <1>2 DEF IInv, InOrder, InHand
  <1>17. NothingLost'
    <2> SUFFICES ASSUME NEW s \in Transfers, Live(s)', ~object[s].error, NEW m \in Unfinished(s)
                 PROVE  \/ Urb(s, m) \in InFlight' \cup Finished'
                        \/ InHand(Urb(s, m))
                        \/ client'[s].at = "submit" /\ m = Len(object[s].urb)
      BY <1>2 DEF NothingLost, InHand, Unfinished
    <2>1. CASE s = t
      <3>1. Live(t)
        BY <1>2 DEF Live
      <3>2. CASE m = k
        BY <1>11, <2>1, <3>2 DEF u
      <3>3. CASE m # k
        BY <1>1, <1>2, <1>11, <2>1, <3>1, <3>3 DEF IInv, NothingLost
      <3> QED BY <3>2, <3>3
    <2>2. CASE s # t
      BY <1>2, <1>9, <1>11, <2>2 DEF IInv, NothingLost, OthersStay, Live
    <2> QED BY <2>1, <2>2
  <1>18. HandOK'
    <2> SUFFICES ASSUME reaper.at \in {"dispatch", "notify"} PROVE HandOK'
      BY <1>2 DEF HandOK
    <2>1. Live(context.transfer)'
      BY <1>2, <1>7, <1>9 DEF IInv, HandOK, OthersStay, Live, Blocks
    <2>2. context # u
      BY <1>4, <1>5 DEF IInv, HandOK
    <2> QED BY <1>2, <1>11, <2>1, <2>2 DEF IInv, HandOK
  <1>19. ErrorsEnd'
    <2>1. ASSUME reaper.at = "discard" PROVE Live(context.transfer)' /\ context # u
      BY <1>2, <1>4, <1>5, <1>7, <1>9, <2>1 DEF IInv, ErrorsEnd, OthersStay, Live, Blocks
    <2> QED BY <1>2, <1>11, <2>1 DEF IInv, ErrorsEnd
  <1>20. DestroyedLast'
    <2>1. Live(t) /\ device = "open"
      BY <1>2 DEF Live, IInv, DestroyedLast
    <2> QED BY <1>2, <2>1 DEF DestroyedLast
  <1> QED BY <1>2, <1>8, <1>10, <1>14, <1>15, <1>16, <1>17, <1>18, <1>19, <1>20 DEF IInv

LEMMA RefuseKeeps ==
    ASSUME IInv, ~LaterBlockRefused', NEW t \in Transfers, RefuseUrb(t), UNCHANGED <<reaperVars, deviceVars>>
    PROVE  IInv'
  <1> DEFINE c == [at |-> "discard", next |-> object[t].finishedUrbCount + 1]
  <1>1. /\ client[t].at = "submit" /\ object' = object /\ client' = [client EXCEPT ![t] = c]
        /\ UNCHANGED <<kernelVars, reaperVars, deviceVars>>
        /\ client'[t].at = "discard"
    BY DEF RefuseUrb, IInv, TypeOK
  <1>2. /\ Planned(t) /\ (~object[t].error => Counted(t)) /\ Told(t)
        /\ DOMAIN object[t].urb = 1 .. Len(object[t].urb) /\ Len(object[t].urb) \in Nat
        /\ object[t].finishedUrbCount \in Nat
    BY OneObject DEF IInv, ObjectsOK
  <1>3. Len(object[t].urb) = 1 /\ object[t].urb[1].status = "none"
    <2>1. PICK n \in Nat : n = Len(object[t].urb)
      BY <1>2
    <2>2. ~(n > 1)
      BY <1>1, <2>1 DEF LaterBlockRefused
    <2>3. n >= 1 /\ object[t].urb[n].status = "none"
      BY <1>1, <1>2, <2>1 DEF Planned
    <2>4. n = 1
      BY <2>2, <2>3
    <2> QED BY <2>1, <2>3, <2>4
  <1>4. ~object[t].error
    BY <1>2, <1>3 DEF Told, Failed
  <1>5. c \in Clients /\ c.at = "discard" /\ client'[t] = c
    BY <1>1, <1>2 DEF Clients, IInv, TypeOK
  <1> HIDE DEF c
  <1>6. Planned(t)'
    BY <1>1, <1>2, <1>3, <1>4, <1>5 DEF Planned
  <1>7. Told(t)'
    BY <1>1, <1>2, <1>5 DEF Told, Failed
  <1>8. Leaves(t)
    <2>1. ASSUME NEW u \in InFlight \cup Finished PROVE u.transfer # t
      <3> SUFFICES ASSUME u.transfer = t PROVE FALSE
        OBVIOUS
      <3>1. OnItsWay(u)
        BY KernelBlocks
      <3>2. u.index \in 1 .. 1 /\ u.index # 1
        BY <1>1, <1>2, <1>3, <3>1 DEF OnItsWay
      <3> QED BY <3>2
    <2>2. ASSUME reaper.at \in {"dispatch", "notify", "discard"} PROVE context.transfer # t
      BY <1>2, <1>3, <2>2 DEF IInv, HandOK, ErrorsEnd
    <2> QED BY <2>1, <2>2 DEF Leaves
  <1>9. ~Live(t)'
    BY <1>5 DEF Live
  <1> QED BY <1>1, <1>5, <1>6, <1>7, <1>8, <1>9, OneClientMoves

LEMMA DiscardKeeps ==
    ASSUME IInv, NEW t \in Transfers, DiscardUrb(t), UNCHANGED <<reaperVars, deviceVars>>
    PROVE  IInv'
  <1>1. PICK n : n = client[t].next
    OBVIOUS
  <1> DEFINE c == [at |-> "forget", next |-> n]
             u == Urb(t, n)
  <1>2. /\ client[t].at = "discard" /\ n <= Len(object[t].urb) /\ KernelDiscard(u)
        /\ object' = object /\ client' = [client EXCEPT ![t] = c]
    BY <1>1 DEF DiscardUrb
  <1>3. Planned(t) /\ Told(t) /\ client[t] \in Clients
    BY OneObject DEF IInv, ObjectsOK
  <1>4. n = 1
    <2>1. n \in Nat \ {0}
      BY <1>1, <1>2, <1>3 DEF Clients
    <2>2. Len(object[t].urb) = 1
      BY <1>2, <1>3 DEF Planned
    <2> QED BY <1>2, <2>1, <2>2
  <1>5. u \in Blocks /\ u.transfer = t
    BY <1>4 DEF Urb, Blocks
  <1>6. u \notin InFlight
    <2>1. u \in InFlight => OnItsWay(u)
      BY KernelBlocks
    <2> QED BY <1>2, <1>3, <1>5, <2>1 DEF OnItsWay, Planned, Live
  <1> HIDE DEF u
  <1>7. UNCHANGED kernelVars
    <2>1. pending \in [Endpoints -> Seq(Blocks)]
      BY DEF IInv, TypeOK
    <2>2. \A e \in Endpoints : RemoveFirst(pending[e], u) = pending[e]
      BY <1>6, <2>1, RemovingThins DEF InFlight
    <2>3. pending' = pending /\ completed' = completed /\ plugged' = plugged
      BY <1>2, <1>6, <2>1, <2>2 DEF KernelDiscard
    <2> QED BY <2>3 DEF kernelVars
  <1>8. c \in Clients /\ c.at = "forget" /\ c.next = 1 /\ client'[t] = c /\ plugged' = plugged
    BY <1>2, <1>4, <1>7 DEF Clients, IInv, TypeOK, kernelVars
  <1> HIDE DEF c
  <1>9. Planned(t)' /\ Told(t)' /\ ~Live(t) /\ ~Live(t)' /\ Leaves(t)
    BY <1>2, <1>3, <1>8 DEF Planned, Told, Failed, Live, Leaves
  <1> QED BY <1>2, <1>7, <1>8, <1>9, OneClientMoves

LEMMA ThrowKeeps ==
    ASSUME IInv, NEW t \in Transfers, ThrowFromConstructor(t) \/ (client[t].at \in {"returned", "threw"} /\ Destroy(t)),
           UNCHANGED <<reaperVars, deviceVars>>
    PROVE  IInv'
  <1> DEFINE c == [at |-> "destroyed"]
  <1>1. /\ client[t].at \in {"discard", "returned", "threw"}
        /\ object' = object /\ client' = [client EXCEPT ![t] = c]
        /\ UNCHANGED <<kernelVars, reaperVars, deviceVars>> /\ plugged' = plugged
    BY DEF ThrowFromConstructor, Destroy, kernelVars
  <1>2. Planned(t) /\ Told(t)
    BY DEF IInv, ObjectsOK
  <1>3. c \in Clients /\ c.at = "destroyed" /\ client'[t] = c
    BY <1>1 DEF Clients, IInv, TypeOK
  <1> HIDE DEF c
  <1>4. Planned(t)' /\ Told(t)' /\ ~Live(t) /\ ~Live(t)' /\ Leaves(t)
    BY <1>1, <1>2, <1>3 DEF Planned, Told, Failed, Live, Leaves
  <1> QED BY <1>1, <1>3, <1>4, OneClientMoves

LEMMA WaitKeeps ==
    ASSUME IInv, NEW t \in Transfers, Wait(t) \/ WakeSpuriously(t), UNCHANGED <<reaperVars, deviceVars>>
    PROVE  IInv'
  <1>1. /\ Planned(t) /\ (~object[t].error => Counted(t)) /\ Told(t) /\ object[t].finishedBytes \in Nat
        /\ DOMAIN object[t].urb = 1 .. Len(object[t].urb) /\ Len(object[t].urb) \in Nat
        /\ object[t].finishedUrbCount \in Nat
    BY OneObject DEF IInv, ObjectsOK, Fields
  <1>2. /\ client[t].at \in {"ready", "woken", "blocked"} /\ object' = object
        /\ UNCHANGED <<kernelVars, reaperVars, deviceVars>> /\ plugged' = plugged
    BY DEF Wait, WakeSpuriously, kernelVars
  <1>3. Live(t) /\ Len(object[t].urb) = UrbCount(object[t].size)
    BY <1>1, <1>2 DEF Live, Planned
  <1>4. CASE \E c \in [at : {"blocked", "woken"}] : client' = [client EXCEPT ![t] = c]
    <2>1. PICK c \in [at : {"blocked", "woken"}] : client' = [client EXCEPT ![t] = c]
      BY <1>4
    <2>2. c \in Clients /\ c.at \in {"blocked", "woken"} /\ client'[t] = c
      BY <2>1 DEF Clients, IInv, TypeOK
    <2>3. Planned(t)' /\ Told(t)' /\ Live(t)' /\ Leaves(t)
      BY <1>1, <1>2, <1>3, <2>2 DEF Planned, Told, Failed, Live, Leaves
    <2> QED BY <1>2, <1>3, <2>1, <2>2, <2>3, OneClientMoves
  <1>5. CASE object[t].error /\ ~object[t].locked /\ client' = [client EXCEPT ![t] = [at |-> "threw"]]
    <2> DEFINE c == [at |-> "threw"]
    <2>2. c \in Clients /\ c.at = "threw" /\ client'[t] = c /\ client' = [client EXCEPT ![t] = c]
      BY <1>5 DEF Clients, IInv, TypeOK
    <2> HIDE DEF c
    <2>3. Planned(t)' /\ Told(t)'
      BY <1>1, <1>2, <1>3, <1>5, <2>2 DEF Planned, Told, Failed
    <2>4. ASSUME reaper.at \in {"dispatch", "notify", "discard"} PROVE context.transfer # t
      BY <1>5, <2>4 DEF IInv, ErrorsEnd
    <2>5. Leaves(t) /\ ~Live(t)'
      BY <1>5, <2>2, <2>4 DEF Leaves, Live
    <2> QED BY <1>2, <1>3, <2>2, <2>3, <2>5, OneClientMoves
  <1>6. CASE /\ ~object[t].error /\ object[t].finishedUrbCount = Len(object[t].urb)
             /\ client' = [client EXCEPT ![t] = [at |-> "returned", bytes |-> object[t].finishedBytes]]
    <2> DEFINE c == [at |-> "returned", bytes |-> object[t].finishedBytes]
    <2>2. /\ c \in Clients /\ c.at = "returned" /\ c.bytes = object[t].finishedBytes
          /\ client'[t] = c /\ client' = [client EXCEPT ![t] = c]
      BY <1>1, <1>6 DEF Clients, IInv, TypeOK
    <2> HIDE DEF c
    <2>3. Planned(t)' /\ Told(t)'
      BY <1>1, <1>2, <1>3, <1>6, <2>2 DEF Planned, Told, Failed
    <2>4. \A i \in DOMAIN object[t].urb : object[t].urb[i].notified = 1
      BY <1>1, <1>6 DEF Counted
    <2>5. ASSUME reaper.at \in {"dispatch", "notify", "discard"} PROVE context.transfer # t
      BY <1>6, <2>4, <2>5 DEF IInv, HandOK, ErrorsEnd
    <2>6. ASSUME NEW u \in InFlight \cup Finished PROVE u.transfer # t
      <3>1. OnItsWay(u)
        BY KernelBlocks
      <3> QED BY <2>4, <3>1 DEF OnItsWay
    <2>7. Leaves(t) /\ ~Live(t)'
      BY <2>2, <2>5, <2>6 DEF Leaves, Live
    <2> QED BY <1>2, <1>3, <2>2, <2>3, <2>7, OneClientMoves
  <1> QED BY <1>4, <1>5, <1>6 DEF Wait, WakeSpuriously, WaitIsOver, AllFinished

(* What a change of one block does to the vector.                          *)
LEMMA ChangedUrb ==
    ASSUME NEW s \in Seq(Urbs), NEW i \in DOMAIN s, NEW b \in Urbs, NEW r, r = [s EXCEPT ![i] = b]
    PROVE  /\ r \in Seq(Urbs) /\ Len(r) = Len(s) /\ DOMAIN r = DOMAIN s /\ r[i] = b
           /\ \A j \in DOMAIN s : j # i => r[j] = s[j]
  OBVIOUS

LEMMA ForgottenUrb ==
    ASSUME NEW old \in Fields, NEW i \in DOMAIN old.urb,
           NEW o, o = [old EXCEPT !.urb[i].userContext = FALSE]
    PROVE  /\ o \in Fields /\ Len(o.urb) = Len(old.urb) /\ DOMAIN o.urb = DOMAIN old.urb
           /\ o.size = old.size /\ o.finishedUrbCount = old.finishedUrbCount
           /\ o.finishedBytes = old.finishedBytes /\ o.error = old.error /\ o.locked = old.locked
           /\ \A j \in DOMAIN old.urb :
                 /\ o.urb[j].length = old.urb[j].length /\ o.urb[j].flags = old.urb[j].flags
                 /\ o.urb[j].status = old.urb[j].status /\ o.urb[j].actual = old.urb[j].actual
                 /\ o.urb[j].notified = old.urb[j].notified
  <1> DEFINE b == [old.urb[i] EXCEPT !.userContext = FALSE]
             r == [old.urb EXCEPT ![i] = b]
  <1>1. old.urb \in Seq(Urbs) /\ old.urb[i] \in Urbs
    BY DEF Fields
  <1>2. /\ b \in Urbs /\ b.length = old.urb[i].length /\ b.flags = old.urb[i].flags
        /\ b.status = old.urb[i].status /\ b.actual = old.urb[i].actual
        /\ b.notified = old.urb[i].notified
    BY <1>1 DEF Urbs
  <1>3. o = [old EXCEPT !.urb = r]
    OBVIOUS
  <1> HIDE DEF b
  <1>4. /\ r \in Seq(Urbs) /\ Len(r) = Len(old.urb) /\ DOMAIN r = DOMAIN old.urb /\ r[i] = b
        /\ \A j \in DOMAIN old.urb : j # i => r[j] = old.urb[j]
    BY <1>1, <1>2, ChangedUrb
  <1> HIDE DEF r
  <1>5. /\ o \in Fields /\ o.urb = r
        /\ o.size = old.size /\ o.finishedUrbCount = old.finishedUrbCount
        /\ o.finishedBytes = old.finishedBytes /\ o.error = old.error /\ o.locked = old.locked
    BY <1>3, <1>4 DEF Fields
  <1> QED BY <1>2, <1>4, <1>5

LEMMA ForgetKeeps ==
    ASSUME IInv, NEW t \in Transfers, ForgetUrb(t), UNCHANGED <<reaperVars, deviceVars>>
    PROVE  IInv'
  <1> DEFINE c == [at |-> "discard", next |-> client[t].next + 1]
             o == [object[t] EXCEPT !.urb[1].userContext = FALSE]
  <1>1. Planned(t) /\ (~object[t].error => Counted(t)) /\ Told(t) /\ FullUnlessLast(t)
    BY DEF IInv, ObjectsOK
  <1>2. /\ client[t].at = "forget" /\ client[t].next = 1 /\ Len(object[t].urb) = 1
        /\ object' = [object EXCEPT ![t] = o] /\ client' = [client EXCEPT ![t] = c]
        /\ UNCHANGED <<kernelVars, reaperVars, deviceVars>> /\ plugged' = plugged
    BY <1>1 DEF ForgetUrb, Planned, kernelVars
  <1>3. /\ object[t] \in Fields /\ object[t].urb \in Seq(Urbs) /\ DOMAIN object[t].urb = 1 .. 1
        /\ object[t].urb[1] \in Urbs
    BY <1>2, OneObject DEF IInv
  <1>4. /\ o \in Fields /\ Len(o.urb) = Len(object[t].urb) /\ DOMAIN o.urb = DOMAIN object[t].urb
        /\ o.size = object[t].size /\ o.finishedUrbCount = object[t].finishedUrbCount
        /\ o.finishedBytes = object[t].finishedBytes
        /\ o.error = object[t].error /\ o.locked = object[t].locked
        /\ \A j \in DOMAIN object[t].urb :
              /\ o.urb[j].length = object[t].urb[j].length /\ o.urb[j].flags = object[t].urb[j].flags
              /\ o.urb[j].status = object[t].urb[j].status /\ o.urb[j].actual = object[t].urb[j].actual
              /\ o.urb[j].notified = object[t].urb[j].notified
    <2>1. 1 \in DOMAIN object[t].urb
      BY <1>3
    <2> QED BY <1>3, <2>1, ForgottenUrb
  <1>5. c \in Clients /\ c.at = "discard"
    BY <1>2 DEF Clients
  <1> HIDE DEF o, c
  <1>6. TypeOK' /\ OthersStay(t) /\ object'[t] = o /\ client'[t] = c
    BY <1>2, <1>4, <1>5, OneClient DEF IInv
  <1>7. Planned(t)'
    <2>1. \A i \in DOMAIN o.urb : /\ o.urb[i].length = UrbLength(o.size, i)
                                  /\ o.urb[i].flags = UrbFlags(o.size, Dir(t), i)
      BY <1>1, <1>4 DEF Planned
    <2>2. Len(o.urb) <= UrbCount(o.size) /\ Len(o.urb) = 1 /\ ~o.error
      BY <1>1, <1>2, <1>4 DEF Planned
    <2> QED BY <1>5, <1>6, <2>1, <2>2 DEF Planned
  <1>8. (~object[t].error => Counted(t))'
    <2> SUFFICES ASSUME ~object[t].error PROVE Counted(t)'
      BY <1>4, <1>6
    <2>1. Actuals(o.urb) = Actuals(object[t].urb)
      BY <1>4 DEF Actuals
    <2>2. /\ o.finishedUrbCount <= Len(o.urb)
          /\ o.finishedBytes = Total(Actuals(o.urb), o.finishedUrbCount)
      BY <1>1, <1>4, <2>1 DEF Counted
    <2>3. \A i \in DOMAIN o.urb :
              /\ o.urb[i].notified = (IF i <= o.finishedUrbCount THEN 1 ELSE 0)
              /\ i <= o.finishedUrbCount => o.urb[i].status = "ok"
      BY <1>1, <1>4 DEF Counted
    <2> QED BY <1>5, <1>6, <2>2, <2>3 DEF Counted
  <1>9. Told(t)' /\ FullUnlessLast(t)'
    BY <1>1, <1>3, <1>4, <1>5, <1>6 DEF Told, Failed, FullUnlessLast, Full, Urb
  <1>10. ObjectsOK'
    BY <1>2, <1>6, <1>7, <1>8, <1>9, OtherObjects
  <1>11. ~Live(t) /\ ~Live(t)'
    BY <1>2, <1>5, <1>6 DEF Live
  <1>12. Grows(t) /\ Leaves(t) /\ Comes(t) /\ client'[t].at # "submit"
    BY <1>2, <1>3, <1>4, <1>5, <1>6, <1>11 DEF Grows, Leaves, Comes
  <1>13. PendingOK' /\ CompletedOK' /\ InOrder' /\ NothingLost' /\ HandOK' /\ ErrorsEnd' /\ DestroyedLast'
    BY <1>2, <1>6, <1>11, <1>12, ClientFrame
  <1> QED BY <1>2, <1>6, <1>10, <1>13 DEF IInv, reaperVars

LEMMA ClientKeeps ==
    ASSUME ClientsWait, IInv, ~LaterBlockRefused', NEW t \in Transfers, TransferStep(t)
    PROVE  IInv'
  <1>1. UNCHANGED <<reaperVars, deviceVars>>
    BY DEF TransferStep
  <1>2. CASE Construct(t) /\ device = "open"
    BY <1>1, <1>2, ConstructKeeps
  <1>3. CASE EmplaceUrb(t)
    BY <1>1, <1>3, EmplaceKeeps
  <1>4. CASE SubmitUrb(t)
    BY <1>1, <1>4, SubmitKeeps
  <1>5. CASE RefuseUrb(t)
    BY <1>1, <1>5, RefuseKeeps
  <1>6. CASE DiscardUrb(t)
    BY <1>1, <1>6, DiscardKeeps
  <1>7. CASE ForgetUrb(t)
    BY <1>1, <1>7, ForgetKeeps
  <1>8. CASE ThrowFromConstructor(t)
    <2>1. ThrowFromConstructor(t) \/ (client[t].at \in {"returned", "threw"} /\ Destroy(t))
      BY <1>8
    <2> QED BY <1>1, <2>1, ThrowKeeps
  <1>9. CASE Wait(t) \/ WakeSpuriously(t)
    BY <1>1, <1>9, WaitKeeps
  <1>10. CASE Destroy(t)
    <2>1. client[t].at \in {"returned", "threw"}
      BY <1>10 DEF Destroy, ClientsWait
    <2>2. ThrowFromConstructor(t) \/ (client[t].at \in {"returned", "threw"} /\ Destroy(t))
      BY <1>10, <2>1
    <2> QED BY <1>1, <2>2, ThrowKeeps
  <1> QED BY <1>2, <1>3, <1>4, <1>5, <1>6, <1>7, <1>8, <1>9, <1>10 DEF TransferStep, ClientStep

-----------------------------------------------------------------------------
(* The kernel.  Blocks leave the queues of their endpoints, which keep     *)
(* their order, and are appended to the completed ones.                    *)
Alike == \A s \in Transfers :
    LET o == object[s]
        n == object'[s]
    IN  /\ n.size = o.size /\ n.finishedUrbCount = o.finishedUrbCount /\ n.error = o.error
        /\ Len(n.urb) = Len(o.urb) /\ DOMAIN n.urb = DOMAIN o.urb
        /\ \A i \in DOMAIN o.urb : n.urb[i].status = o.urb[i].status /\ n.urb[i].notified = o.urb[i].notified

(* A block that comes back well does so after all the ones before it.      *)
NextInOrder(u) ==
    ~object[u.transfer].error =>
        \A m \in (object[u.transfer].finishedUrbCount + 1) .. (u.index - 1) :
            InHand(Urb(u.transfer, m)) \/ \E k \in DOMAIN completed : completed[k].urb = Urb(u.transfer, m)

Completes(more) ==
    /\ completed' = completed \o more
    /\ pending' \in [Endpoints -> Seq(Blocks)]
    /\ \A e \in Endpoints : Thinned(pending'[e], pending[e])
    /\ \A i \in DOMAIN more : more[i].urb \in InFlight \ InFlight'
    /\ \A i, j \in DOMAIN more : i # j => more[i].urb # more[j].urb
    /\ \A i \in DOMAIN more : more[i].status = "ok" => Full(more[i].urb, more[i].actual) /\ NextInOrder(more[i].urb)

LEMMA KernelFrame ==
    ASSUME IInv, NEW more \in Seq(Answers), Completes(more), client' = client, Alike,
           \A u : InHand(u)' <=> InHand(u)
    PROVE  /\ PendingOK' /\ CompletedOK' /\ InOrder'
           /\ completed' \in Seq(Answers)
           /\ InFlight' \subseteq InFlight /\ Finished \subseteq Finished'
           /\ Finished' \subseteq Finished \cup InFlight
           /\ \A i \in DOMAIN more : more[i].urb \in Finished'
           /\ completed # <<>> => completed' # <<>>
  <1>1. PICK n \in Nat : n = Len(completed)
    BY DEF IInv, TypeOK
  <1>2. /\ completed' \in Seq(Answers) /\ DOMAIN completed = 1 .. n /\ DOMAIN more = 1 .. Len(more)
        /\ DOMAIN completed' = 1 .. (n + Len(more)) /\ Len(more) \in Nat
        /\ \A i \in 1 .. n : completed'[i] = completed[i] /\ i \in DOMAIN completed'
        /\ \A i \in 1 .. Len(more) : completed'[n + i] = more[i] /\ n + i \in DOMAIN completed'
    <2>1. completed \in Seq(Answers) /\ completed' = completed \o more
      BY DEF IInv, TypeOK, Completes
    <2>2. /\ completed' \in Seq(Answers) /\ Len(completed') = n + Len(more)
          /\ \A i \in 1 .. (n + Len(more)) : completed'[i] = IF i <= n THEN completed[i] ELSE more[i - n]
      BY <1>1, <2>1, ConcatProperties
    <2>3. \A i \in 1 .. Len(more) : (n + i) - n = i /\ ~(n + i <= n) /\ n + i \in 1 .. (n + Len(more))
      OBVIOUS
    <2> QED BY <1>1, <2>1, <2>2, <2>3
  <1>3. ASSUME NEW i \in DOMAIN completed'
        PROVE  i \in DOMAIN completed \/ \E k \in DOMAIN more : i = n + k
    <2>1. i \notin 1 .. n => i - n \in 1 .. Len(more) /\ i = n + (i - n)
      BY <1>2
    <2> QED BY <1>2, <2>1
  <1>4. ASSUME NEW u \in InFlight \cup Finished
        PROVE  /\ u \in Blocks /\ OnItsWay(u)'
               /\ object'[u.transfer].size = object[u.transfer].size
               /\ object'[u.transfer].error = object[u.transfer].error
               /\ object'[u.transfer].finishedUrbCount = object[u.transfer].finishedUrbCount
    <2>1. u \in Blocks /\ OnItsWay(u)
      BY KernelBlocks
    <2> QED BY <2>1 DEF OnItsWay, Alike, Blocks, Live
  <1>5. ASSUME NEW e \in Endpoints
        PROVE  \E f \in [DOMAIN pending'[e] -> DOMAIN pending[e]] :
                   /\ \A j \in DOMAIN pending'[e] : pending'[e][j] = pending[e][f[j]]
                   /\ \A j, k \in DOMAIN pending'[e] : j < k => f[j] < f[k]
    BY DEF Completes, Thinned
  <1>6. InFlight' \subseteq InFlight
    <2> SUFFICES ASSUME NEW u \in InFlight' PROVE u \in InFlight
      OBVIOUS
    <2>1. PICK e \in Endpoints : \E j \in DOMAIN pending'[e] : pending'[e][j] = u
      BY WherePending DEF InFlight
    <2>2. PICK j \in DOMAIN pending'[e] : pending'[e][j] = u
      BY <2>1
    <2>3. \E i \in DOMAIN pending[e] : pending[e][i] = u
      BY <1>5, <2>2
    <2> QED BY <2>3, WherePending DEF InFlight
  <1>7. PendingOK'
    <2> SUFFICES ASSUME NEW e \in Endpoints
                 PROVE  /\ \A j \in DOMAIN pending'[e] : OnItsWay(pending[e][j])' /\ EndpointOf[pending'[e][j].transfer] = e
                        /\ \A j, k \in DOMAIN pending'[e] :
                              j < k /\ pending'[e][j].transfer = pending'[e][k].transfer
                                  => pending'[e][j].index < pending'[e][k].index
      BY DEF PendingOK
    <2>1. PICK f \in [DOMAIN pending'[e] -> DOMAIN pending[e]] :
                   /\ \A j \in DOMAIN pending'[e] : pending'[e][j] = pending[e][f[j]]
                   /\ \A j, k \in DOMAIN pending'[e] : j < k => f[j] < f[k]
      BY <1>5
    <2>2. ASSUME NEW j \in DOMAIN pending'[e] PROVE OnItsWay(pending[e][j])' /\ EndpointOf[pending'[e][j].transfer] = e
      <3>1. pending'[e][j] = pending[e][f[j]] /\ f[j] \in DOMAIN pending[e]
        BY <2>1
      <3>2. \A i \in DOMAIN pending[e] : pending[e][i] \in InFlight
        BY WherePending DEF InFlight
      <3>3. pending[e][f[j]] \in InFlight
        BY <3>1, <3>2
      <3> QED BY <1>4, <3>1, <3>3 DEF IInv, PendingOK
    <2>3. ASSUME NEW j \in DOMAIN pending'[e], NEW k \in DOMAIN pending'[e],
                 j < k, pending'[e][j].transfer = pending'[e][k].transfer
          PROVE  pending'[e][j].index < pending'[e][k].index
      <3>1. /\ pending'[e][j] = pending[e][f[j]] /\ f[j] \in DOMAIN pending[e]
            /\ pending'[e][k] = pending[e][f[k]] /\ f[k] \in DOMAIN pending[e] /\ f[j] < f[k]
        BY <2>1, <2>3
      <3> QED BY <2>3, <3>1 DEF IInv, PendingOK
    <2> QED BY <2>2, <2>3
  <1>8. /\ Finished \subseteq Finished' /\ Finished' \subseteq Finished \cup InFlight
        /\ \A i \in DOMAIN more : more[i].urb \in Finished'
    <2>1. \A i \in DOMAIN more : more[i].urb \in InFlight /\ more[i].urb \in Finished'
      BY <1>2 DEF Completes, Finished
    <2>2. Finished \subseteq Finished'
      BY <1>2 DEF Finished
    <2>3. ASSUME NEW u \in Finished' PROVE u \in Finished \cup InFlight
      <3>1. PICK i \in DOMAIN completed' : completed'[i].urb = u
        BY DEF Finished
      <3>2. CASE i \in DOMAIN completed
        BY <1>2, <3>1, <3>2 DEF Finished
      <3>3. CASE \E k \in DOMAIN more : i = n + k
        BY <1>2, <2>1, <3>1, <3>3
      <3> QED BY <1>3, <3>2, <3>3
    <2> QED BY <2>1, <2>2, <2>3
  <1>9. ASSUME NEW i \in DOMAIN completed
        PROVE  /\ completed'[i] = completed[i] /\ completed[i].urb \in Finished
               /\ completed[i].urb \notin InFlight
    BY <1>2 DEF IInv, CompletedOK, Finished
  <1>10. ASSUME NEW k \in DOMAIN more
         PROVE  completed'[n + k] = more[k] /\ more[k].urb \in InFlight /\ more[k].urb \notin InFlight'
    BY <1>2 DEF Completes
  <1>11. CompletedOK'
    <2>1. ASSUME NEW j \in DOMAIN completed'
          PROVE  /\ OnItsWay(completed[j].urb)' /\ completed'[j].urb \notin InFlight'
                 /\ completed'[j].status = "ok" => Full(completed[j].urb, completed[j].actual)'
      <3>1. CASE j \in DOMAIN completed
        <4>1. completed[j].status = "ok" => Full(completed[j].urb, completed[j].actual)
          BY <3>1 DEF IInv, CompletedOK
        <4>2. /\ completed'[j] = completed[j] /\ completed[j].urb \in Finished
              /\ completed[j].urb \notin InFlight
          BY <1>9, <3>1
        <4> QED BY <1>4, <1>6, <4>1, <4>2 DEF Full
      <3>2. CASE \E k \in DOMAIN more : j = n + k
        <4>1. PICK k \in DOMAIN more : j = n + k
          BY <3>2
        <4>2. completed'[j] = more[k] /\ more[k].urb \in InFlight /\ more[k].urb \notin InFlight'
          BY <1>10, <4>1
        <4>3. more[k].status = "ok" => Full(more[k].urb, more[k].actual)
          BY DEF Completes
        <4> QED BY <1>4, <4>2, <4>3 DEF Full
      <3> QED BY <1>3, <3>1, <3>2
    <2>2. ASSUME NEW i \in DOMAIN completed', NEW j \in DOMAIN completed', i # j
          PROVE  completed'[i].urb # completed'[j].urb
      <3>1. CASE i \in DOMAIN completed /\ j \in DOMAIN completed
        BY <1>9, <2>2, <3>1 DEF IInv, CompletedOK
      <3>2. CASE i \in DOMAIN completed /\ j \notin DOMAIN completed
        <4>1. PICK k \in DOMAIN more : j = n + k
          BY <1>3, <3>2
        <4> QED BY <1>9, <1>10, <3>2, <4>1
      <3>3. CASE i \notin DOMAIN completed /\ j \in DOMAIN completed
        <4>1. PICK k \in DOMAIN more : i = n + k
          BY <1>3, <3>3
        <4> QED BY <1>9, <1>10, <3>3, <4>1
      <3>4. CASE i \notin DOMAIN completed /\ j \notin DOMAIN completed
        <4>1. PICK k \in DOMAIN more : i = n + k
          BY <1>3, <3>4
        <4>2. PICK l \in DOMAIN more : j = n + l
          BY <1>3, <3>4
        <4>3. k # l
          BY <2>2, <4>1, <4>2
        <4> QED BY <1>10, <4>1, <4>2, <4>3 DEF Completes
      <3> QED BY <3>1, <3>2, <3>3, <3>4
    <2> QED BY <2>1, <2>2 DEF CompletedOK
  <1>12. InOrder'
    <2> SUFFICES ASSUME NEW j \in DOMAIN completed', completed'[j].status = "ok",
                        ~object'[completed'[j].urb.transfer].error,
                        NEW m \in (object'[completed'[j].urb.transfer].finishedUrbCount + 1) .. (completed'[j].urb.index - 1)
                 PROVE  \/ InHand(Urb(completed[j].urb.transfer, m))'
                        \/ \E i \in DOMAIN completed' : i < j /\ completed'[i].urb = Urb(completed'[j].urb.transfer, m)
      BY DEF InOrder, Urb
    <2>1. CASE j \in DOMAIN completed
      <3>1. completed'[j] = completed[j] /\ completed[j].urb \in Finished
        BY <1>9, <2>1
      <3>2. \/ InHand(Urb(completed[j].urb.transfer, m))
            \/ \E i \in DOMAIN completed : i < j /\ completed[i].urb = Urb(completed[j].urb.transfer, m)
        BY <1>4, <2>1, <3>1 DEF IInv, InOrder
      <3> QED BY <1>2, <3>1, <3>2 DEF Urb
    <2>2. CASE \E k \in DOMAIN more : j = n + k
      <3>1. PICK k \in DOMAIN more : j = n + k
        BY <2>2
      <3>2. completed'[j] = more[k] /\ more[k].urb \in InFlight
        BY <1>10, <3>1
      <3>3. NextInOrder(more[k].urb)
        BY <3>2 DEF Completes
      <3>4. \/ InHand(Urb(more[k].urb.transfer, m))
            \/ \E i \in DOMAIN completed : completed[i].urb = Urb(more[k].urb.transfer, m)
        BY <1>4, <3>2, <3>3 DEF NextInOrder
      <3>5. \A i \in DOMAIN completed : i < j /\ completed'[i] = completed[i] /\ i \in DOMAIN completed'
        BY <1>2, <3>1
      <3> QED BY <3>2, <3>4, <3>5 DEF Urb
    <2> QED BY <1>3, <2>1, <2>2
  <1>13. completed # <<>> => completed' # <<>>
    <2>1. completed # <<>> => 1 \in 1 .. n
      BY <1>1 DEF IInv, TypeOK
    <2>2. completed # <<>> => 1 \in DOMAIN completed'
      BY <1>2, <2>1
    <2> QED BY <1>2, <2>2
  <1> QED BY <1>2, <1>6, <1>7, <1>8, <1>11, <1>12, <1>13

LEMMA KernelMoves ==
    ASSUME IInv, NEW more \in Seq(Answers), Completes(more), UNCHANGED <<object, client, reaperVars, running>>,
           plugged' \in BOOLEAN, device' \in {device, "cleared"},
           device' # device => \A t \in Transfers : ~Live(t),
           \/ ~plugged' \/ \A t \in Transfers : ~Live(t)
           \/ plugged' = plugged /\ InFlight \subseteq InFlight' \cup Finished'
    PROVE  IInv'
  <1>1. UNCHANGED <<object, client, reaper, context, errno, wild, running>>
    BY DEF reaperVars
  <1>2. Alike
    BY <1>1 DEF Alike
  <1>3. \A u : InHand(u)' <=> InHand(u)
    BY <1>1 DEF InHand
  <1>4. /\ PendingOK' /\ CompletedOK' /\ InOrder'
        /\ completed' \in Seq(Answers)
        /\ InFlight' \subseteq InFlight /\ Finished \subseteq Finished'
        /\ Finished' \subseteq Finished \cup InFlight
        /\ completed # <<>> => completed' # <<>>
    BY <1>1, <1>2, <1>3, KernelFrame
  <1>5. TypeOK'
    BY <1>1, <1>4 DEF IInv, TypeOK, Completes
  <1>6. ObjectsOK'
    <2> SUFFICES ASSUME NEW t \in Transfers
                 PROVE  (Planned(t) /\ (~object[t].error => Counted(t)) /\ Told(t) /\ FullUnlessLast(t))'
      BY DEF ObjectsOK
    <2>1. Planned(t) /\ (~object[t].error => Counted(t)) /\ Told(t) /\ FullUnlessLast(t)
      BY DEF IInv, ObjectsOK
    <2>3. Planned(t)'
      BY <1>1, <2>1 DEF Planned
    <2>4. (~object[t].error => Counted(t))' /\ Told(t)' /\ FullUnlessLast(t)'
      BY <1>1, <2>1 DEF Counted, Told, Failed, FullUnlessLast, Full, Urb
    <2> QED BY <2>3, <2>4
  <1>7. NothingLost'
    <2>1. CASE ~plugged'
      BY <2>1 DEF NothingLost
    <2>2. CASE \A t \in Transfers : ~Live(t)
      BY <1>1, <2>2 DEF NothingLost, Live
    <2>3. CASE plugged' = plugged /\ InFlight \subseteq InFlight' \cup Finished'
      <3> SUFFICES ASSUME NEW t \in Transfers, plugged, Live(t), ~object[t].error, NEW m \in Unfinished(t)
                   PROVE  \/ client[t].at = "submit" /\ m = Len(object[t].urb)
                          \/ Urb(t, m) \in InFlight' \cup Finished'
                          \/ InHand(Urb(t, m))
        BY <1>1, <2>3 DEF NothingLost, Live, InHand, Unfinished
      <3> QED BY <1>4, <2>3 DEF IInv, NothingLost
    <2> QED BY <2>1, <2>2, <2>3
  <1>8. HandOK'
    BY <1>1, <1>4 DEF IInv, HandOK, Live
  <1>9. ErrorsEnd'
    BY <1>1, <1>4 DEF IInv, ErrorsEnd, Live
  <1>10. DestroyedLast'
    BY <1>1 DEF IInv, DestroyedLast, Live
  <1> QED BY <1>1, <1>4, <1>5, <1>6, <1>7, <1>8, <1>9, <1>10 DEF IInv

(* The blocks in flight differ.                                            *)
LEMMA QueuesDiffer ==
    ASSUME IInv, NEW e \in Endpoints
    PROVE  /\ pending[e] \in Seq(Blocks)
           /\ \A i \in DOMAIN pending[e] : pending[e][i] \in InFlight
           /\ \A i, j \in DOMAIN pending[e] : pending[e][i] = pending[e][j] => i = j
           /\ \A d \in Endpoints : d # e => ToSet(pending[d]) \cap ToSet(pending[e]) = {}
  <1>1. pending[e] \in Seq(Blocks) /\ \A d \in Endpoints : pending[d] \in Seq(Blocks)
    BY DEF IInv, TypeOK
  <1>2. \A i \in DOMAIN pending[e] : pending[e][i] \in InFlight
    BY WherePending DEF InFlight
  <1>3. ASSUME NEW i \in DOMAIN pending[e], NEW j \in DOMAIN pending[e], i < j
        PROVE  pending[e][i] # pending[e][j]
    <2>1. pending[e][i] \in Blocks
      BY <1>1
    <2>2. pending[e][i].transfer = pending[e][j].transfer => pending[e][i].index < pending[e][j].index
      BY <1>3 DEF IInv, PendingOK
    <2> QED BY <2>1, <2>2 DEF Blocks
  <1>4. \A i, j \in DOMAIN pending[e] : pending[e][i] = pending[e][j] => i = j
    <2>1. \A i \in DOMAIN pending[e] : i \in Nat
      BY <1>1
    <2>2. \A i, j \in DOMAIN pending[e] : i = j \/ i < j \/ j < i
      BY <2>1
    <2> QED BY <1>3, <2>2
  <1>5. ASSUME NEW d \in Endpoints, d # e PROVE ToSet(pending[d]) \cap ToSet(pending[e]) = {}
    BY <1>5 DEF ToSet, IInv, PendingOK
  <1> QED BY <1>1, <1>2, <1>4, <1>5

(* One answer, of a device or of a cancellation.                           *)
LEMMA OneAnswers ==
    ASSUME IInv, NEW a \in Answers, a.urb \in InFlight, completed' = Append(completed, a),
           pending' \in [Endpoints -> Seq(Blocks)],
           \A e \in Endpoints : /\ Thinned(pending'[e], pending[e])
                                /\ ToSet(pending[e]) \ {a.urb} \subseteq ToSet(pending'[e])
                                /\ a.urb \notin ToSet(pending'[e]),
           a.status = "ok" => Full(a.urb, a.actual) /\ NextInOrder(a.urb)
    PROVE  Completes(<<a>>) /\ InFlight \ {a.urb} \subseteq InFlight' /\ <<a>> \in Seq(Answers)
  <1>1. <<a>> \in Seq(Answers) /\ DOMAIN <<a>> = {1} /\ <<a>>[1] = a
    OBVIOUS
  <1>2. completed' = completed \o <<a>>
    BY AppendIsConcat DEF IInv, TypeOK
  <1>3. a.urb \notin InFlight'
    BY DEF InFlight
  <1>4. InFlight \ {a.urb} \subseteq InFlight'
    BY DEF InFlight
  <1> QED BY <1>1, <1>2, <1>3, <1>4 DEF Completes

LEMMA DeviceAnswersKeeps ==
    ASSUME IInv, NEW e \in Endpoints, DeviceAnswers(e) \/ DeviceFails(e)
    PROVE  IInv'
  <1>1. /\ pending[e] # <<>> /\ plugged
        /\ UNCHANGED <<plugged, object, client, reaperVars, device, running>>
        /\ pending' = [pending EXCEPT ![e] = Tail(@)]
    BY DEF DeviceAnswers, DeviceFails, KernelComplete, KernelFail, deviceVars
  <1>2. PICK u : u = Head(pending[e])
    OBVIOUS
  <1>3. /\ pending[e] \in Seq(Blocks) /\ pending[e][1] = u /\ 1 \in DOMAIN pending[e]
        /\ u \in Blocks /\ u \in InFlight /\ u \notin Finished /\ OnItsWay(u)
    <2>1. /\ pending[e] \in Seq(Blocks) /\ pending[e][1] = u /\ 1 \in DOMAIN pending[e] /\ u \in Blocks
      BY <1>1, <1>2, QueuesDiffer
    <2>2. u \in InFlight
      BY <2>1, QueuesDiffer
    <2>3. u \notin Finished /\ OnItsWay(u)
      BY <2>2, KernelBlocks DEF IInv, CompletedOK, Finished
    <2> QED BY <2>1, <2>2, <2>3
  <1>4. /\ pending' \in [Endpoints -> Seq(Blocks)]
        /\ \A d \in Endpoints : /\ Thinned(pending'[d], pending[d])
                                 /\ ToSet(pending[d]) \ {u} \subseteq ToSet(pending'[d])
                                 /\ u \notin ToSet(pending'[d])
    <2>1. /\ Tail(pending[e]) \in Seq(Blocks) /\ Thinned(Tail(pending[e]), pending[e])
          /\ ToSet(pending[e]) \ {u} \subseteq ToSet(Tail(pending[e]))
          /\ u \notin ToSet(Tail(pending[e]))
      BY <1>1, <1>2, <1>3, TailThins, QueuesDiffer
    <2>2. pending'[e] = Tail(pending[e]) /\ \A d \in Endpoints : d # e => pending'[d] = pending[d]
      BY <1>1 DEF IInv, TypeOK
    <2>3. ASSUME NEW d \in Endpoints, d # e PROVE Thinned(pending[d], pending[d]) /\ u \notin ToSet(pending[d])
      <3>1. u \notin ToSet(pending[d])
        BY <1>3, <2>3, QueuesDiffer DEF ToSet
      <3>2. pending[d] \in Seq(Blocks)
        BY DEF IInv, TypeOK
      <3> QED BY <3>1, <3>2, RemovingThins
    <2>4. pending' \in [Endpoints -> Seq(Blocks)]
      BY <1>1, <2>1 DEF IInv, TypeOK
    <2> QED BY <2>1, <2>2, <2>3, <2>4
  <1>5. PICK a \in Answers :
            /\ a.urb = u /\ completed' = Append(completed, a)
            /\ a.status = "ok" => Full(u, a.actual)
    <2>1. CASE DeviceFails(e)
      <3>1. Answer(u, "error", 0) \in Answers /\ Answer(u, "error", 0).urb = u
            /\ Answer(u, "error", 0).status = "error"
        BY <1>3 DEF Answer, Answers
      <3>2. completed' = Append(completed, Answer(u, "error", 0))
        BY <1>2, <2>1 DEF DeviceFails, KernelFail
      <3> QED BY <3>1, <3>2
    <2>2. CASE DeviceAnswers(e)
      <3> DEFINE block == object[u.transfer].urb[u.index]
      <3>1. PICK n \in 0 .. block.length :
                /\ n = block.length \/ (e.dir = "in" /\ "ShortNotOk" \notin block.flags)
                /\ completed' = Append(completed, Answer(u, "ok", n))
        BY <1>2, <2>2 DEF DeviceAnswers, KernelComplete, Requested, UrbOf
      <3>2. /\ u.transfer \in Transfers /\ u.index \in DOMAIN object[u.transfer].urb
            /\ EndpointOf[u.transfer] = e /\ Planned(u.transfer)
        BY <1>3 DEF OnItsWay, Blocks, IInv, ObjectsOK, PendingOK
      <3>3. /\ block.length = UrbLength(object[u.transfer].size, u.index)
            /\ block.flags = UrbFlags(object[u.transfer].size, Dir(u.transfer), u.index)
        BY <3>2 DEF Planned
      <3>4. Full(u, n)
        <4> SUFFICES ASSUME ~IsLast(object[u.transfer].size, u.index) PROVE n = block.length
          BY <3>3 DEF Full
        <4> QED BY <3>1, <3>2, <3>3 DEF UrbFlags, Dir
      <3>5. n \in Nat
        <4>1. object[u.transfer].urb[u.index] \in Urbs
          BY <3>2, OneObject DEF IInv
        <4> QED BY <3>1, <4>1 DEF Urbs
      <3>6. /\ Answer(u, "ok", n) \in Answers /\ Answer(u, "ok", n).urb = u
            /\ Answer(u, "ok", n).actual = n
        BY <1>3, <3>5 DEF Answer, Answers
      <3> QED BY <3>1, <3>4, <3>6
    <2> QED BY <2>1, <2>2
  <1>6. NextInOrder(u)
    <2> SUFFICES ASSUME ~object[u.transfer].error,
                        NEW m \in (object[u.transfer].finishedUrbCount + 1) .. (u.index - 1),
                        ~InHand(Urb(u.transfer, m))
                 PROVE  Urb(u.transfer, m) \in Finished
      BY DEF NextInOrder, Finished
    <2>1. /\ u.transfer \in Transfers /\ u.index \in 1 .. Len(object[u.transfer].urb)
          /\ Live(u.transfer) /\ Len(object[u.transfer].urb) \in Nat
          /\ object[u.transfer].finishedUrbCount \in Nat
      BY <1>3, OneObject DEF OnItsWay, IInv, Blocks
    <2>2. m \in Unfinished(u.transfer) /\ m # Len(object[u.transfer].urb) /\ m < u.index /\ m \in Nat
      BY <2>1 DEF Unfinished
    <2>3. Urb(u.transfer, m) \in InFlight \cup Finished
      BY <1>1, <2>1, <2>2 DEF IInv, NothingLost
    <2>4. ASSUME Urb(u.transfer, m) \in InFlight PROVE FALSE
      <3>0. PICK v \in InFlight : v = Urb(u.transfer, m)
        BY <2>4
      <3>1. PICK d \in Endpoints : \E i \in DOMAIN pending[d] : pending[d][i] = v
        BY Queued
      <3>2. PICK j \in DOMAIN pending[d] : pending[d][j] = Urb(u.transfer, m)
        BY <3>0, <3>1
      <3>3. Urb(u.transfer, m).transfer = u.transfer /\ Urb(u.transfer, m).index = m
        BY DEF Urb
      <3>4. d = e
        BY <1>3, <3>2, <3>3 DEF IInv, PendingOK
      <3>5. j # 1 /\ 1 < j
        <4>1. j # 1
          BY <1>3, <2>2, <3>2, <3>3, <3>4
        <4>2. j \in 1 .. Len(pending[e])
          BY <1>3, <3>2, <3>4
        <4> QED BY <4>1, <4>2
      <3>6. u.index < m
        BY <1>3, <3>2, <3>3, <3>4, <3>5 DEF IInv, PendingOK
      <3> QED BY <2>1, <2>2, <3>6
    <2> QED BY <2>3, <2>4
  <1>7. Completes(<<a>>) /\ InFlight \ {u} \subseteq InFlight' /\ <<a>> \in Seq(Answers)
    BY <1>3, <1>4, <1>5, <1>6, OneAnswers
  <1>8. u \in Finished'
    <2>1. completed \in Seq(Answers)
      BY DEF IInv, TypeOK
    <2>2. Len(completed) + 1 \in DOMAIN completed' /\ completed'[Len(completed) + 1] = a
      BY <1>5, <2>1
    <2> QED BY <1>5, <2>2 DEF Finished
  <1>9. InFlight \subseteq InFlight' \cup Finished'
    BY <1>7, <1>8
  <1> QED BY <1>1, <1>7, <1>9, KernelMoves DEF IInv, TypeOK

LEMMA DiscardCompletes ==
    ASSUME IInv, NEW u \in Blocks, KernelDiscard(u)
    PROVE  /\ u \in InFlight => /\ Completes(<<Answer(u, "error", 0)>>)
                               /\ <<Answer(u, "error", 0)>> \in Seq(Answers)
                               /\ InFlight \ {u} \subseteq InFlight'
           /\ u \notin InFlight => UNCHANGED kernelVars
           /\ plugged' = plugged
  <1>1. pending \in [Endpoints -> Seq(Blocks)]
    BY DEF IInv, TypeOK
  <1>2. \A e \in Endpoints : pending'[e] = RemoveFirst(pending[e], u)
    BY DEF KernelDiscard
  <1>3. pending' = [e \in Endpoints |-> RemoveFirst(pending[e], u)] /\ plugged' = plugged
    BY DEF KernelDiscard
  <1>4. CASE u \in InFlight
    <2>1. PICK a : a = Answer(u, "error", 0)
      OBVIOUS
    <2>2. a \in Answers /\ a.urb = u /\ a.status = "error"
      BY <2>1 DEF Answer, Answers
    <2>3. \A e \in Endpoints : /\ RemoveFirst(pending[e], u) \in Seq(Blocks)
                               /\ Thinned(pending'[e], pending[e])
                               /\ ToSet(pending[e]) \ {u} \subseteq ToSet(pending'[e])
                               /\ u \notin ToSet(pending'[e])
      <3> SUFFICES ASSUME NEW e \in Endpoints
                   PROVE  /\ RemoveFirst(pending[e], u) \in Seq(Blocks)
                          /\ Thinned(pending'[e], pending[e])
                          /\ ToSet(pending[e]) \ {u} \subseteq ToSet(pending'[e])
                          /\ u \notin ToSet(pending'[e])
        OBVIOUS
      <3>1. /\ pending[e] \in Seq(Blocks)
            /\ \A i, j \in DOMAIN pending[e] : pending[e][i] = pending[e][j] => i = j
        BY QueuesDiffer
      <3> QED BY <1>2, <3>1, RemovingThins
    <2>4. pending' \in [Endpoints -> Seq(Blocks)]
      BY <1>3, <2>3
    <2>5. completed' = Append(completed, a)
      BY <1>4, <2>1 DEF KernelDiscard
    <2>6. Completes(<<a>>) /\ InFlight \ {u} \subseteq InFlight' /\ <<a>> \in Seq(Answers)
      BY <1>4, <2>2, <2>3, <2>4, <2>5, OneAnswers
    <2> QED BY <1>3, <1>4, <2>1, <2>6
  <1>5. CASE u \notin InFlight
    <2>1. \A e \in Endpoints : RemoveFirst(pending[e], u) = pending[e]
      BY <1>1, <1>5, RemovingThins DEF InFlight
    <2>2. pending' = pending /\ completed' = completed
      BY <1>1, <1>3, <1>5, <2>1 DEF KernelDiscard
    <2> QED BY <1>3, <1>5, <2>2 DEF kernelVars
  <1> QED BY <1>4, <1>5

LEMMA LastCompleted ==
    ASSUME IInv, NEW a \in Answers, Completes(<<a>>)
    PROVE  a.urb \in Finished'
  <1>1. completed \in Seq(Answers) /\ completed' = completed \o <<a>> /\ <<a>> \in Seq(Answers)
    BY DEF IInv, TypeOK, Completes
  <1>2. Len(completed) + 1 \in DOMAIN completed' /\ completed'[Len(completed) + 1] = a
    BY <1>1
  <1> QED BY <1>2 DEF Finished

LEMMA KernelCancelsKeeps ==
    ASSUME IInv, NEW u \in InFlight, KernelCancels(u)
    PROVE  IInv'
  <1>1. u \in Blocks /\ KernelDiscard(u)
    BY KernelBlocks DEF KernelCancels
  <1>2. UNCHANGED <<plugged, object, client, reaperVars, device, running>>
    BY DEF KernelCancels, KernelDiscard, deviceVars
  <1>3. /\ Completes(<<Answer(u, "error", 0)>>) /\ <<Answer(u, "error", 0)>> \in Seq(Answers)
        /\ InFlight \ {u} \subseteq InFlight'
    BY <1>1, DiscardCompletes
  <1>4. Answer(u, "error", 0) \in Answers /\ Answer(u, "error", 0).urb = u
    BY <1>1 DEF Answer, Answers
  <1>5. InFlight \subseteq InFlight' \cup Finished'
    BY <1>3, <1>4, LastCompleted
  <1> QED BY <1>2, <1>3, <1>5, KernelMoves DEF IInv, TypeOK

(* The queues are finite, and so is what is in flight.                     *)
LEMMA InFlightIsFinite ==
    ASSUME IInv
    PROVE  IsFiniteSet(InFlight)
  <1>1. ASSUME NEW e \in Endpoints PROVE IsFiniteSet(ToSet(pending[e]))
    <2>1. pending[e] \in Seq(Blocks)
      BY DEF IInv, TypeOK
    <2>2. IsFiniteSet(1 .. Len(pending[e]))
      BY <2>1, FS_Interval
    <2>3. ToSet(pending[e]) = {pending[e][i] : i \in 1 .. Len(pending[e])}
      BY <2>1 DEF ToSet
    <2> DEFINE f == [i \in 1 .. Len(pending[e]) |-> pending[e][i]]
    <2>4. f \in Surjection(1 .. Len(pending[e]), ToSet(pending[e]))
      BY <2>3 DEF Surjection
    <2> QED BY <2>2, <2>4, FS_Surjection
  <1>2. IsFiniteSet({ToSet(pending[e]) : e \in Endpoints})
    <2> DEFINE S == {ToSet(pending[e]) : e \in Endpoints}
               f == [e \in Endpoints |-> ToSet(pending[e])]
    <2>1. f \in Surjection(Endpoints, S)
      BY DEF Surjection
    <2> QED BY <2>1, EndpointsAssumption, FS_Surjection
  <1> QED BY <1>1, <1>2, FS_UNION DEF InFlight

LEMMA CancelAllKeeps ==
    ASSUME ClientsWait, IInv, Unplug \/ ClearInterfaces
    PROVE  IInv'
  <1>1. /\ KernelCancelAll /\ UNCHANGED <<object, client, reaperVars, running>>
        /\ pending' = [e \in Endpoints |-> <<>>]
    BY DEF Unplug, ClearInterfaces, KernelCancelAll, deviceVars
  <1>2. PICK order \in SetToSeqs(InFlight) :
            completed' = completed \o [i \in DOMAIN order |-> Answer(order[i], "error", 0)]
    BY <1>1 DEF KernelCancelAll
  <1>3. /\ order \in Seq(Blocks) /\ \A i \in DOMAIN order : order[i] \in InFlight
        /\ \A i, j \in DOMAIN order : i # j => order[i] # order[j]
    <2>1. InFlight \subseteq Blocks
      BY KernelBlocks
    <2> QED BY <2>1, InFlightIsFinite, CancelledInSomeOrder
  <1>4. PICK more : more = [i \in DOMAIN order |-> Answer(order[i], "error", 0)]
    OBVIOUS
  <1>5. /\ more \in Seq(Answers) /\ DOMAIN more = DOMAIN order
        /\ \A i \in DOMAIN order : more[i].urb = order[i] /\ more[i].status = "error"
    <2>1. \A b \in Blocks : /\ Answer(b, "error", 0) \in Answers /\ Answer(b, "error", 0).urb = b
                            /\ Answer(b, "error", 0).status = "error"
      BY DEF Answer, Answers
    <2>2. DOMAIN order = 1 .. Len(order) /\ Len(order) \in Nat /\ \A i \in DOMAIN order : order[i] \in Blocks
      BY <1>3
    <2>3. more \in [1 .. Len(order) -> Answers]
      BY <1>4, <2>1, <2>2
    <2> QED BY <1>4, <2>1, <2>2, <2>3
  <1>6. Completes(more)
    <2>1. pending' \in [Endpoints -> Seq(Blocks)]
      BY <1>1
    <2>2. \A e \in Endpoints : Thinned(pending'[e], pending[e])
      <3> SUFFICES ASSUME NEW e \in Endpoints PROVE Thinned(pending'[e], pending[e])
        OBVIOUS
      <3>1. pending'[e] = <<>> /\ DOMAIN pending'[e] = {}
        BY <1>1
      <3>2. [j \in {} |-> 1] \in [DOMAIN pending'[e] -> DOMAIN pending[e]]
        BY <3>1
      <3> QED BY <3>1, <3>2 DEF Thinned
    <2>3. InFlight' = {}
      <3>1. \A e \in Endpoints : ToSet(pending'[e]) = {}
        BY <1>1 DEF ToSet
      <3> QED BY <3>1 DEF InFlight
    <2> QED BY <1>2, <1>3, <1>4, <1>5, <2>1, <2>2, <2>3 DEF Completes
  <1>7. CASE Unplug
    <2>1. plugged' = FALSE /\ device' = device
      BY <1>7 DEF Unplug, deviceVars
    <2> QED BY <1>1, <1>5, <1>6, <2>1, KernelMoves
  <1>8. CASE ClearInterfaces
    <2>1. plugged' = plugged /\ device' = "cleared" /\ plugged \in BOOLEAN
      BY <1>8 DEF ClearInterfaces, IInv, TypeOK
    <2>2. \A t \in Transfers : ~Live(t)
      BY <1>8 DEF ClearInterfaces, ClientsWait, Live, Constructing, Waiting
    <2> QED BY <1>1, <1>5, <1>6, <2>1, <2>2, KernelMoves
  <1> QED BY <1>7, <1>8

-----------------------------------------------------------------------------
(* The reaper and the destructor.  Steps that leave objects and blocks.    *)
LEMMA NothingMoves ==
    ASSUME IInv, UNCHANGED <<kernelVars, object, client, wild>>,
           TypeOK', HandOK', ErrorsEnd', DestroyedLast', \A u : InHand(u)' <=> InHand(u)
    PROVE  IInv'
  <1>1. UNCHANGED <<pending, completed, plugged, object, client, wild>>
    BY DEF kernelVars
  <1>2. InFlight' = InFlight /\ Finished' = Finished
    BY <1>1 DEF InFlight, Finished
  <1>3. ObjectsOK'
    <2> SUFFICES ASSUME NEW t \in Transfers
                 PROVE  (Planned(t) /\ (~object[t].error => Counted(t)) /\ Told(t) /\ FullUnlessLast(t))'
      BY DEF ObjectsOK
    <2>1. Planned(t) /\ (~object[t].error => Counted(t)) /\ Told(t) /\ FullUnlessLast(t)
      BY DEF IInv, ObjectsOK
    <2>2. Planned(t)'
      BY <1>1, <2>1 DEF Planned
    <2>3. (~object[t].error => Counted(t))'
      BY <1>1, <2>1 DEF Counted
    <2>4. Told(t)' /\ FullUnlessLast(t)'
      BY <1>1, <2>1 DEF Told, Failed, FullUnlessLast, Full, Urb
    <2> QED BY <2>2, <2>3, <2>4
  <1>4. PendingOK'
    <2>1. \A u : OnItsWay(u) => OnItsWay(u)'
      BY <1>1 DEF OnItsWay, Live
    <2> QED BY <1>1, <2>1 DEF IInv, PendingOK
  <1>5. CompletedOK'
    <2>1. \A u : OnItsWay(u) => OnItsWay(u)'
      BY <1>1 DEF OnItsWay, Live
    <2>2. \A u, n : Full(u, n) => Full(u, n)'
      BY <1>1 DEF Full
    <2> QED BY <1>1, <1>2, <2>1, <2>2 DEF IInv, CompletedOK
  <1>6. InOrder'
    BY <1>1 DEF IInv, InOrder
  <1>7. NothingLost'
    BY <1>1, <1>2 DEF IInv, NothingLost, Live, Unfinished
  <1> QED BY <1>1, <1>3, <1>4, <1>5, <1>6, <1>7 DEF IInv

LEMMA PollKeeps ==
    ASSUME IInv, Poll
    PROVE  IInv'
  <1>1. /\ reaper.at = "poll" /\ UNCHANGED <<kernelVars, object, client, context, device, running, wild>>
        /\ reaper'.at \in {"poll", "reap", "exited"} /\ reaper' \in Reapers
        /\ errno' \in {errno, "EBADF"}
    BY DEF Poll, deviceVars, IInv, TypeOK, Reapers
  <1>2. reaper'.at = "reap" => errno' = "none" /\ completed # <<>>
    BY <1>1 DEF Poll, ErrnoBreaks, ErrnoContinues, ReadyToReap, IInv, TypeOK
  <1>3. UNCHANGED <<pending, completed, plugged>>
    BY <1>1 DEF kernelVars
  <1>4. TypeOK'
    BY <1>1, <1>3 DEF IInv, TypeOK
  <1>5. HandOK'
    BY <1>1 DEF HandOK
  <1>6. errno' = "none" => errno = "none"
    BY <1>1
  <1>7. ErrorsEnd'
    BY <1>1, <1>2, <1>3, <1>6 DEF IInv, ErrorsEnd
  <1>8. DestroyedLast'
    BY <1>1 DEF IInv, DestroyedLast, Live
  <1>9. \A u : InHand(u)' <=> InHand(u)
    BY <1>1 DEF InHand
  <1> QED BY <1>1, <1>4, <1>5, <1>7, <1>8, <1>9, NothingMoves

LEMMA DispatchKeeps ==
    ASSUME IInv, Dispatch
    PROVE  IInv'
  <1>1. /\ reaper.at = "dispatch" /\ UNCHANGED <<kernelVars, object, client, context, errno, device, running>>
        /\ UNCHANGED <<pending, completed, plugged>>
    BY DEF Dispatch, deviceVars, kernelVars
  <1>2. PICK t : t = context.transfer
    OBVIOUS
  <1>3. /\ context \in Blocks /\ t \in Transfers /\ Live(t) /\ context # NoUrb
        /\ context.index \in DOMAIN object[t].urb
    BY <1>1, <1>2, NoUrbAssumption DEF IInv, HandOK, Blocks
  <1>4. ~object[t].error /\ Counted(t)
    BY <1>1, <1>3 DEF IInv, ErrorsEnd, ObjectsOK
  <1>5. Alive(t) /\ object[t].urb[context.index].userContext
    BY <1>3, <1>4 DEF Counted, Live, Alive
  <1>6. reaper' = [at |-> "notify"] /\ wild' = wild
    BY <1>2, <1>3, <1>5 DEF Dispatch
  <1>7. TypeOK'
    BY <1>1, <1>6 DEF IInv, TypeOK, Reapers
  <1>8. HandOK'
    BY <1>1, <1>6 DEF IInv, HandOK, Live, InFlight, Finished
  <1>9. ErrorsEnd'
    BY <1>1, <1>6 DEF IInv, ErrorsEnd
  <1>10. DestroyedLast'
    BY <1>1 DEF IInv, DestroyedLast, Live
  <1>11. \A u : InHand(u)' <=> InHand(u)
    BY <1>1, <1>6 DEF InHand
  <1> QED BY <1>1, <1>6, <1>7, <1>8, <1>9, <1>10, <1>11, NothingMoves

(* No block is reaped after the transfers are gone.                        *)
LEMMA NothingToReap ==
    ASSUME IInv, reaper.at = "reap"
    PROVE  device = "open"
  <1>1. completed # <<>> /\ errno = "none" /\ \A t \in Transfers : ~object[t].error
    BY DEF IInv, ErrorsEnd
  <1>2. 1 \in DOMAIN completed
    BY <1>1 DEF IInv, TypeOK
  <1>3. completed[1].urb \in Finished
    BY <1>2 DEF Finished
  <1>4. completed[1].urb \in Blocks /\ OnItsWay(completed[1].urb)
    BY <1>3, KernelBlocks
  <1>5. completed[1].urb.transfer \in Transfers /\ Live(completed[1].urb.transfer)
    BY <1>1, <1>4 DEF OnItsWay, Blocks
  <1> QED BY <1>5 DEF IInv, DestroyedLast

LEMMA TeardownKeeps ==
    ASSUME IInv, TeardownStep
    PROVE  IInv'
  <1>1. /\ device \in {"cleared", "epollReset", "fdClosed", "stopped"}
        /\ device' \in {"epollReset", "fdClosed", "stopped", "joined"}
        /\ UNCHANGED <<object, client, reaper, context, errno, wild, plugged>>
        /\ running' \in {running, FALSE}
    BY DEF TeardownStep, ResetEpoll, CloseDevice, StopThread, JoinThread, reaperVars, kernelVars, KernelClose
  <1>2. \A t \in Transfers : ~Live(t)
    BY <1>1 DEF IInv, DestroyedLast
  <1>3. DestroyedLast'
    BY <1>1, <1>2 DEF DestroyedLast, Live
  <1>4. reaper.at # "reap"
    BY <1>1, NothingToReap
  <1>5. \A u : InHand(u)' <=> InHand(u)
    BY <1>1 DEF InHand
  <1>6. CASE UNCHANGED kernelVars
    <2>1. UNCHANGED <<pending, completed>>
      BY <1>6 DEF kernelVars
    <2>2. TypeOK'
      BY <1>1, <2>1 DEF IInv, TypeOK
    <2>3. HandOK' /\ ErrorsEnd'
      BY <1>1, <2>1 DEF IInv, HandOK, ErrorsEnd, Live, InFlight, Finished
    <2> QED BY <1>1, <1>3, <1>5, <1>6, <2>2, <2>3, NothingMoves
  <1>7. CASE CloseDevice
    <2>1. pending' = [e \in Endpoints |-> <<>>] /\ completed' = <<>>
      BY <1>7 DEF CloseDevice, KernelClose
    <2>2. InFlight' = {} /\ Finished' = {}
      BY <2>1 DEF InFlight, Finished, ToSet
    <2>3. TypeOK'
      <3>1. pending' \in [Endpoints -> Seq(Blocks)] /\ completed' \in Seq(Answers)
        BY <2>1
      <3> QED BY <1>1, <3>1 DEF IInv, TypeOK
    <2>4. ObjectsOK'
      BY <1>1 DEF IInv, ObjectsOK, Planned, Counted, Told, Failed, FullUnlessLast, Full, Urb
    <2>5. PendingOK' /\ CompletedOK' /\ InOrder'
      BY <2>1 DEF PendingOK, CompletedOK, InOrder
    <2>6. NothingLost'
      BY <1>1, <1>2 DEF NothingLost, Live
    <2>7. HandOK' /\ ErrorsEnd'
      BY <1>1, <1>4, <2>2 DEF IInv, HandOK, ErrorsEnd, Live
    <2> QED BY <1>1, <1>3, <2>3, <2>4, <2>5, <2>6, <2>7 DEF IInv
  <1> QED BY <1>6, <1>7 DEF TeardownStep, ResetEpoll, StopThread, JoinThread

(* A step of the reaper that changes one object and leaves the others.     *)
LEMMA QueuesStay ==
    ASSUME IInv, pending' = pending, \A u \in InFlight : OnItsWay(u)'
    PROVE  PendingOK' /\ InFlight' = InFlight
  <1>1. InFlight' = InFlight
    BY DEF InFlight
  <1>2. ASSUME NEW e \in Endpoints, NEW j \in DOMAIN pending[e] PROVE OnItsWay(pending[e][j])'
    <2>1. pending[e][j] \in InFlight
      BY WherePending DEF InFlight
    <2> QED BY <2>1
  <1> QED BY <1>1, <1>2 DEF IInv, PendingOK

LEMMA CompletedStay ==
    ASSUME IInv, UNCHANGED <<pending, completed>>,
           \A u \in Finished : OnItsWay(u)' /\ object'[u.transfer].size = object[u.transfer].size
    PROVE  CompletedOK' /\ Finished' = Finished
  <1>1. InFlight' = InFlight /\ Finished' = Finished
    BY DEF InFlight, Finished
  <1>2. ASSUME NEW j \in DOMAIN completed
        PROVE  OnItsWay(completed[j].urb)' /\ object'[completed[j].urb.transfer].size = object[completed[j].urb.transfer].size
    <2>1. completed[j].urb \in Finished
      BY DEF Finished
    <2> QED BY <2>1
  <1> QED BY <1>1, <1>2 DEF IInv, CompletedOK, Full

LEMMA ReapKeeps ==
    ASSUME IInv, Reap
    PROVE  IInv'
  <1>1. /\ reaper.at = "reap" /\ completed # <<>> /\ completed' = Tail(completed)
        /\ context' = Head(completed).urb /\ reaper' = [at |-> "dispatch"]
        /\ UNCHANGED <<pending, plugged, client, errno, device, running>>
    BY DEF Reap, deviceVars
  <1>2. PICK a : a = Head(completed)
    OBVIOUS
  <1>3. PICK n \in Nat \ {0} : n = Len(completed)
    BY <1>1 DEF IInv, TypeOK
  <1>4. /\ a \in Answers /\ completed[1] = a /\ DOMAIN completed = 1 .. n /\ completed' \in Seq(Answers)
        /\ DOMAIN completed' = 1 .. (n - 1)
        /\ \A j \in 1 .. (n - 1) : completed'[j] = completed[j + 1]
        /\ 1 \in DOMAIN completed
    BY <1>1, <1>2, <1>3 DEF IInv, TypeOK
  <1>5. PICK t, i : t = a.urb.transfer /\ i = a.urb.index
    OBVIOUS
  <1>6. errno = "none" /\ \A s \in Transfers : ~object[s].error
    BY <1>1 DEF IInv, ErrorsEnd
  <1>7. /\ a.urb \in Blocks /\ OnItsWay(a.urb) /\ a.urb \in Finished /\ a.urb \notin InFlight
        /\ t \in Transfers /\ i \in Nat /\ Live(t) /\ i \in DOMAIN object[t].urb
        /\ object[t].urb[i].status = "none" /\ object[t].urb[i].notified = 0
        /\ client[t].at = "submit" => i # Len(object[t].urb)
        /\ Urb(t, i) = a.urb
    <2>1. a.urb \in Finished /\ a.urb \notin InFlight
      BY <1>4 DEF Finished, IInv, CompletedOK
    <2>2. a.urb \in Blocks /\ OnItsWay(a.urb)
      BY <2>1, KernelBlocks
    <2> QED BY <1>5, <1>6, <2>1, <2>2 DEF OnItsWay, Blocks, Urb
  <1> DEFINE old == object[t].urb
             b == [old[i] EXCEPT !.status = a.status, !.actual = a.actual]
             r == [old EXCEPT ![i] = b]
             o == [object[t] EXCEPT !.urb = r]
  <1>8. object' = [object EXCEPT ![t] = o] /\ wild' = wild
    <2>1. Alive(t)
      BY <1>7 DEF Alive, Live
    <2> QED BY <1>2, <1>5, <2>1 DEF Reap
  <1>9. /\ object[t] \in Fields /\ old \in Seq(Urbs) /\ old[i] \in Urbs
        /\ DOMAIN old = 1 .. Len(old) /\ object[t].finishedUrbCount \in Nat /\ Len(old) \in Nat
    BY <1>7, OneObject DEF IInv
  <1>10. /\ b \in Urbs /\ b.length = old[i].length /\ b.flags = old[i].flags
         /\ b.userContext = old[i].userContext
         /\ b.status = a.status /\ b.actual = a.actual /\ b.notified = 0 /\ a.status \in {"ok", "error"}
    BY <1>4, <1>7, <1>9 DEF Urbs, Answers
  <1> HIDE DEF b
  <1>11. /\ r \in Seq(Urbs) /\ Len(r) = Len(old) /\ DOMAIN r = DOMAIN old /\ r[i] = b
         /\ \A j \in DOMAIN old : j # i => r[j] = old[j]
    BY <1>7, <1>9, <1>10, ChangedUrb
  <1> HIDE DEF r
  <1>12. /\ o \in Fields /\ o.urb = r
         /\ o.size = object[t].size /\ o.finishedUrbCount = object[t].finishedUrbCount
         /\ o.finishedBytes = object[t].finishedBytes
         /\ o.error = object[t].error /\ o.locked = object[t].locked
    BY <1>9, <1>11 DEF Fields
  <1> HIDE DEF o
  <1>13. object'[t] = o /\ OthersStay(t) /\ object' \in [Transfers -> Fields]
    BY <1>1, <1>7, <1>8, <1>12 DEF IInv, TypeOK, OthersStay
  <1>14. TypeOK'
    BY <1>1, <1>2, <1>4, <1>7, <1>13 DEF IInv, TypeOK, Reapers
  <1>15. Planned(t) /\ Counted(t) /\ Told(t) /\ FullUnlessLast(t)
    BY <1>6, <1>7 DEF IInv, ObjectsOK
  <1>16. object[t].finishedUrbCount < i
    BY <1>7, <1>9, <1>15 DEF Counted
  <1>17. ObjectsOK'
    <2>1. Planned(t)'
      <3>1. \A j \in DOMAIN r : r[j].length = UrbLength(o.size, j) /\ r[j].flags = UrbFlags(o.size, Dir(t), j)
        BY <1>10, <1>11, <1>12, <1>15 DEF Planned
      <3>2. client[t].at = "submit" => r[Len(r)] = old[Len(old)] /\ Len(old) >= 1
        BY <1>7, <1>9, <1>11, <1>15 DEF Planned
      <3>3. client[t].at \notin {"none", "discard", "forget"}
        BY <1>7 DEF Live
      <3> QED BY <1>1, <1>11, <1>12, <1>13, <1>15, <3>1, <3>2, <3>3 DEF Planned
    <2>2. Counted(t)'
      <3>1. Total(Actuals(r), o.finishedUrbCount) = Total(Actuals(old), o.finishedUrbCount)
        <4>1. \A j \in 1 .. o.finishedUrbCount : Actuals(r)[j] = Actuals(old)[j]
          BY <1>9, <1>11, <1>12, <1>15, <1>16 DEF Actuals, Counted
        <4> QED BY <1>9, <1>12, <4>1, TotalIsLocal
      <3>2. /\ o.finishedUrbCount <= Len(r)
            /\ o.finishedBytes = Total(Actuals(r), o.finishedUrbCount)
        BY <1>11, <1>12, <1>15, <3>1 DEF Counted
      <3>3. ASSUME NEW j \in DOMAIN r
            PROVE  /\ r[j].notified = (IF j <= o.finishedUrbCount THEN 1 ELSE 0)
                   /\ j <= o.finishedUrbCount => r[j].status = "ok"
                   /\ client[t].at \notin {"discard", "forget", "destroyed"} => r[j].userContext
        <4>1. CASE j = i
          BY <1>7, <1>9, <1>10, <1>11, <1>12, <1>15, <1>16, <4>1 DEF Counted
        <4>2. CASE j # i
          BY <1>11, <1>12, <1>15, <4>2 DEF Counted
        <4> QED BY <4>1, <4>2
      <3> QED BY <1>1, <1>12, <1>13, <3>2, <3>3 DEF Counted
    <2>3. Told(t)'
      BY <1>1, <1>6, <1>7, <1>12, <1>13 DEF Told, Live
    <2>4. FullUnlessLast(t)'
      <3> SUFFICES ASSUME NEW j \in DOMAIN r, r[j].status = "ok"
                   PROVE  ~IsLast(o.size, j) => r[j].actual = UrbLength(o.size, j)
        BY <1>12, <1>13 DEF FullUnlessLast, Full, Urb
      <3>1. CASE j = i
        <4>1. Full(a.urb, a.actual)
          BY <1>4, <1>10, <1>11, <3>1 DEF IInv, CompletedOK
        <4> QED BY <1>5, <1>10, <1>11, <1>12, <3>1, <4>1 DEF Full
      <3>2. CASE j # i
        BY <1>11, <1>12, <1>15, <3>2 DEF FullUnlessLast, Full, Urb
      <3> QED BY <3>1, <3>2
    <2> QED BY <1>1, <1>13, <2>1, <2>2, <2>3, <2>4, OtherObjects
  <1>18. ASSUME NEW u \in InFlight \cup Finished, u # a.urb
         PROVE  /\ u \in Blocks /\ OnItsWay(u)'
                /\ object'[u.transfer].size = object[u.transfer].size
                /\ object'[u.transfer].error = object[u.transfer].error
                /\ object'[u.transfer].finishedUrbCount = object[u.transfer].finishedUrbCount
    <2>1. u \in Blocks /\ OnItsWay(u) /\ u.transfer \in Transfers
      BY KernelBlocks DEF Blocks
    <2>2. CASE u.transfer # t
      BY <1>1, <1>13, <2>1, <2>2 DEF OnItsWay, OthersStay, Live
    <2>3. CASE u.transfer = t
      <3>1. u.index # i
        BY <1>5, <1>7, <1>18, <2>1, <2>3 DEF Blocks
      <3>2. u.index \in DOMAIN r /\ r[u.index] = old[u.index]
        BY <1>11, <2>1, <2>3, <3>1 DEF OnItsWay
      <3> QED BY <1>1, <1>11, <1>12, <1>13, <2>1, <2>3, <3>2 DEF OnItsWay, Live
    <2> QED BY <2>2, <2>3
  <1>19. PendingOK' /\ InFlight' = InFlight
    BY <1>1, <1>7, <1>18, QueuesStay
  <1>20. ASSUME NEW j \in DOMAIN completed'
         PROVE  /\ j + 1 \in DOMAIN completed /\ completed'[j] = completed[j + 1] /\ j \in Nat /\ j + 1 # 1
                /\ completed[j + 1].urb \in Finished /\ completed[j + 1].urb # a.urb
    <2>1. j + 1 \in DOMAIN completed /\ completed'[j] = completed[j + 1] /\ j \in Nat /\ j + 1 # 1
      BY <1>3, <1>4
    <2> QED BY <1>4, <2>1 DEF Finished, IInv, CompletedOK
  <1>21. ASSUME NEW j \in DOMAIN completed, j # 1
         PROVE  j - 1 \in DOMAIN completed' /\ completed'[j - 1] = completed[j]
    <2>1. j - 1 \in 1 .. (n - 1) /\ (j - 1) + 1 = j
      BY <1>3, <1>4, <1>21
    <2> QED BY <1>4, <2>1
  <1>22. Finished' \subseteq Finished /\ a.urb \notin Finished' /\ Finished \subseteq Finished' \cup {a.urb}
    <2>1. ASSUME NEW u \in Finished' PROVE u \in Finished /\ u # a.urb
      <3>1. PICK j \in DOMAIN completed' : completed'[j].urb = u
        BY DEF Finished
      <3> QED BY <1>20, <3>1
    <2>2. ASSUME NEW u \in Finished, u # a.urb PROVE u \in Finished'
      <3>1. PICK j \in DOMAIN completed : completed[j].urb = u
        BY DEF Finished
      <3>2. j # 1
        BY <1>4, <2>2, <3>1
      <3> QED BY <1>21, <3>1, <3>2 DEF Finished
    <2> QED BY <2>1, <2>2
  <1>23. CompletedOK'
    <2>1. ASSUME NEW j \in DOMAIN completed'
          PROVE  /\ OnItsWay(completed[j].urb)' /\ completed'[j].urb \notin InFlight'
                 /\ completed'[j].status = "ok" => Full(completed[j].urb, completed[j].actual)'
      <3>1. /\ j + 1 \in DOMAIN completed /\ completed'[j] = completed[j + 1]
            /\ completed[j + 1].urb \in Finished /\ completed[j + 1].urb # a.urb
        BY <1>20
      <3>2. /\ completed[j + 1].urb \notin InFlight
            /\ completed[j + 1].status = "ok" => Full(completed[j + 1].urb, completed[j + 1].actual)
        BY <3>1 DEF IInv, CompletedOK
      <3> QED BY <1>18, <1>19, <3>1, <3>2 DEF Full
    <2>2. ASSUME NEW j \in DOMAIN completed', NEW k \in DOMAIN completed', j # k
          PROVE  completed'[j].urb # completed'[k].urb
      <3>1. j + 1 # k + 1
        BY <1>20, <2>2
      <3> QED BY <1>20, <3>1 DEF IInv, CompletedOK
    <2> QED BY <2>1, <2>2 DEF CompletedOK
  <1>24. \A u : ~InHand(u) /\ (InHand(u)' <=> u = a.urb)
    BY <1>1, <1>2 DEF InHand
  <1>25. InOrder'
    <2> SUFFICES ASSUME NEW j \in DOMAIN completed', completed'[j].status = "ok",
                        NEW m \in (object'[completed'[j].urb.transfer].finishedUrbCount + 1) .. (completed'[j].urb.index - 1)
                 PROVE  \/ InHand(Urb(completed[j].urb.transfer, m))'
                        \/ \E k \in DOMAIN completed' : k < j /\ completed'[k].urb = Urb(completed'[j].urb.transfer, m)
      BY DEF InOrder, Urb
    <2>1. /\ j + 1 \in DOMAIN completed /\ completed'[j] = completed[j + 1] /\ j \in Nat
          /\ completed[j + 1].urb \in Finished /\ completed[j + 1].urb # a.urb
      BY <1>20
    <2>2. completed[j + 1].urb.transfer \in Transfers
      BY <2>1, KernelBlocks DEF Blocks
    <2>3. PICK k \in DOMAIN completed : k < j + 1 /\ completed[k].urb = Urb(completed[j + 1].urb.transfer, m)
      BY <1>6, <1>18, <1>24, <2>1, <2>2 DEF IInv, InOrder
    <2>4. CASE k = 1
      BY <1>4, <1>24, <2>1, <2>3, <2>4 DEF Urb
    <2>5. CASE k # 1
      <3>1. k - 1 \in DOMAIN completed' /\ completed'[k - 1] = completed[k] /\ k - 1 < j
        BY <1>4, <1>21, <2>1, <2>3, <2>5
      <3> QED BY <2>1, <2>3, <3>1
    <2> QED BY <2>4, <2>5
  <1>26. NothingLost'
    <2> SUFFICES ASSUME NEW s \in Transfers, plugged, Live(s)', NEW m \in Unfinished(s)'
                 PROVE  \/ client[s].at = "submit" /\ m = Len(object'[s].urb)
                        \/ Urb(s, m) \in InFlight' \cup Finished'
                        \/ InHand(Urb(s, m))'
      BY <1>1 DEF NothingLost, Urb
    <2>1. Live(s) /\ Len(object'[s].urb) = Len(object[s].urb) /\ Unfinished(s)' = Unfinished(s)
      BY <1>1, <1>11, <1>12, <1>13 DEF Live, OthersStay, Unfinished
    <2>2. \/ client[s].at = "submit" /\ m = Len(object[s].urb)
          \/ Urb(s, m) \in InFlight \cup Finished
      BY <1>6, <1>24, <2>1 DEF IInv, NothingLost
    <2> QED BY <1>19, <1>22, <1>24, <2>1, <2>2
  <1>27. HandOK'
    <2>1. /\ context' = a.urb /\ Live(t)' /\ context'.transfer = t /\ context'.index = i
      BY <1>1, <1>2, <1>5, <1>7 DEF Live
    <2>2. a.urb \notin InFlight' \cup Finished'
      BY <1>7, <1>19, <1>22
    <2>3. i \in DOMAIN o.urb /\ o.urb[i].status # "none" /\ o.urb[i].notified = 0
      BY <1>7, <1>10, <1>11, <1>12
    <2>4. a.status = "ok" => i = o.finishedUrbCount + 1
      <3> SUFFICES ASSUME a.status = "ok", i # o.finishedUrbCount + 1 PROVE FALSE
        OBVIOUS
      <3>1. i - 1 \in (object[t].finishedUrbCount + 1) .. (i - 1)
        BY <1>7, <1>9, <1>12, <1>16
      <3>2. \E k \in DOMAIN completed : k < 1 /\ completed[k].urb = Urb(t, i - 1)
        BY <1>4, <1>5, <1>6, <1>7, <1>24, <3>1 DEF IInv, InOrder
      <3> QED BY <1>4, <3>2
    <2>5. o.urb[i].status = a.status
      BY <1>10, <1>11, <1>12
    <2>6. context' \in Blocks /\ Live(context.transfer)'
      BY <1>7, <2>1
    <2> QED BY <1>13, <2>1, <2>2, <2>3, <2>4, <2>5, <2>6 DEF HandOK
  <1>28. ErrorsEnd'
    <2>1. \A s \in Transfers : ~object'[s].error
      BY <1>6, <1>12, <1>13 DEF OthersStay
    <2> QED BY <1>1, <1>6, <2>1 DEF ErrorsEnd
  <1>29. DestroyedLast'
    BY <1>1 DEF IInv, DestroyedLast, Live
  <1> QED BY <1>8, <1>14, <1>17, <1>19, <1>23, <1>25, <1>26, <1>27, <1>28, <1>29 DEF IInv

(* A notification: the block in hand is one of a live object, which it     *)
(* counts as notified.                                                     *)
LEMMA InNotify ==
    ASSUME IInv, reaper.at = "notify"
    PROVE  /\ context \in Blocks /\ context.transfer \in Transfers /\ Live(context.transfer)
           /\ Alive(context.transfer)
           /\ context \notin InFlight \cup Finished
           /\ context.index \in DOMAIN object[context.transfer].urb
           /\ object[context.transfer].urb[context.index].notified = 0
           /\ object[context.transfer].urb[context.index].status = "ok"
                  => context.index = object[context.transfer].finishedUrbCount + 1
           /\ errno = "none" /\ \A s \in Transfers : ~object[s].error
           /\ object[context.transfer].finishedUrbCount < context.index
           /\ client[context.transfer].at = "submit" => context.index # Len(object[context.transfer].urb)
  <1>1. /\ context \in Blocks /\ context.transfer \in Transfers /\ Live(context.transfer)
        /\ context \notin InFlight \cup Finished
        /\ context.index \in DOMAIN object[context.transfer].urb
        /\ object[context.transfer].urb[context.index].notified = 0
        /\ object[context.transfer].urb[context.index].status # "none"
        /\ object[context.transfer].urb[context.index].status = "ok"
               => context.index = object[context.transfer].finishedUrbCount + 1
    BY DEF IInv, HandOK, Blocks
  <1>2. errno = "none" /\ \A s \in Transfers : ~object[s].error
    BY DEF IInv, ErrorsEnd
  <1>3. Counted(context.transfer) /\ Planned(context.transfer)
    BY <1>1, <1>2 DEF IInv, ObjectsOK
  <1>4. object[context.transfer].finishedUrbCount < context.index
    <2>1. object[context.transfer].finishedUrbCount \in Nat /\ context.index \in Nat
      BY <1>1, OneObject DEF IInv, Blocks
    <2>2. ~(context.index <= object[context.transfer].finishedUrbCount)
      BY <1>1, <1>3 DEF Counted
    <2> QED BY <2>1, <2>2
  <1>5. client[context.transfer].at = "submit" => context.index # Len(object[context.transfer].urb)
    BY <1>1, <1>3 DEF Planned
  <1>6. Alive(context.transfer)
    BY <1>1 DEF Alive, Live
  <1> QED BY <1>1, <1>2, <1>4, <1>5, <1>6

(* What a notification leaves alone.                                       *)
Notifies(t, i) ==
    LET o == object[t]
        n == object'[t]
    IN  /\ n.size = o.size /\ Len(n.urb) = Len(o.urb) /\ DOMAIN n.urb = DOMAIN o.urb
        /\ \A j \in DOMAIN o.urb : n.urb[j].status = o.urb[j].status /\ (j # i => n.urb[j] = o.urb[j])

ObjectsStay(t) == \A s \in Transfers \ {t} : object'[s] = object[s]
ClientsLive ==
    /\ \A s \in Transfers : Live(s)' <=> Live(s)
    /\ \A s \in Transfers : client'[s].at = "submit" <=> client[s].at = "submit"

LEMMA NotifyFrame ==
    ASSUME IInv, reaper.at = "notify", UNCHANGED <<pending, completed, plugged, device>>,
           Notifies(context.transfer, context.index), ObjectsStay(context.transfer), ClientsLive,
           object'[context.transfer].error
               \/ (~object'[context.transfer].error
                   /\ object[context.transfer].urb[context.index].status = "ok"
                   /\ object'[context.transfer].finishedUrbCount = object[context.transfer].finishedUrbCount + 1),
           \A u : ~InHand(u)'
    PROVE  PendingOK' /\ CompletedOK' /\ InOrder' /\ NothingLost' /\ DestroyedLast' /\ InFlight' = InFlight
  <1>1. PICK t, i : t = context.transfer /\ i = context.index
    OBVIOUS
  <1>2. /\ context \in Blocks /\ t \in Transfers /\ Live(t) /\ context \notin InFlight \cup Finished
        /\ i \in DOMAIN object[t].urb /\ \A s \in Transfers : ~object[s].error
        /\ object[t].urb[i].status = "ok" => i = object[t].finishedUrbCount + 1
        /\ DOMAIN object[t].urb = 1 .. Len(object[t].urb) /\ object[t].finishedUrbCount \in Nat
        /\ Len(object[t].urb) \in Nat
    BY <1>1, InNotify, OneObject DEF IInv
  <1>3. ASSUME NEW u \in InFlight \cup Finished
        PROVE  /\ OnItsWay(u)' /\ object'[u.transfer].size = object[u.transfer].size
               /\ u \in Blocks /\ u.transfer \in Transfers
    <2>1. u \in Blocks /\ OnItsWay(u) /\ u.transfer \in Transfers
      BY KernelBlocks DEF Blocks
    <2>2. CASE u.transfer # t
      BY <1>1, <2>1, <2>2 DEF OnItsWay, ObjectsStay, ClientsLive
    <2>3. CASE u.transfer = t
      <3>1. u.index # i
        BY <1>1, <1>2, <2>1, <2>3 DEF Blocks
      <3>2. Live(t)' /\ (client'[t].at = "submit" => client[t].at = "submit")
        BY <1>2 DEF ClientsLive
      <3>3. /\ object'[t].urb[u.index] = object[t].urb[u.index] /\ u.index \in DOMAIN object'[t].urb
            /\ Len(object'[t].urb) = Len(object[t].urb) /\ object'[t].size = object[t].size
        BY <1>1, <2>1, <2>3, <3>1 DEF OnItsWay, Notifies
      <3> QED BY <2>1, <2>3, <3>2, <3>3 DEF OnItsWay
    <2> QED BY <2>2, <2>3
  <1>4. PendingOK' /\ InFlight' = InFlight
    BY <1>3, QueuesStay
  <1>5. CompletedOK' /\ Finished' = Finished
    BY <1>3, CompletedStay
  <1>6. \A u : InHand(u) <=> u = context
    BY DEF InHand
  <1>7. \A s \in Transfers : ~object'[s].error =>
            \/ s # t /\ object'[s] = object[s]
            \/ s = t /\ object'[t].finishedUrbCount = i /\ i = object[t].finishedUrbCount + 1
    BY <1>1, <1>2 DEF ObjectsStay
  <1>8. \A s \in Transfers, m \in Nat : Urb(s, m) = context => s = t /\ m = i
    BY <1>1 DEF Urb
  <1>9. InOrder'
    <2> SUFFICES ASSUME NEW j \in DOMAIN completed, completed[j].status = "ok",
                        ~object'[completed[j].urb.transfer].error,
                        NEW m \in (object'[completed[j].urb.transfer].finishedUrbCount + 1) .. (completed[j].urb.index - 1)
                 PROVE  \E k \in DOMAIN completed : k < j /\ completed[k].urb = Urb(completed[j].urb.transfer, m)
      BY DEF InOrder
    <2>1. PICK s \in Transfers : s = completed[j].urb.transfer
      <3>1. completed[j].urb \in Finished
        BY DEF Finished
      <3> QED BY <1>3, <3>1
    <2>2. CASE s # t
      <3>1. m \in (object[s].finishedUrbCount + 1) .. (completed[j].urb.index - 1) /\ ~object[s].error
        BY <1>7, <2>1, <2>2
      <3>2. InHand(Urb(s, m)) \/ \E k \in DOMAIN completed : k < j /\ completed[k].urb = Urb(s, m)
        BY <2>1, <3>1 DEF IInv, InOrder
      <3>3. ~InHand(Urb(s, m))
        BY <1>1, <1>6, <2>2 DEF Urb
      <3> QED BY <2>1, <3>2, <3>3
    <2>3. CASE s = t
      <3>1. m \in (i + 1) .. (completed[j].urb.index - 1) /\ i = object[t].finishedUrbCount + 1
        BY <1>7, <2>1, <2>3
      <3>2. m \in (object[t].finishedUrbCount + 1) .. (completed[j].urb.index - 1) /\ m # i
        BY <1>2, <3>1
      <3>3. InHand(Urb(t, m)) \/ \E k \in DOMAIN completed : k < j /\ completed[k].urb = Urb(t, m)
        BY <1>2, <2>1, <2>3, <3>2 DEF IInv, InOrder
      <3>4. ~InHand(Urb(t, m))
        BY <1>1, <1>6, <3>2 DEF Urb
      <3> QED BY <2>1, <2>3, <3>3, <3>4
    <2> QED BY <2>2, <2>3
  <1>10. NothingLost'
    <2> SUFFICES ASSUME NEW s \in Transfers, plugged, Live(s)', ~object'[s].error, NEW m \in Unfinished(s)'
                 PROVE  \/ client'[s].at = "submit" /\ m = Len(object'[s].urb)
                        \/ Urb(s, m) \in InFlight \cup Finished
      BY <1>4, <1>5 DEF NothingLost
    <2>1. Live(s) /\ ~object[s].error /\ (client[s].at = "submit" => client'[s].at = "submit")
      BY <1>2 DEF ClientsLive
    <2>2. Len(object'[s].urb) = Len(object[s].urb) /\ m \in Unfinished(s) /\ (s = t => m # i)
      <3>1. CASE s # t
        BY <1>7, <3>1 DEF Unfinished
      <3>2. CASE s = t
        <4>1. Len(object'[t].urb) = Len(object[t].urb)
          BY <1>1 DEF Notifies
        <4>2. m \in (i + 1) .. Len(object[t].urb) /\ i = object[t].finishedUrbCount + 1
          BY <1>7, <3>2, <4>1 DEF Unfinished
        <4> QED BY <1>2, <3>2, <4>1, <4>2 DEF Unfinished
      <3> QED BY <3>1, <3>2
    <2>3. ~InHand(Urb(s, m))
      BY <1>1, <1>6, <2>2 DEF Urb
    <2> QED BY <2>1, <2>2, <2>3 DEF IInv, NothingLost
  <1>11. DestroyedLast'
    BY DEF IInv, DestroyedLast, ClientsLive
  <1> QED BY <1>4, <1>5, <1>9, <1>10, <1>11

LEMMA WokenClient ==
    ASSUME TypeOK, NEW t \in Transfers, client' = client \/ client' = Woken(t)
    PROVE  /\ client' \in [Transfers -> Clients] /\ ClientsLive
           /\ \A s \in Transfers \ {t} : client'[s] = client[s]
           /\ \/ client'[t] = client[t]
              \/ client[t].at = "blocked" /\ client'[t].at = "woken"
  <1> DEFINE c == [at |-> "woken"]
  <1>1. CASE client' = client
    BY <1>1 DEF TypeOK, ClientsLive, Live
  <1>2. CASE client[t].at = "blocked" /\ client' = [client EXCEPT ![t] = c]
    <2>1. c \in Clients /\ c.at = "woken"
      BY DEF Clients
    <2> HIDE DEF c
    <2>2. /\ client' \in [Transfers -> Clients] /\ client'[t] = c
          /\ \A s \in Transfers \ {t} : client'[s] = client[s]
      BY <1>2, <2>1 DEF TypeOK
    <2> QED BY <1>2, <2>1, <2>2 DEF ClientsLive, Live
  <1> QED BY <1>1, <1>2 DEF Woken

LEMMA NotifySuccessKeeps ==
    ASSUME IInv, reaper.at = "notify", NotifySuccess(context), reaper' = [at |-> "poll"],
           UNCHANGED <<context, errno, deviceVars, wild>>
    PROVE  IInv'
  <1>1. PICK t, i : t = context.transfer /\ i = context.index
    OBVIOUS
  <1>2. PICK n, bytes, count :
            /\ n = object[t].urb[i].notified + 1
            /\ bytes = object[t].finishedBytes + object[t].urb[i].actual
            /\ count = object[t].finishedUrbCount + 1
    OBVIOUS
  <1> DEFINE old == object[t].urb
             b == [old[i] EXCEPT !.notified = n]
             r == [old EXCEPT ![i] = b]
             o == [object[t] EXCEPT !.finishedUrbCount = count, !.finishedBytes = bytes, !.urb = r]
  <1>3. /\ context \in Blocks /\ t \in Transfers /\ Live(t) /\ i \in DOMAIN old
        /\ old[i].notified = 0 /\ errno = "none" /\ \A s \in Transfers : ~object[s].error
        /\ old[i].status = "ok" /\ i = object[t].finishedUrbCount + 1
        /\ client[t].at = "submit" => i # Len(old)
    BY <1>1, InNotify DEF NotifySuccess
  <1>4. /\ object' = [object EXCEPT ![t] = o] /\ (client' = client \/ client' = Woken(t))
        /\ UNCHANGED <<pending, completed, plugged, context, errno, device, running, wild>>
    BY <1>1, <1>2 DEF NotifySuccess, CountFinished, Notified, kernelVars, deviceVars
  <1>5. /\ object[t] \in Fields /\ old \in Seq(Urbs) /\ old[i] \in Urbs
        /\ DOMAIN old = 1 .. Len(old) /\ Len(old) \in Nat
        /\ object[t].finishedUrbCount \in Nat /\ object[t].finishedBytes \in Nat
    BY <1>3, OneObject DEF IInv, Fields
  <1>6. /\ b \in Urbs /\ b.length = old[i].length /\ b.flags = old[i].flags
        /\ b.userContext = old[i].userContext /\ b.status = "ok" /\ b.actual = old[i].actual
        /\ b.notified = 1 /\ old[i].actual \in Nat
    <2>1. n = 1
      BY <1>3, <1>2
    <2> QED BY <1>3, <1>5, <2>1 DEF Urbs
  <1> HIDE DEF b
  <1>7. /\ r \in Seq(Urbs) /\ Len(r) = Len(old) /\ DOMAIN r = DOMAIN old /\ r[i] = b
        /\ \A j \in DOMAIN old : j # i => r[j] = old[j]
    BY <1>3, <1>5, <1>6, ChangedUrb
  <1> HIDE DEF r
  <1>8. /\ o \in Fields /\ o.urb = r /\ o.size = object[t].size /\ o.finishedUrbCount = i
        /\ o.finishedBytes = object[t].finishedBytes + old[i].actual
        /\ ~o.error /\ o.locked = object[t].locked
    <2>1. count = i /\ count \in Nat /\ bytes \in Nat
      <3>1. /\ object[t].finishedUrbCount \in Nat /\ object[t].finishedBytes \in Nat
            /\ old[i].actual \in Nat /\ i = object[t].finishedUrbCount + 1
        BY <1>3, <1>5, <1>6
      <3> QED BY <1>2, <3>1
    <2>2. object[t].error = FALSE
      BY <1>3, <1>5 DEF Fields
    <2> QED BY <1>5, <1>7, <1>2, <2>1, <2>2 DEF Fields
  <1> HIDE DEF o
  <1>9. object'[t] = o /\ ObjectsStay(t) /\ object' \in [Transfers -> Fields]
    BY <1>3, <1>4, <1>8 DEF IInv, TypeOK, ObjectsStay
  <1>10. /\ client' \in [Transfers -> Clients] /\ ClientsLive
         /\ \A s \in Transfers \ {t} : client'[s] = client[s]
         /\ \/ client'[t] = client[t]
            \/ client[t].at = "blocked" /\ client'[t].at = "woken"
    BY <1>3, <1>4, WokenClient DEF IInv
  <1>11. TypeOK'
    BY <1>4, <1>9, <1>10 DEF IInv, TypeOK, Reapers
  <1>12. Planned(t) /\ Counted(t) /\ Told(t) /\ FullUnlessLast(t)
    BY <1>3 DEF IInv, ObjectsOK
  <1>13. ObjectsOK'
    <2>1. Planned(t)'
      <3>1. \A j \in DOMAIN r : r[j].length = UrbLength(o.size, j) /\ r[j].flags = UrbFlags(o.size, Dir(t), j)
        BY <1>6, <1>7, <1>8, <1>12 DEF Planned
      <3>2. client[t].at = "submit" => r[Len(r)] = old[Len(old)] /\ Len(old) >= 1
        BY <1>3, <1>5, <1>7, <1>12 DEF Planned
      <3>3. client[t].at \notin {"none", "discard", "forget"}
        BY <1>3 DEF Live
      <3>4. \/ client'[t] = client[t]
            \/ client[t].at = "blocked" /\ client'[t].at = "woken"
        BY <1>10
      <3>5. object'[t].urb = r /\ object'[t].size = o.size /\ Len(r) = Len(old) /\ o.size = object[t].size
        BY <1>7, <1>8, <1>9
      <3>7. CASE client'[t] = client[t]
        BY <1>4, <1>12, <3>1, <3>2, <3>3, <3>5, <3>7 DEF Planned
      <3>8. CASE client[t].at = "blocked" /\ client'[t].at = "woken"
        BY <1>4, <1>12, <3>1, <3>5, <3>8 DEF Planned
      <3> QED BY <3>4, <3>7, <3>8
    <2>2. Counted(t)'
      <3>1. Total(Actuals(r), i) = Total(Actuals(old), i - 1) + old[i].actual
        <4>1. \A j \in 1 .. i : Actuals(r)[j] = Actuals(old)[j]
          BY <1>3, <1>5, <1>6, <1>7 DEF Actuals
        <4>2. Total(Actuals(r), i) = Total(Actuals(old), i)
          BY <1>3, <1>5, <4>1, TotalIsLocal
        <4>3. i - 1 \in Nat /\ (i - 1) + 1 = i
          BY <1>3, <1>5
        <4>4. Total(Actuals(old), (i - 1) + 1) = Total(Actuals(old), i - 1) + Actuals(old)[(i - 1) + 1]
          BY <4>3, TotalSteps
        <4> QED BY <1>3, <4>2, <4>3, <4>4 DEF Actuals
      <3>2. o.finishedUrbCount <= Len(r) /\ o.finishedBytes = Total(Actuals(r), o.finishedUrbCount)
        <4>1. object[t].finishedBytes = Total(Actuals(old), object[t].finishedUrbCount)
          BY <1>12 DEF Counted
        <4>2. i - 1 = object[t].finishedUrbCount /\ i <= Len(r)
          BY <1>3, <1>5, <1>7
        <4> QED BY <1>8, <3>1, <4>1, <4>2
      <3>3. ASSUME NEW j \in DOMAIN r
            PROVE  /\ r[j].notified = (IF j <= o.finishedUrbCount THEN 1 ELSE 0)
                   /\ j <= o.finishedUrbCount => r[j].status = "ok"
                   /\ r[j].userContext
        <4>0. client[t].at \notin {"discard", "forget", "destroyed"}
          BY <1>3 DEF Live
        <4>1. CASE j = i
          <5>1. b.notified = 1 /\ b.status = "ok" /\ b.userContext = old[i].userContext
            BY <1>6
          <5>2. r[j] = b /\ j <= o.finishedUrbCount
            BY <1>5, <1>7, <1>8, <4>1
          <5>3. old[i].userContext
            BY <1>3, <1>12, <4>0 DEF Counted
          <5> QED BY <5>1, <5>2, <5>3
        <4>2. CASE j # i
          <5>1. j \in Nat /\ (j <= i <=> j <= object[t].finishedUrbCount) /\ r[j] = old[j] /\ j \in DOMAIN old
            BY <1>3, <1>5, <1>7, <4>2
          <5> QED BY <1>8, <1>12, <4>0, <5>1 DEF Counted
        <4> QED BY <4>1, <4>2
      <3> QED BY <1>8, <1>9, <3>2, <3>3 DEF Counted
    <2>3. Told(t)'
      <3>1. client'[t].at \notin {"threw", "returned"}
        <4>1. \/ client'[t] = client[t]
              \/ client[t].at = "blocked" /\ client'[t].at = "woken"
          BY <1>10
        <4>2. Live(t)
          BY <1>3
        <4> QED BY <4>1, <4>2 DEF Live
      <3> QED BY <1>8, <1>9, <3>1 DEF Told
    <2>4. FullUnlessLast(t)'
      <3> SUFFICES ASSUME NEW j \in DOMAIN r, r[j].status = "ok"
                   PROVE  ~IsLast(o.size, j) => r[j].actual = UrbLength(o.size, j)
        BY <1>8, <1>9 DEF FullUnlessLast, Full, Urb
      <3>1. old[j].status = "ok" /\ r[j].actual = old[j].actual
        BY <1>3, <1>6, <1>7
      <3> QED BY <1>7, <1>8, <1>12, <3>1 DEF FullUnlessLast, Full, Urb
    <2>5. OthersStay(t)
      BY <1>9, <1>10 DEF OthersStay, ObjectsStay
    <2>6. plugged' = plugged
      BY <1>4
    <2> QED BY <2>1, <2>2, <2>3, <2>4, <2>5, <2>6, OtherObjects
  <1>14. Notifies(t, i)
    <2>1. /\ object'[t].urb = r /\ object'[t].size = object[t].size
          /\ Len(r) = Len(old) /\ DOMAIN r = DOMAIN old
      BY <1>7, <1>8, <1>9
    <2>2. r[i].status = old[i].status /\ \A j \in DOMAIN old : j # i => r[j] = old[j]
      BY <1>3, <1>6, <1>7
    <2> QED BY <2>1, <2>2 DEF Notifies
  <1>15. \A u : ~InHand(u)'
    BY DEF InHand
  <1>16. PendingOK' /\ CompletedOK' /\ InOrder' /\ NothingLost' /\ DestroyedLast'
    BY <1>1, <1>3, <1>4, <1>8, <1>9, <1>10, <1>14, <1>15, NotifyFrame
  <1>17. HandOK' /\ ErrorsEnd'
    BY <1>3, <1>4, <1>8, <1>9 DEF HandOK, ErrorsEnd, ObjectsStay
  <1> QED BY <1>4, <1>11, <1>13, <1>16, <1>17 DEF IInv

LEMMA NotifyErrorKeeps ==
    ASSUME IInv, reaper.at = "notify", NotifyError(context),
           reaper' = [at |-> "discard", next |-> object[context.transfer].finishedUrbCount + 1],
           UNCHANGED <<context, errno, deviceVars, wild>>
    PROVE  IInv'
  <1>1. PICK t, i : t = context.transfer /\ i = context.index
    OBVIOUS
  <1>2. PICK n : n = object[t].urb[i].notified + 1
    OBVIOUS
  <1> DEFINE old == object[t].urb
             b == [old[i] EXCEPT !.notified = n]
             r == [old EXCEPT ![i] = b]
             o == [object[t] EXCEPT !.error = TRUE, !.locked = TRUE, !.urb = r]
  <1>3. /\ context \in Blocks /\ t \in Transfers /\ Live(t) /\ i \in DOMAIN old
        /\ old[i].notified = 0 /\ errno = "none" /\ \A s \in Transfers : ~object[s].error
        /\ old[i].status = "error" /\ object[t].finishedUrbCount < i
        /\ context \notin InFlight \cup Finished
        /\ client[t].at = "submit" => i # Len(old)
    BY <1>1, InNotify DEF NotifyError
  <1>4. /\ object' = [object EXCEPT ![t] = o] /\ client' = client
        /\ UNCHANGED <<pending, completed, plugged, context, errno, device, running, wild>>
    BY <1>1, <1>2 DEF NotifyError, Notified, kernelVars, deviceVars
  <1>5. /\ object[t] \in Fields /\ old \in Seq(Urbs) /\ old[i] \in Urbs
        /\ DOMAIN old = 1 .. Len(old) /\ Len(old) \in Nat
        /\ object[t].finishedUrbCount \in Nat
    BY <1>3, OneObject DEF IInv
  <1>6. /\ b \in Urbs /\ b.length = old[i].length /\ b.flags = old[i].flags
        /\ b.status = "error" /\ b.actual = old[i].actual
    <2>1. n = 1
      BY <1>3, <1>2
    <2> QED BY <1>3, <1>5, <2>1 DEF Urbs
  <1> HIDE DEF b
  <1>7. /\ r \in Seq(Urbs) /\ Len(r) = Len(old) /\ DOMAIN r = DOMAIN old /\ r[i] = b
        /\ \A j \in DOMAIN old : j # i => r[j] = old[j]
    BY <1>3, <1>5, <1>6, ChangedUrb
  <1> HIDE DEF r
  <1>8. /\ o \in Fields /\ o.urb = r /\ o.size = object[t].size
        /\ o.finishedUrbCount = object[t].finishedUrbCount
        /\ o.finishedBytes = object[t].finishedBytes /\ o.error /\ o.locked
    BY <1>3, <1>5, <1>7 DEF Fields
  <1> HIDE DEF o
  <1>9. object'[t] = o /\ ObjectsStay(t) /\ object' \in [Transfers -> Fields]
    BY <1>3, <1>4, <1>8 DEF IInv, TypeOK, ObjectsStay
  <1>10. TypeOK'
    <2>1. reaper' \in Reapers
      BY <1>1, <1>5 DEF Reapers
    <2> QED BY <1>4, <1>9, <2>1 DEF IInv, TypeOK
  <1>11. Planned(t) /\ Told(t) /\ FullUnlessLast(t)
    BY <1>3 DEF IInv, ObjectsOK
  <1>12. ObjectsOK'
    <2>1. Planned(t)'
      <3>1. \A j \in DOMAIN r : r[j].length = UrbLength(o.size, j) /\ r[j].flags = UrbFlags(o.size, Dir(t), j)
        BY <1>6, <1>7, <1>8, <1>11 DEF Planned
      <3>2. client[t].at = "submit" => r[Len(r)] = old[Len(old)] /\ Len(old) >= 1
        BY <1>3, <1>5, <1>7, <1>11 DEF Planned
      <3>3. client[t].at \notin {"none", "discard", "forget"}
        BY <1>3 DEF Live
      <3> QED BY <1>4, <1>7, <1>8, <1>9, <1>11, <3>1, <3>2, <3>3 DEF Planned
    <2>2. Told(t)'
      <3>1. client'[t].at \notin {"threw", "returned"}
        BY <1>3, <1>4 DEF Live
      <3>2. r[i].status = "error" /\ i \in DOMAIN r
        BY <1>3, <1>6, <1>7
      <3> QED BY <1>8, <1>9, <3>1, <3>2 DEF Told, Failed
    <2>3. FullUnlessLast(t)'
      <3> SUFFICES ASSUME NEW j \in DOMAIN r, r[j].status = "ok"
                   PROVE  ~IsLast(o.size, j) => r[j].actual = UrbLength(o.size, j)
        BY <1>8, <1>9 DEF FullUnlessLast, Full, Urb
      <3>1. old[j].status = "ok" /\ r[j].actual = old[j].actual
        BY <1>3, <1>6, <1>7
      <3> QED BY <1>7, <1>8, <1>11, <3>1 DEF FullUnlessLast, Full, Urb
    <2>4. OthersStay(t)
      BY <1>4, <1>9 DEF OthersStay, ObjectsStay
    <2>5. (~object[t].error => Counted(t))'
      BY <1>8, <1>9
    <2> QED BY <1>4, <2>1, <2>2, <2>3, <2>4, <2>5, OtherObjects
  <1>13. Notifies(t, i)
    BY <1>3, <1>6, <1>7, <1>8, <1>9 DEF Notifies
  <1>14. ClientsLive
    BY <1>4 DEF ClientsLive, Live
  <1>15. \A u : ~InHand(u)'
    BY DEF InHand
  <1>16. PendingOK' /\ CompletedOK' /\ InOrder' /\ NothingLost' /\ DestroyedLast' /\ InFlight' = InFlight
    BY <1>1, <1>3, <1>4, <1>8, <1>9, <1>13, <1>14, <1>15, NotifyFrame
  <1>17. HandOK'
    BY DEF HandOK
  <1>18. ErrorsEnd'
    <2>1. Live(t)' /\ i \in DOMAIN o.urb /\ o.urb[i].status = "error"
      BY <1>3, <1>6, <1>7, <1>8, <1>14 DEF ClientsLive
    <2>2. object[t].finishedUrbCount + 1 <= i
      BY <1>1, <1>3, <1>5 DEF Blocks
    <2>3. \A s \in Transfers : object'[s].error => s = t
      BY <1>3, <1>9 DEF ObjectsStay
    <2> QED BY <1>1, <1>3, <1>4, <1>8, <1>9, <1>16, <2>1, <2>2, <2>3 DEF ErrorsEnd
  <1> QED BY <1>4, <1>10, <1>12, <1>16, <1>17, <1>18 DEF IInv

LEMMA NotifyKeeps ==
    ASSUME IInv, Notify
    PROVE  IInv'
  <1>1. reaper.at = "notify" /\ UNCHANGED <<context, errno, deviceVars>>
    BY DEF Notify
  <1>2. Alive(context.transfer)
    BY <1>1, InNotify
  <1>3. UNCHANGED <<context, errno, deviceVars, wild>>
    BY <1>1, <1>2 DEF Notify
  <1>4. CASE NotifySuccess(context) /\ reaper' = [at |-> "poll"]
    BY <1>1, <1>3, <1>4, NotifySuccessKeeps
  <1>5. CASE /\ NotifyError(context)
             /\ reaper' = [at |-> "discard", next |-> object[context.transfer].finishedUrbCount + 1]
    BY <1>1, <1>3, <1>5, NotifyErrorKeeps
  <1> QED BY <1>2, <1>4, <1>5 DEF Notify

(* discard() of a failed transfer, turn by turn.                           *)
InDiscard(t, i) ==
    /\ reaper.at = "discard" /\ context \in Blocks /\ context.transfer = t /\ context.index = i
    /\ context = Urb(t, i) /\ context \notin InFlight
    /\ t \in Transfers /\ Live(t) /\ Alive(t) /\ object[t].error = TRUE
    /\ i \in DOMAIN object[t].urb /\ i \in Nat /\ object[t].urb[i].status = "error"
    /\ reaper \in [at : {"discard"}, next : Nat \ {0}]
    /\ errno = "none" => reaper.next <= i /\ \A s \in Transfers : object[s].error => s = t

LEMMA InDiscardHolds ==
    ASSUME IInv, reaper.at = "discard"
    PROVE  InDiscard(context.transfer, context.index)
  <1>1. /\ context \in Blocks /\ context \notin InFlight
        /\ Live(context.transfer) /\ object[context.transfer].error
        /\ context.index \in DOMAIN object[context.transfer].urb
        /\ object[context.transfer].urb[context.index].status = "error"
        /\ errno = "none" => /\ reaper.next <= context.index
                            /\ \A s \in Transfers : object[s].error => s = context.transfer
    BY DEF IInv, ErrorsEnd
  <1>2. context.transfer \in Transfers /\ context.index \in Nat /\ context = Urb(context.transfer, context.index)
    BY <1>1 DEF Blocks, Urb
  <1>3. object[context.transfer].error = TRUE /\ Alive(context.transfer)
    BY <1>1, <1>2, OneObject DEF IInv, Fields, Live, Alive
  <1>4. reaper \in [at : {"discard"}, next : Nat \ {0}]
    BY DEF IInv, TypeOK, Reapers
  <1> QED BY <1>1, <1>2, <1>3, <1>4 DEF InDiscard

LEMMA DiscardTurnKeeps ==
    ASSUME IInv, NEW t, NEW i, InDiscard(t, i), NotifyDiscard(t, reaper.next),
           errno' = IF Urb(t, reaper.next) \in InFlight THEN errno ELSE "EINVAL",
           reaper' = [reaper EXCEPT !.next = @ + 1],
           UNCHANGED <<context, wild, deviceVars>>
    PROVE  IInv'
  <1>1. PICK k \in Nat \ {0} : k = reaper.next
    BY DEF InDiscard
  <1>2. PICK u : u = Urb(t, k)
    OBVIOUS
  <1> DEFINE o == [object[t] EXCEPT !.urb[k].userContext = FALSE]
  <1>3. /\ k <= Len(object[t].urb) /\ KernelDiscard(u) /\ object' = [object EXCEPT ![t] = o]
        /\ client' = client /\ UNCHANGED <<context, wild, device, running>>
    BY <1>1, <1>2 DEF NotifyDiscard, deviceVars
  <1>4. t \in Transfers /\ object[t].error = TRUE /\ Live(t) /\ i \in DOMAIN object[t].urb
    BY DEF InDiscard
  <1>5. /\ object[t] \in Fields /\ DOMAIN object[t].urb = 1 .. Len(object[t].urb)
        /\ Len(object[t].urb) \in Nat /\ k \in DOMAIN object[t].urb
    BY <1>3, <1>4, OneObject DEF IInv
  <1>6. /\ o \in Fields /\ Len(o.urb) = Len(object[t].urb) /\ DOMAIN o.urb = DOMAIN object[t].urb
        /\ o.size = object[t].size /\ o.finishedUrbCount = object[t].finishedUrbCount
        /\ o.finishedBytes = object[t].finishedBytes
        /\ o.error = object[t].error /\ o.locked = object[t].locked
        /\ \A j \in DOMAIN object[t].urb :
              /\ o.urb[j].length = object[t].urb[j].length /\ o.urb[j].flags = object[t].urb[j].flags
              /\ o.urb[j].status = object[t].urb[j].status /\ o.urb[j].actual = object[t].urb[j].actual
              /\ o.urb[j].notified = object[t].urb[j].notified
    <2>1. object[t] \in Fields /\ k \in DOMAIN object[t].urb
      BY <1>5
    <2>2. PICK p : p = object[t]
      OBVIOUS
    <2>3. o = [p EXCEPT !.urb[k].userContext = FALSE] /\ p \in Fields /\ k \in DOMAIN p.urb
      BY <2>1, <2>2
    <2> HIDE DEF o
    <2> QED BY <2>2, <2>3, ForgottenUrb
  <1> HIDE DEF o
  <1>7. object'[t] = o /\ OthersStay(t) /\ object' \in [Transfers -> Fields]
    BY <1>3, <1>4, <1>6 DEF IInv, TypeOK, OthersStay
  <1>8. u \in Blocks /\ u.transfer = t /\ u.index = k
    BY <1>2, <1>4 DEF Urb, Blocks
  <1>9. plugged' = plugged
    BY <1>3 DEF KernelDiscard
  <1>10. \E more \in Seq(Answers) : Completes(more) /\ (u \in InFlight => InFlight \ {u} \subseteq InFlight' /\ \E j \in DOMAIN more : more[j].urb = u)
                                                    /\ (u \notin InFlight => InFlight' = InFlight)
    <2>1. CASE u \in InFlight
      <3>1. PICK a : a = Answer(u, "error", 0)
        OBVIOUS
      <3>2. Completes(<<a>>) /\ <<a>> \in Seq(Answers) /\ InFlight \ {u} \subseteq InFlight'
        BY <1>3, <1>8, <2>1, <3>1, DiscardCompletes
      <3>3. 1 \in DOMAIN <<a>> /\ <<a>>[1].urb = u
        BY <3>1 DEF Answer
      <3> QED BY <2>1, <3>2, <3>3
    <2>2. CASE u \notin InFlight
      <3>1. pending' = pending /\ completed' = completed
        BY <1>3, <1>8, <2>2, DiscardCompletes DEF kernelVars
      <3>2. InFlight' = InFlight
        BY <3>1 DEF InFlight
      <3>3. completed' = completed \o <<>> /\ <<>> \in Seq(Answers) /\ DOMAIN <<>> = {}
        BY <3>1 DEF IInv, TypeOK
      <3>4. \A e \in Endpoints : Thinned(pending'[e], pending[e])
        <4> SUFFICES ASSUME NEW e \in Endpoints PROVE Thinned(pending[e], pending[e])
          BY <3>1
        <4>1. pending[e] \in Seq(Blocks) /\ u \notin ToSet(pending[e])
          BY <2>2 DEF IInv, TypeOK, InFlight
        <4> QED BY <4>1, RemovingThins
      <3>5. Completes(<<>>)
        BY <3>1, <3>3, <3>4 DEF Completes, IInv, TypeOK
      <3> QED BY <2>2, <3>2, <3>3, <3>5
    <2> QED BY <2>1, <2>2
  <1>11. PICK more \in Seq(Answers) :
             /\ Completes(more)
             /\ (u \in InFlight => InFlight \ {u} \subseteq InFlight' /\ \E j \in DOMAIN more : more[j].urb = u)
             /\ (u \notin InFlight => InFlight' = InFlight)
    BY <1>10
  <1>12. Alike
    BY <1>6, <1>7 DEF Alike, OthersStay
  <1>13. reaper'.at = "discard" /\ reaper'.next = k + 1 /\ reaper' \in Reapers /\ reaper.at = "discard"
    <2>1. reaper \in [at : {"discard"}, next : Nat \ {0}]
      BY DEF InDiscard
    <2> QED BY <1>1, <2>1 DEF Reapers
  <1>14. \A v : InHand(v)' <=> InHand(v)
    BY <1>13 DEF InHand
  <1>15. /\ PendingOK' /\ CompletedOK' /\ InOrder'
         /\ completed' \in Seq(Answers)
         /\ InFlight' \subseteq InFlight /\ Finished \subseteq Finished'
         /\ \A j \in DOMAIN more : more[j].urb \in Finished'
    BY <1>3, <1>11, <1>12, <1>14, KernelFrame
  <1>16. InFlight \subseteq InFlight' \cup Finished'
    BY <1>11, <1>15
  <1>17. errno' \in {errno, "EINVAL"} /\ (errno' = "none" => u \in InFlight /\ errno = "none")
    BY <1>1, <1>2
  <1>18. TypeOK'
    BY <1>3, <1>7, <1>9, <1>11, <1>13, <1>15, <1>17 DEF IInv, TypeOK, Completes
  <1>19. ObjectsOK'
    <2>1. Planned(t) /\ Told(t) /\ FullUnlessLast(t) /\ client[t].at \notin {"none", "discard", "forget", "threw", "returned"}
      BY <1>4 DEF IInv, ObjectsOK, Live
    <2>2. Planned(t)'
      <3>1. \A j \in DOMAIN o.urb : o.urb[j].length = UrbLength(o.size, j) /\ o.urb[j].flags = UrbFlags(o.size, Dir(t), j)
        BY <1>6, <2>1 DEF Planned
      <3>2. client[t].at = "submit" =>
                Len(o.urb) >= 1 /\ o.urb[Len(o.urb)].status = "none" /\ o.urb[Len(o.urb)].notified = 0
        <4> DEFINE l == Len(object[t].urb)
        <4>1. client[t].at = "submit" =>
                  l >= 1 /\ object[t].urb[l].status = "none" /\ object[t].urb[l].notified = 0
          BY <2>1 DEF Planned
        <4>2. l >= 1 => l \in DOMAIN object[t].urb
          BY <1>5
        <4>3. l \in DOMAIN object[t].urb =>
                  o.urb[l].status = object[t].urb[l].status /\ o.urb[l].notified = object[t].urb[l].notified
          BY <1>6
        <4> QED BY <1>6, <4>1, <4>2, <4>3
      <3> QED BY <1>3, <1>6, <1>7, <1>9, <2>1, <3>1, <3>2 DEF Planned
    <2>3. Told(t)'
      BY <1>3, <1>6, <1>7, <2>1 DEF Told, Failed
    <2>4. FullUnlessLast(t)'
      BY <1>6, <1>7, <2>1 DEF FullUnlessLast, Full, Urb
    <2>5. (~object[t].error => Counted(t))'
      BY <1>4, <1>6, <1>7
    <2> QED BY <1>7, <1>9, <2>2, <2>3, <2>4, <2>5, OtherObjects
  <1>20. NothingLost'
    <2> SUFFICES ASSUME NEW s \in Transfers, plugged, Live(s), ~object'[s].error, NEW m \in Unfinished(s)'
                 PROVE  \/ client[s].at = "submit" /\ m = Len(object'[s].urb)
                        \/ Urb(s, m) \in InFlight' \cup Finished'
      BY <1>3, <1>9 DEF NothingLost, Live
    <2>1. s # t /\ object'[s] = object[s]
      BY <1>4, <1>6, <1>7 DEF OthersStay
    <2>2. m \in Unfinished(s) /\ ~InHand(Urb(s, m))
      BY <1>13, <2>1 DEF Unfinished, InHand
    <2> QED BY <1>15, <1>16, <2>1, <2>2 DEF IInv, NothingLost
  <1>21. HandOK'
    BY <1>13 DEF HandOK
  <1>22. ErrorsEnd'
    <2>1. \A s \in Transfers : object'[s].error = object[s].error
      BY <1>6, <1>7 DEF OthersStay
    <2>2. errno' = "none" => /\ k + 1 <= i
                            /\ \A s \in Transfers : object'[s].error => s = t
      <3> SUFFICES ASSUME errno' = "none" PROVE k + 1 <= i /\ \A s \in Transfers : object'[s].error => s = t
        OBVIOUS
      <3>1. k <= i /\ \A s \in Transfers : object[s].error => s = t
        BY <1>1, <1>17 DEF InDiscard
      <3>2. k # i /\ i \in Nat
        BY <1>2, <1>17 DEF InDiscard
      <3> QED BY <2>1, <3>1, <3>2
    <2>3. /\ context \in Blocks /\ context \notin InFlight' /\ Live(t)' /\ object'[t].error /\ object'[t].locked
          /\ i \in DOMAIN object'[t].urb /\ object'[t].urb[i].status = "error"
          /\ context.transfer = t /\ context.index = i
      <3>1. context.transfer = t /\ context.index = i /\ object[t].locked
        BY DEF InDiscard, IInv, ErrorsEnd
      <3> QED BY <1>3, <1>6, <1>7, <1>15, <3>1 DEF InDiscard, Live
    <2> QED BY <1>3, <1>13, <2>2, <2>3 DEF ErrorsEnd
  <1>23. DestroyedLast'
    BY <1>3 DEF IInv, DestroyedLast, Live
  <1> QED BY <1>3, <1>15, <1>18, <1>19, <1>20, <1>21, <1>22, <1>23 DEF IInv

LEMMA DiscardEndKeeps ==
    ASSUME IInv, NEW t, NEW i, InDiscard(t, i), NotifyErrorDone(t, reaper.next),
           reaper' = [at |-> "poll"], UNCHANGED <<errno, context, wild, deviceVars>>
    PROVE  IInv'
  <1> DEFINE o == [object[t] EXCEPT !.locked = FALSE]
  <1>1. /\ reaper.next > Len(object[t].urb) /\ object' = [object EXCEPT ![t] = o] /\ client' = Woken(t)
        /\ UNCHANGED <<pending, completed, plugged, errno, context, wild, device, running>>
    BY DEF NotifyErrorDone, kernelVars, deviceVars
  <1>2. t \in Transfers /\ object[t].error = TRUE /\ Live(t) /\ i \in DOMAIN object[t].urb
    BY DEF InDiscard
  <1>3. object[t] \in Fields /\ DOMAIN object[t].urb = 1 .. Len(object[t].urb) /\ Len(object[t].urb) \in Nat
    BY <1>2, OneObject DEF IInv
  <1>4. /\ o \in Fields /\ o.urb = object[t].urb /\ o.size = object[t].size
        /\ o.finishedUrbCount = object[t].finishedUrbCount /\ o.error = TRUE
    BY <1>2, <1>3 DEF Fields
  <1> HIDE DEF o
  <1>5. object'[t] = o /\ ObjectsStay(t) /\ object' \in [Transfers -> Fields]
    BY <1>1, <1>2, <1>4 DEF IInv, TypeOK, ObjectsStay
  <1>6. /\ client' \in [Transfers -> Clients] /\ ClientsLive
        /\ \A s \in Transfers \ {t} : client'[s] = client[s]
        /\ \/ client'[t] = client[t]
           \/ client[t].at = "blocked" /\ client'[t].at = "woken"
    BY <1>1, <1>2, WokenClient DEF IInv
  <1>7. errno # "none"
    <2>1. errno = "none" => reaper.next <= i
      BY DEF InDiscard
    <2>2. reaper.next \in Nat
      BY DEF InDiscard
    <2> QED BY <1>1, <1>2, <1>3, <2>1, <2>2
  <1>8. TypeOK'
    BY <1>1, <1>5, <1>6 DEF IInv, TypeOK, Reapers
  <1>9. ObjectsOK'
    <2>1. Planned(t) /\ Told(t) /\ FullUnlessLast(t) /\ client[t].at \notin {"none", "discard", "forget", "threw", "returned"}
      BY <1>2 DEF IInv, ObjectsOK, Live
    <2>3. Planned(t)'
      BY <1>1, <1>4, <1>5, <1>6, <2>1 DEF Planned
    <2>4. Told(t)'
      BY <1>2, <1>4, <1>5, <1>6, <2>1 DEF Told, Failed
    <2>5. FullUnlessLast(t)'
      BY <1>4, <1>5, <2>1 DEF FullUnlessLast, Full, Urb
    <2>6. (~object[t].error => Counted(t))'
      BY <1>4, <1>5
    <2>7. OthersStay(t)
      BY <1>5, <1>6 DEF OthersStay, ObjectsStay
    <2> QED BY <1>1, <2>3, <2>4, <2>5, <2>6, <2>7, OtherObjects
  <1>10. \A s \in Transfers : /\ object'[s].urb = object[s].urb /\ object'[s].size = object[s].size
                              /\ object'[s].error = object[s].error
                              /\ object'[s].finishedUrbCount = object[s].finishedUrbCount
    BY <1>2, <1>4, <1>5 DEF ObjectsStay
  <1>11. ASSUME NEW u \in InFlight \cup Finished
         PROVE  OnItsWay(u)' /\ object'[u.transfer].size = object[u.transfer].size /\ u.transfer \in Transfers
    <2>1. u \in Blocks /\ OnItsWay(u) /\ u.transfer \in Transfers
      BY KernelBlocks DEF Blocks
    <2> QED BY <1>6, <1>10, <2>1 DEF OnItsWay, ClientsLive
  <1>12. PendingOK' /\ InFlight' = InFlight
    BY <1>1, <1>11, QueuesStay
  <1>13. CompletedOK' /\ Finished' = Finished
    BY <1>1, <1>11, CompletedStay
  <1>14. \A u : ~InHand(u) /\ ~InHand(u)'
    BY DEF InHand, InDiscard
  <1>15. InOrder'
    <2> SUFFICES ASSUME NEW j \in DOMAIN completed, completed[j].status = "ok",
                        ~object'[completed[j].urb.transfer].error,
                        NEW m \in (object'[completed[j].urb.transfer].finishedUrbCount + 1) .. (completed[j].urb.index - 1)
                 PROVE  \E k \in DOMAIN completed : k < j /\ completed[k].urb = Urb(completed[j].urb.transfer, m)
      BY <1>1 DEF InOrder
    <2>1. completed[j].urb.transfer \in Transfers
      <3>1. completed[j].urb \in Finished
        BY DEF Finished
      <3> QED BY <1>11, <3>1
    <2> QED BY <1>10, <1>14, <2>1 DEF IInv, InOrder
  <1>16. NothingLost'
    BY <1>1, <1>6, <1>10, <1>12, <1>13, <1>14 DEF IInv, NothingLost, ClientsLive, Unfinished
  <1>17. HandOK' /\ ErrorsEnd'
    BY <1>1, <1>7 DEF HandOK, ErrorsEnd
  <1>18. DestroyedLast'
    BY <1>1, <1>6 DEF IInv, DestroyedLast, ClientsLive
  <1> QED BY <1>1, <1>8, <1>9, <1>12, <1>13, <1>15, <1>16, <1>17, <1>18 DEF IInv

LEMMA ReaperDiscardKeeps ==
    ASSUME IInv, Discard
    PROVE  IInv'
  <1>1. PICK t, i : t = context.transfer /\ i = context.index
    OBVIOUS
  <1>2. InDiscard(t, i) /\ Alive(t) /\ UNCHANGED <<context, deviceVars>>
    BY <1>1, InDiscardHolds DEF Discard, InDiscard
  <1>3. CASE /\ NotifyDiscard(t, reaper.next)
             /\ errno' = IF Urb(t, reaper.next) \in InFlight THEN errno ELSE "EINVAL"
             /\ reaper' = [reaper EXCEPT !.next = @ + 1]
             /\ UNCHANGED wild
    BY <1>2, <1>3, DiscardTurnKeeps
  <1>4. CASE NotifyErrorDone(t, reaper.next) /\ reaper' = [at |-> "poll"] /\ UNCHANGED <<errno, wild>>
    BY <1>2, <1>4, DiscardEndKeeps
  <1> QED BY <1>1, <1>2, <1>3, <1>4 DEF Discard

-----------------------------------------------------------------------------
(* The invariant holds at the start, is kept by every step, and so always  *)
(* holds.                                                                  *)
LEMMA InitHolds ==
    ASSUME Init
    PROVE  IInv
  <1>1. /\ pending = [e \in Endpoints |-> <<>>] /\ completed = <<>> /\ plugged = TRUE
        /\ object = [t \in Transfers |-> NoObject]
        /\ client = [t \in Transfers |-> [at |-> "none"]]
        /\ reaper = [at |-> "poll"] /\ context = NoUrb /\ errno = "none"
        /\ device = "open" /\ running = TRUE /\ wild = FALSE
    BY DEF Init, KernelInit, TransferInit
  <1>2. NoObject \in Fields /\ NoObject.urb = <<>> /\ DOMAIN NoObject.urb = {} /\ Len(NoObject.urb) = 0
        /\ NoObject.size = 0 /\ NoObject.finishedUrbCount = 0 /\ NoObject.finishedBytes = 0
        /\ NoObject.error = FALSE /\ NoObject.locked = FALSE
    BY DEF NoObject, Fields
  <1>3. \A t \in Transfers : object[t] = NoObject /\ client[t] = [at |-> "none"] /\ client[t].at = "none"
    BY <1>1
  <1>4. InFlight = {} /\ Finished = {} /\ DOMAIN completed = {} /\ \A e \in Endpoints : DOMAIN pending[e] = {}
    BY <1>1 DEF InFlight, Finished, ToSet
  <1>5. TypeOK
    <2>1. [at |-> "none"] \in Clients /\ [at |-> "poll"] \in Reapers
      BY DEF Clients, Reapers
    <2> QED BY <1>1, <1>2, <2>1 DEF TypeOK
  <1>6. ObjectsOK
    <2> SUFFICES ASSUME NEW t \in Transfers
                 PROVE  Planned(t) /\ Counted(t) /\ Told(t) /\ FullUnlessLast(t)
      BY DEF ObjectsOK
    <2>1. Planned(t)
      <3>1. UrbCount(0) \in Nat \ {0}
        BY PlanNumbers
      <3> QED BY <1>2, <1>3, <3>1 DEF Planned
    <2>2. Counted(t)
      BY <1>2, <1>3, TotalSteps DEF Counted
    <2>3. Told(t) /\ FullUnlessLast(t)
      BY <1>2, <1>3 DEF Told, FullUnlessLast
    <2> QED BY <2>1, <2>2, <2>3
  <1>7. PendingOK /\ CompletedOK /\ InOrder
    BY <1>4 DEF PendingOK, CompletedOK, InOrder
  <1>8. NothingLost /\ HandOK /\ ErrorsEnd /\ DestroyedLast
    BY <1>1, <1>2, <1>3 DEF NothingLost, HandOK, ErrorsEnd, DestroyedLast, Live
  <1> QED BY <1>1, <1>5, <1>6, <1>7, <1>8 DEF IInv

LEMMA StepKeeps ==
    ASSUME ClientsWait, IInv, ~LaterBlockRefused', [Next]_vars
    PROVE  IInv'
  <1>1. CASE \E t \in Transfers : TransferStep(t)
    BY <1>1, ClientKeeps
  <1>2. CASE \E e \in Endpoints : DeviceAnswers(e) \/ DeviceFails(e)
    BY <1>2, DeviceAnswersKeeps
  <1>3. CASE \E u \in InFlight : KernelCancels(u)
    BY <1>3, KernelCancelsKeeps
  <1>4. CASE Unplug \/ ClearInterfaces
    BY <1>4, CancelAllKeeps
  <1>5. CASE Poll
    BY <1>5, PollKeeps
  <1>6. CASE Reap
    BY <1>6, ReapKeeps
  <1>7. CASE ReapFails
    BY <1>7, NothingToReap DEF ReapFails
  <1>8. CASE Dispatch
    BY <1>8, DispatchKeeps
  <1>9. CASE Notify
    BY <1>9, NotifyKeeps
  <1>10. CASE Discard
    BY <1>10, ReaperDiscardKeeps
  <1>11. CASE TeardownStep
    BY <1>11, TeardownKeeps
  <1>12. CASE UNCHANGED vars
    <2>1. /\ UNCHANGED <<pending, completed, plugged, object, client>>
          /\ UNCHANGED <<reaper, context, errno, device, running, wild>>
      BY <1>12 DEF vars
    <2>2. InFlight' = InFlight /\ Finished' = Finished /\ \A u : InHand(u)' <=> InHand(u)
      BY <2>1 DEF InFlight, Finished, InHand
    <2>3. TypeOK'
      BY <2>1 DEF TypeOK, IInv
    <2>4. HandOK' /\ ErrorsEnd' /\ DestroyedLast'
      BY <2>1, <2>2 DEF HandOK, ErrorsEnd, DestroyedLast, Live, IInv
    <2> QED BY <2>1, <2>2, <2>3, <2>4, NothingMoves DEF kernelVars
  <1> QED BY <1>1, <1>2, <1>3, <1>4, <1>5, <1>6, <1>7, <1>8, <1>9, <1>10, <1>11, <1>12
          DEF Next, ReaperStep

LEMMA Invariance ==
    ASSUME ClientsWait
    PROVE  Spec /\ []~LaterBlockRefused => []IInv
  <1> USE DEF ClientsWait
  <1>1. Init => IInv
    BY InitHolds
  <1>2. IInv /\ ~LaterBlockRefused' /\ [Next]_vars => IInv'
    BY StepKeeps
  <1> QED BY <1>1, <1>2, PTL DEF Spec

-----------------------------------------------------------------------------
(* The reaper never reads, writes or notifies a transfer its client has    *)
(* given up: clients that wait for their transfers are safe from the       *)
(* raw userContext pointers in the kernel's hands, until a block of a      *)
(* transfer is refused after an earlier one was accepted.                  *)
THEOREM ReaperIsSafe ==
    ASSUME ClientsWait
    PROVE  Spec /\ []~LaterBlockRefused => []NoWildUse
  <1>1. IInv => NoWildUse
    BY DEF IInv, NoWildUse
  <1> QED BY <1>1, Invariance, PTL

(* The blocks that have finished are the first _finishedUrbCount ones,     *)
(* each notified once, so that discard() may start behind them.            *)
THEOREM FinishedInOrder ==
    ASSUME ClientsWait
    PROVE  Spec /\ []~LaterBlockRefused => []FinishedIsAPrefix
  <1>1. IInv => FinishedIsAPrefix
    BY DEF IInv, ObjectsOK, Counted, FinishedIsAPrefix
  <1> QED BY <1>1, Invariance, PTL

(* wait() returns the sum of what the blocks have moved, with all of them  *)
(* finished and none left in the kernel, and throws only for one that has  *)
(* failed.                                                                 *)
THEOREM WaitTellsTheTruth ==
    ASSUME ClientsWait
    PROVE  Spec /\ []~LaterBlockRefused => []ReturnsWhatMoved
  <1>1. ASSUME IInv PROVE ReturnsWhatMoved
    <2> SUFFICES ASSUME NEW t \in Transfers
                 PROVE  /\ client[t].at = "threw" => Failed(t)
                        /\ client[t].at = "returned" =>
                              /\ Len(object[t].urb) = UrbCount(object[t].size)
                              /\ \A i \in DOMAIN object[t].urb :
                                    object[t].urb[i].status = "ok" /\ object[t].urb[i].notified = 1
                              /\ client[t].bytes = Moved(t)
                              /\ InKernel(t) = {}
      BY DEF ReturnsWhatMoved
    <2>1. Told(t) /\ Planned(t) /\ (~object[t].error => Counted(t))
      BY <1>1 DEF IInv, ObjectsOK
    <2>2. client[t].at = "threw" => Failed(t)
      BY <2>1 DEF Told
    <2>3. ASSUME client[t].at = "returned"
          PROVE  /\ Len(object[t].urb) = UrbCount(object[t].size)
                 /\ \A i \in DOMAIN object[t].urb :
                       object[t].urb[i].status = "ok" /\ object[t].urb[i].notified = 1
                 /\ client[t].bytes = Moved(t)
                 /\ InKernel(t) = {}
      <3>1. ~object[t].error /\ object[t].finishedUrbCount = Len(object[t].urb)
            /\ client[t].bytes = object[t].finishedBytes
        BY <2>1, <2>3 DEF Told
      <3>2. Len(object[t].urb) = UrbCount(object[t].size)
        BY <2>1, <2>3 DEF Planned
      <3>3. Counted(t) /\ DOMAIN object[t].urb = 1 .. Len(object[t].urb)
        BY <1>1, <2>1, <3>1, OneObject DEF IInv
      <3>4. \A i \in DOMAIN object[t].urb :
               object[t].urb[i].status = "ok" /\ object[t].urb[i].notified = 1
        BY <3>1, <3>3 DEF Counted
      <3>5. client[t].bytes = Moved(t)
        BY <3>1, <3>3 DEF Counted, Moved, Actuals
      <3>6. ASSUME NEW u \in InFlight \cup Finished, u.transfer = t PROVE FALSE
        <4>1. OnItsWay(u)
          BY <1>1, <3>6, KernelBlocks DEF IInv
        <4> QED BY <3>4, <3>6, <4>1 DEF OnItsWay
      <3>7. InKernel(t) = {}
        BY <3>6 DEF InKernel
      <3> QED BY <3>2, <3>4, <3>5, <3>7
    <2> QED BY <2>2, <2>3
  <1> QED BY <1>1, Invariance, PTL

(* What a client gets has no gap; and the blocks lie one after the other   *)
(* from the start of the buffer and cover it all once they are submitted,  *)
(* for a buffer of any size whose blocks fit the cast to uint32_t.         *)
THEOREM DataLiesTogether ==
    ASSUME ClientsWait
    PROVE  Spec /\ []~LaterBlockRefused => []DataIsContiguous
  <1>1. ASSUME IInv PROVE DataIsContiguous
    <2> SUFFICES ASSUME NEW t \in Transfers,
                        NEW urb, urb = object[t].urb,
                        NEW size, size = object[t].size,
                        NEW lengths, lengths = [i \in DOMAIN urb |-> urb[i].length]
                 PROVE  /\ BlockSize(size) < LengthModulus =>
                              \A i \in DOMAIN urb : UrbOffset(size, i) = Total(lengths, i - 1)
                        /\ BlockSize(size) < LengthModulus
                           /\ client[t].at \in {"ready", "blocked", "returned"} =>
                              Total(lengths, Len(urb)) = size
                        /\ client[t].at = "returned" =>
                              \A i \in 1..(Len(urb) - 1) : urb[i].actual = urb[i].length
      BY DEF DataIsContiguous, LengthFits
    <2>1. /\ size \in Nat /\ Len(urb) \in Nat /\ DOMAIN urb = 1 .. Len(urb)
          /\ Planned(t) /\ Told(t) /\ FullUnlessLast(t) /\ (~object[t].error => Counted(t))
      BY <1>1, OneObject DEF IInv, ObjectsOK, Fields
    <2>2. /\ UrbCount(size) \in Nat \ {0} /\ BlockSize(size) \in Nat
          /\ BlockSize(size) < LengthModulus =>
                /\ \A i : ~IsLast(size, i) => UrbLength(size, i) = BlockSize(size)
                /\ (UrbCount(size) - 1) * BlockSize(size) + UrbLength(size, UrbCount(size)) = size
      BY <2>1, PlanNumbers, PlanCovers
    <2>3. /\ Len(urb) <= UrbCount(size) /\ \A i \in 1 .. Len(urb) : lengths[i] = UrbLength(size, i)
          /\ client[t].at \in {"ready", "blocked", "returned"} => Len(urb) = UrbCount(size)
      BY <2>1 DEF Planned
    <2>4. ASSUME BlockSize(size) < LengthModulus, NEW i \in DOMAIN urb PROVE Total(lengths, i - 1) = (i - 1) * BlockSize(size)
      <3>1. i - 1 \in Nat /\ \A j \in 1 .. (i - 1) : j \in 1 .. Len(urb) /\ ~IsLast(size, j)
        BY <2>1, <2>2, <2>3 DEF IsLast
      <3>2. \A j \in 1 .. (i - 1) : lengths[j] = BlockSize(size)
        BY <2>2, <2>3, <2>4, <3>1
      <3>3. PICK n, b : n = i - 1 /\ b = BlockSize(size)
        OBVIOUS
      <3>4. n \in Nat /\ b \in Nat /\ \A j \in 1 .. n : lengths[j] = b
        BY <2>2, <3>1, <3>2, <3>3
      <3>5. Total(lengths, n) = n * b
        BY <3>4, TotalOfEqual
      <3> QED BY <3>3, <3>5
    <2>5. ASSUME BlockSize(size) < LengthModulus, client[t].at \in {"ready", "blocked", "returned"}
          PROVE  Total(lengths, Len(urb)) = size
      <3>1. PICK n \in Nat : n + 1 = UrbCount(size)
        <4>1. UrbCount(size) - 1 \in Nat /\ (UrbCount(size) - 1) + 1 = UrbCount(size)
          BY <2>2
        <4> QED BY <4>1
      <3>2. Len(urb) = n + 1 /\ n + 1 \in DOMAIN urb /\ (n + 1) - 1 = n /\ UrbCount(size) - 1 = n
        BY <2>1, <2>3, <2>5, <3>1
      <3>3. Total(lengths, n) = n * BlockSize(size)
        BY <2>4, <2>5, <3>2
      <3>4. Total(lengths, n + 1) = Total(lengths, n) + lengths[n + 1]
        BY TotalSteps
      <3>5. lengths[n + 1] = UrbLength(size, UrbCount(size))
        BY <2>1, <2>3, <3>1, <3>2
      <3> QED BY <2>2, <2>5, <3>2, <3>3, <3>4, <3>5
    <2>6. ASSUME client[t].at = "returned", NEW i \in 1 .. (Len(urb) - 1)
          PROVE  urb[i].actual = urb[i].length
      <3>1. ~object[t].error /\ object[t].finishedUrbCount = Len(urb)
        BY <2>1, <2>6 DEF Told
      <3>2. i \in DOMAIN urb /\ ~IsLast(size, i) /\ i <= Len(urb)
        BY <2>1, <2>2, <2>3, <2>6 DEF IsLast
      <3>3. urb[i].status = "ok"
        BY <2>1, <3>1, <3>2 DEF Counted
      <3>4. Full(Urb(t, i), urb[i].actual)
        BY <2>1, <3>2, <3>3 DEF FullUnlessLast
      <3>5. urb[i].actual = UrbLength(size, i)
        BY <3>2, <3>4 DEF Full, Urb
      <3> QED BY <2>1, <2>3, <3>2, <3>5
    <2> QED BY <2>4, <2>5, <2>6 DEF UrbOffset
  <1> QED BY <1>1, Invariance, PTL
=============================================================================
