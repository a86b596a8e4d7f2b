------------------------- MODULE Sequential_proofs -------------------------
(***************************************************************************)
(* The parts that one caller uses at a time.  The ring of ByteFifo is a    *)
(* queue, the rings of LinkedLists are sequences that foreach goes over    *)
(* once, the words of UsbWords keep their fields apart, the edges of       *)
(* RawInput tell the states, and the numbers of StreamWriter read back: for*)
(* all their constants.                                                    *)
(***************************************************************************)
EXTENDS MCSequential, SequenceTheorems, FiniteSetTheorems, WellFoundedInduction, TLAPS

-----------------------------------------------------------------------------
(* The byte FIFO.                                                          *)

(* A position less than twice round the ring, reduced to a slot.           *)
LEMMA OnceRound ==
    ASSUME NEW c \in Nat \ {0}, NEW x \in Nat, x < c + c
    PROVE  x % c = IF x < c THEN x ELSE x - c
  OBVIOUS

(* The numbers a state of the ring is made of.                             *)
LEMMA RingNumbers ==
    ASSUME TypeOK
    PROVE  /\ Capacity \in Nat \ {0}
           /\ begin \in Nat /\ begin < Capacity
           /\ size \in Nat /\ size <= Capacity
           /\ WriteOffset = IF begin + size < Capacity THEN begin + size
                            ELSE begin + size - Capacity
           /\ WriteOffset \in Nat /\ WriteOffset < Capacity
  <1>1. Capacity \in Nat \ {0} /\ begin \in Nat /\ begin < Capacity /\ size \in Nat /\ size <= Capacity
    BY CapacityAssumption DEF TypeOK, Slots
  <1>2. WriteOffset = IF begin + size < Capacity THEN begin + size
                      ELSE begin + size - Capacity
    <2> DEFINE x == begin + size
    <2>1. x \in Nat /\ x < Capacity + Capacity
      BY <1>1
    <2> HIDE DEF x
    <2>2. x % Capacity = IF x < Capacity THEN x ELSE x - Capacity
      BY <1>1, <2>1, OnceRound
    <2> QED BY <1>1, <2>2 DEF x, WriteOffset
  <1> QED BY <1>1, <1>2

(* How far slot i lies behind the slot a write starts at.                  *)
Behind(i) == IF i >= WriteOffset THEN i - WriteOffset ELSE i + Capacity - WriteOffset

(* A write of n bytes changes the n slots from its offset on, around the   *)
(* end of the ring, and no other.                                          *)
LEMMA StoreSlots ==
    ASSUME TypeOK, NEW n \in Nat, n <= AvailableSize, NEW data \in [1..n -> Bytes],
           NEW i \in Slots
    PROVE  Store(data, n)[i] = IF Behind(i) < n THEN data[Behind(i) + 1] ELSE buffer[i]
  <1>1. /\ Capacity \in Nat \ {0} /\ WriteOffset \in Nat /\ WriteOffset < Capacity
        /\ i \in Nat /\ i < Capacity /\ n <= Capacity
    BY RingNumbers DEF AvailableSize, Slots
  <1>2. CASE ToEnd(WriteOffset) >= n
    <2>1. Store(data, n)[i] = IF i >= WriteOffset /\ i < WriteOffset + n
                              THEN data[1 + (i - WriteOffset)] ELSE buffer[i]
      BY <1>2 DEF Store, CopyIn
    <2>2. i >= WriteOffset /\ i < WriteOffset + n <=> Behind(i) < n
      BY <1>1, <1>2 DEF Behind, ToEnd
    <2>3. i >= WriteOffset => 1 + (i - WriteOffset) = Behind(i) + 1
      BY <1>1 DEF Behind
    <2> QED BY <2>1, <2>2, <2>3
  <1>3. CASE ~(ToEnd(WriteOffset) >= n)
    <2> DEFINE e == Capacity - WriteOffset
    <2>1. e \in Nat /\ e < n /\ ToEnd(WriteOffset) = e
      BY <1>1, <1>3 DEF ToEnd
    <2>2. Store(data, n)[i] = IF i >= 0 /\ i < 0 + (n - e) THEN data[(e + 1) + (i - 0)]
                              ELSE IF i >= WriteOffset /\ i < WriteOffset + e
                                   THEN data[1 + (i - WriteOffset)] ELSE buffer[i]
      BY <1>3, <2>1 DEF Store, CopyIn
    <2>3. CASE i < n - e
      <3>1. i < WriteOffset /\ Behind(i) = i + e /\ Behind(i) < n
        BY <1>1, <2>1, <2>3 DEF Behind
      <3> QED BY <1>1, <2>1, <2>2, <2>3, <3>1
    <2>4. CASE i >= n - e /\ i >= WriteOffset
      <3>1. Behind(i) = i - WriteOffset /\ Behind(i) < n /\ i < WriteOffset + e
        BY <1>1, <2>1, <2>4 DEF Behind
      <3> QED BY <1>1, <2>1, <2>2, <2>4, <3>1
    <2>5. CASE i >= n - e /\ i < WriteOffset
      <3>1. Behind(i) = i + e /\ ~(Behind(i) < n)
        BY <1>1, <2>1, <2>5 DEF Behind
      <3> QED BY <1>1, <2>1, <2>2, <2>5, <3>1
    <2> HIDE DEF e
    <2> QED BY <1>1, <2>1, <2>3, <2>4, <2>5
  <1> QED BY <1>2, <1>3

(* The ring keeps its shape, and its bytes are bytes.                      *)
LEMMA StoreType ==
    ASSUME TypeOK, NEW n \in Nat, n <= AvailableSize, NEW data \in [1..n -> Bytes]
    PROVE  Store(data, n) \in [Slots -> Bytes]
  <1>1. Store(data, n) = [i \in Slots |-> Store(data, n)[i]]
    BY DEF Store, CopyIn
  <1>2. ASSUME NEW i \in Slots PROVE Store(data, n)[i] \in Bytes
    <2>1. Behind(i) \in Nat
      BY RingNumbers DEF Behind, Slots
    <2>2. Behind(i) < n => data[Behind(i) + 1] \in Bytes
      BY <2>1
    <2> QED BY <2>2, StoreSlots DEF TypeOK
  <1> QED BY <1>1, <1>2

-----------------------------------------------------------------------------
(* The slot of the k-th byte in the queue.                                 *)
Slot(k) == (begin + (k - 1)) % Capacity

LEMMA SlotOf ==
    ASSUME TypeOK, NEW k \in Nat \ {0}, k <= Capacity
    PROVE  /\ Slot(k) = IF begin + (k - 1) < Capacity THEN begin + (k - 1)
                        ELSE begin + (k - 1) - Capacity
           /\ Slot(k) \in Slots
  <1>1. /\ Capacity \in Nat \ {0} /\ begin \in Nat /\ begin < Capacity
        /\ begin + (k - 1) \in Nat /\ begin + (k - 1) < Capacity + Capacity
    BY RingNumbers
  <1>2. Slot(k) = IF begin + (k - 1) < Capacity THEN begin + (k - 1)
                  ELSE begin + (k - 1) - Capacity
    <2> DEFINE x == begin + (k - 1)
    <2>1. x \in Nat /\ x < Capacity + Capacity
      BY <1>1
    <2> HIDE DEF x
    <2>2. x % Capacity = IF x < Capacity THEN x ELSE x - Capacity
      BY <1>1, <2>1, OnceRound
    <2> QED BY <1>1, <2>2 DEF x, Slot
  <1> QED BY <1>1, <1>2 DEF Slots

(* What is in the ring is a sequence of bytes.                             *)
LEMMA ContentsType ==
    ASSUME TypeOK
    PROVE  /\ Contents \in [1..size -> Bytes]
           /\ Contents \in Seq(Bytes)
           /\ Len(Contents) = size
  <1>1. ASSUME NEW k \in 1..size PROVE buffer[Slot(k)] \in Bytes
    BY RingNumbers, SlotOf DEF TypeOK
  <1>2. Contents \in [1..size -> Bytes]
    BY <1>1 DEF Contents, Slot
  <1> QED BY <1>2, RingNumbers

-----------------------------------------------------------------------------
LEMMA RemainderIsLess ==
    ASSUME NEW m \in Nat, NEW d \in Nat \ {0}
    PROVE  m % d \in Nat /\ m % d <= m
  <1>1. m % d \in 0..(d - 1)
    OBVIOUS
  <1>2. m < d => m % d = m
    OBVIOUS
  <1> QED BY <1>1, <1>2

LEMMA InitType == Init => TypeOK
  BY CapacityAssumption DEF Init, TypeOK, Slots

LEMMA RequestNumbers == \A n \in Requests : n \in Nat
  BY RequestAssumption DEF Requests

(* What read() sees is no more than what it was asked for.                 *)
LEMMA ReadRequestNumbers == \A n \in ReadRequests : n \in Requests
  <1> SUFFICES ASSUME NEW n \in ReadRequests PROVE n \in Requests
    OBVIOUS
  <1>1. PICK m \in 0..MaxRequest : n = m % ReadModulus
    BY DEF ReadRequests, Requests
  <1>2. m \in Nat /\ ReadModulus \in Nat \ {0} /\ MaxRequest \in Nat /\ m <= MaxRequest
    BY RequestAssumption
  <1>3. n \in Nat /\ n <= m
    BY <1>1, <1>2, RemainderIsLess
  <1> QED BY <1>2, <1>3 DEF Requests

LEMMA StepType == TypeOK /\ [Next]_vars => TypeOK'
  <1> SUFFICES ASSUME TypeOK, [Next]_vars PROVE TypeOK'
    OBVIOUS
  <1>0. CASE UNCHANGED vars
    <2>1. buffer' = buffer /\ begin' = begin /\ size' = size
      BY <1>0 DEF vars
    <2> QED BY <2>1 DEF TypeOK
  <1>1. CASE Write
    <2>0. PICK n \in Requests : \E data \in [1..n -> Bytes] :
             \/ /\ AvailableSize >= n /\ buffer' = Store(data, n) /\ size' = size + n
                /\ UNCHANGED begin
             \/ AvailableSize < n /\ answer' = Wrote(data, FALSE) /\ UNCHANGED <<buffer, begin, size>>
      BY <1>1 DEF Write
    <2>1. PICK data \in [1..n -> Bytes] :
             \/ /\ AvailableSize >= n /\ buffer' = Store(data, n) /\ size' = size + n
                /\ UNCHANGED begin
             \/ AvailableSize < n /\ answer' = Wrote(data, FALSE) /\ UNCHANGED <<buffer, begin, size>>
      BY <2>0
    <2>2. n \in Nat
      BY RequestNumbers
    <2>3. CASE AvailableSize >= n /\ buffer' = Store(data, n) /\ size' = size + n
               /\ UNCHANGED begin
      <3>1. n <= AvailableSize
        BY <2>2, <2>3, RingNumbers DEF AvailableSize
      <3>2. buffer' \in [Slots -> Bytes]
        BY <2>2, <2>3, <3>1, StoreType
      <3>3. size' \in 0..Capacity
        BY <2>2, <2>3, RingNumbers DEF AvailableSize
      <3> QED BY <2>3, <3>2, <3>3 DEF TypeOK
    <2>4. CASE AvailableSize < n /\ answer' = Wrote(data, FALSE) /\ UNCHANGED <<buffer, begin, size>>
      BY <2>4 DEF TypeOK
    <2> QED BY <2>1, <2>3, <2>4
  <1>2. CASE Read
    <2>1. PICK n \in ReadRequests :
             \/ /\ size >= n /\ answer' = Got(n, TRUE, Load(n))
                /\ begin' = Advanced(n) /\ size' = size - n /\ UNCHANGED buffer
             \/ size < n /\ answer' = Got(n, FALSE, <<>>) /\ UNCHANGED <<buffer, begin, size>>
      BY <1>2 DEF Read
    <2>2. n \in Requests /\ n \in Nat
      BY RequestNumbers, ReadRequestNumbers
    <2>3. CASE size >= n /\ answer' = Got(n, TRUE, Load(n))
               /\ begin' = Advanced(n) /\ size' = size - n /\ UNCHANGED buffer
      <3>0. /\ Capacity \in Nat \ {0} /\ begin \in Nat /\ begin < Capacity
            /\ size \in Nat /\ size <= Capacity /\ n <= size
        BY <2>2, <2>3, RingNumbers
      <3>a. begin + n \in Nat /\ begin + n < Capacity + Capacity
        BY <2>2, <3>0
      <3>b. (begin + n) % Capacity \in Slots
        BY <2>2, <3>0, <3>a DEF Slots
      <3>1. Advanced(n) \in Slots
        BY <2>2, <3>0, <3>b DEF Advanced, ToEnd, Slots
      <3>2. size' \in 0..Capacity
        BY <2>2, <2>3, RingNumbers
      <3> QED BY <2>3, <3>1, <3>2 DEF TypeOK
    <2>4. CASE size < n /\ answer' = Got(n, FALSE, <<>>) /\ UNCHANGED <<buffer, begin, size>>
      BY <2>4 DEF TypeOK
    <2> QED BY <2>1, <2>3, <2>4
  <1>3. CASE Peek
    BY <1>3 DEF Peek, TypeOK
  <1>4. CASE Discard
    <2>1. PICK n \in Nat : /\ n <= size /\ begin' = (begin + n) % Capacity
                           /\ size' = size - n /\ UNCHANGED buffer
      <3>1. PICK count \in Requests :
               LET n == IF count > size THEN size ELSE count
               IN  /\ begin' = (begin + n) % Capacity /\ size' = size - n
                   /\ answer' = Discarded(count, n) /\ UNCHANGED buffer
        BY <1>4 DEF Discard
      <3>2. count \in Nat
        BY RequestNumbers
      <3> QED BY <3>1, <3>2, RingNumbers
    <2>2. begin' \in Slots
      BY <2>1, RingNumbers, OnceRound DEF Slots
    <2>3. size' \in 0..Capacity
      BY <2>1, RingNumbers
    <2> QED BY <2>1, <2>2, <2>3 DEF TypeOK
  <1>5. CASE Clear
    BY <1>5, CapacityAssumption DEF Clear, TypeOK, Slots
  <1> QED BY <1>0, <1>1, <1>2, <1>3, <1>4, <1>5 DEF Next

(* The indices never leave the ring, whatever is written, read and         *)
(* discarded: every memcpy stays inside _buffer.                           *)
THEOREM Typing == Spec => []TypeOK
  BY InitType, StepType, PTL DEF Spec

-----------------------------------------------------------------------------
(* The k-th byte in the queue is in the k-th slot from _begin.             *)
LEMMA ContentsAt ==
    ASSUME NEW k \in 1..size
    PROVE  Contents[k] = buffer[Slot(k)]
  BY DEF Contents, Slot

(* The first n bytes are what read() and peek() copy out.                  *)
LEMMA LoadIsFirst ==
    ASSUME TypeOK, NEW n \in Nat, n <= size
    PROVE  Load(n) = Queue!First(n)
  <1>1. /\ Capacity \in Nat \ {0} /\ begin \in Nat /\ begin < Capacity
        /\ size \in Nat /\ size <= Capacity
    BY RingNumbers
  <1>2. ASSUME NEW k \in 1..n PROVE Load(n)[k] = Contents[k]
    <2>1. k \in 1..size /\ k \in Nat \ {0} /\ k <= Capacity
      BY <1>1
    <2>2. Contents[k] = buffer[IF begin + (k - 1) < Capacity THEN begin + (k - 1)
                               ELSE begin + (k - 1) - Capacity]
      BY <2>1, ContentsAt, SlotOf
    <2>3. CASE ToEnd(begin) >= n
      <3>1. begin + (k - 1) < Capacity
        BY <1>1, <2>3 DEF ToEnd
      <3>2. Load(n)[k] = buffer[begin + (k - 1)]
        BY <2>3 DEF Load
      <3> QED BY <2>2, <3>1, <3>2
    <2>4. CASE ~(ToEnd(begin) >= n)
      <3>1. Load(n)[k] = IF k <= ToEnd(begin) THEN buffer[begin + (k - 1)]
                         ELSE buffer[k - 1 - ToEnd(begin)]
        BY <2>4 DEF Load
      <3>2. /\ k <= ToEnd(begin) <=> begin + (k - 1) < Capacity
            /\ k - 1 - ToEnd(begin) = begin + (k - 1) - Capacity
        BY <1>1, <2>1 DEF ToEnd
      <3> QED BY <2>2, <3>1, <3>2
    <2> QED BY <2>3, <2>4
  <1>3. Load(n) = [k \in 1..n |-> Load(n)[k]]
    BY DEF Load
  <1>4. Queue!First(n) = [k \in 1..n |-> Contents[k]]
    BY DEF Queue!First
  <1> QED BY <1>2, <1>3, <1>4

(* After a write the ring holds what it held, and then the data.           *)
LEMMA StoreAppends ==
    ASSUME TypeOK, NEW n \in Nat, n <= AvailableSize, NEW data \in [1..n -> Bytes],
           buffer' = Store(data, n), size' = size + n, begin' = begin
    PROVE  Contents' = Contents \o data
  <1>1. /\ Capacity \in Nat \ {0} /\ begin \in Nat /\ begin < Capacity
        /\ size \in Nat /\ size + n <= Capacity
        /\ WriteOffset = IF begin + size < Capacity THEN begin + size
                         ELSE begin + size - Capacity
    BY RingNumbers DEF AvailableSize
  <1>2. Contents' = [k \in 1..(size + n) |-> Store(data, n)[Slot(k)]]
    BY DEF Contents, Slot
  <1>3. ASSUME NEW k \in 1..(size + n)
        PROVE  Store(data, n)[Slot(k)] = IF k <= size THEN Contents[k] ELSE data[k - size]
    <2>1. k \in Nat \ {0} /\ k <= Capacity
      BY <1>1
    <2>2. /\ Slot(k) \in Slots
          /\ Slot(k) = IF begin + (k - 1) < Capacity THEN begin + (k - 1)
                       ELSE begin + (k - 1) - Capacity
      BY <2>1, SlotOf
    <2>3. Store(data, n)[Slot(k)] =
              IF Behind(Slot(k)) < n THEN data[Behind(Slot(k)) + 1] ELSE buffer[Slot(k)]
      BY <2>2, StoreSlots
    <2>4. CASE k <= size
      <3>1. ~(Behind(Slot(k)) < n)
        BY <1>1, <2>1, <2>2, <2>4 DEF Behind
      <3>2. k \in 1..size
        BY <1>1, <2>4
      <3> QED BY <2>3, <2>4, <3>1, <3>2, ContentsAt
    <2>5. CASE ~(k <= size)
      <3>1. Behind(Slot(k)) = k - 1 - size /\ k - 1 - size < n
        BY <1>1, <2>1, <2>2, <2>5 DEF Behind
      <3>2. (k - 1 - size) + 1 = k - size
        BY <1>1
      <3> QED BY <2>3, <2>5, <3>1, <3>2
    <2> QED BY <2>4, <2>5
  <1>4. Contents \in Seq(Bytes) /\ Len(Contents) = size
    BY ContentsType
  <1>5. data \in Seq(Bytes) /\ Len(data) = n
    OBVIOUS
  <1>6. /\ Contents \o data \in Seq(Bytes) /\ Len(Contents \o data) = size + n
        /\ \A k \in 1..(size + n) :
              (Contents \o data)[k] = IF k <= size THEN Contents[k] ELSE data[k - size]
    BY <1>4, <1>5, ConcatProperties
  <1>7. Contents \o data = [k \in 1..(size + n) |-> (Contents \o data)[k]]
    BY <1>6, LenProperties
  <1> QED BY <1>2, <1>3, <1>6, <1>7

(* Advancing _begin by n takes the first n bytes off.                      *)
LEMMA AdvanceDrops ==
    ASSUME TypeOK, NEW n \in Nat, n <= size,
           buffer' = buffer, size' = size - n, begin' = (begin + n) % Capacity
    PROVE  Contents' = Queue!Rest(n)
  <1>1. /\ Capacity \in Nat \ {0} /\ begin \in Nat /\ begin < Capacity
        /\ size \in Nat /\ size <= Capacity
    BY RingNumbers
  <1>2. Len(Contents) = size
    BY ContentsType
  <1>3. begin' = IF begin + n < Capacity THEN begin + n ELSE begin + n - Capacity
    <2> DEFINE x == begin + n
    <2>1. x \in Nat /\ x < Capacity + Capacity
      BY <1>1
    <2> HIDE DEF x
    <2>2. x % Capacity = IF x < Capacity THEN x ELSE x - Capacity
      BY <1>1, <2>1, OnceRound
    <2> QED BY <1>1, <2>2 DEF x
  <1>4. ASSUME NEW k \in 1..(size - n)
        PROVE  buffer[(begin' + (k - 1)) % Capacity] = Contents[n + k]
    <2>1. n + k \in 1..size /\ n + k \in Nat \ {0} /\ n + k <= Capacity
      BY <1>1
    <2>2. Contents[n + k] = buffer[IF begin + (n + k - 1) < Capacity THEN begin + (n + k - 1)
                                   ELSE begin + (n + k - 1) - Capacity]
      BY <2>1, ContentsAt, SlotOf
    <2>3. /\ begin' + (k - 1) \in Nat /\ begin' + (k - 1) < Capacity + Capacity
          /\ begin' \in Nat
      BY <1>1, <1>3
    <2>4. (begin' + (k - 1)) % Capacity = IF begin' + (k - 1) < Capacity THEN begin' + (k - 1)
                                          ELSE begin' + (k - 1) - Capacity
      BY <1>1, <2>3, OnceRound
    <2>5. (begin' + (k - 1)) % Capacity = IF begin + (n + k - 1) < Capacity
                                          THEN begin + (n + k - 1)
                                          ELSE begin + (n + k - 1) - Capacity
      BY <1>1, <1>3, <2>1, <2>4
    <2> QED BY <2>2, <2>5
  <1>5. Contents' = [k \in 1..(size - n) |-> buffer[(begin' + (k - 1)) % Capacity]]
    BY DEF Contents
  <1>6. Queue!Rest(n) = [k \in 1..(size - n) |-> Contents[n + k]]
    BY <1>2 DEF Queue!Rest
  <1> QED BY <1>4, <1>5, <1>6

-----------------------------------------------------------------------------
LEMMA InitRefines == Init => Queue!Init
  BY DEF Init, Queue!Init, Contents, Cleared, Queue!Cleared

LEMMA StepRefines ==
    ASSUME Capacity < HangLimit, TypeOK, [Next]_vars
    PROVE  [Queue!Next]_(Queue!avars)
  <1>a. /\ Queue!Requests = Requests /\ Queue!Cleared = Cleared
        /\ Len(Contents) = size /\ size \in Nat /\ Capacity \in Nat
    BY ContentsType, RingNumbers DEF Queue!Requests, Requests, Queue!Cleared, Cleared
  <1>b. ASSUME UNCHANGED <<buffer, begin, size>> PROVE Contents' = Contents
    BY <1>b DEF Contents
  <1>0. CASE UNCHANGED vars
    BY <1>0, <1>b DEF vars, Queue!avars
  <1>1. CASE Write
    <2>0. PICK n \in Requests : \E data \in [1..n -> Bytes] :
             \/ /\ AvailableSize >= n /\ buffer' = Store(data, n) /\ size' = size + n
                /\ answer' = (IF size + n >= HangLimit THEN Hung ELSE Wrote(data, TRUE))
                /\ UNCHANGED begin
             \/ AvailableSize < n /\ answer' = Wrote(data, FALSE) /\ UNCHANGED <<buffer, begin, size>>
      BY <1>1 DEF Write
    <2>1. PICK data \in [1..n -> Bytes] :
             \/ /\ AvailableSize >= n /\ buffer' = Store(data, n) /\ size' = size + n
                /\ answer' = (IF size + n >= HangLimit THEN Hung ELSE Wrote(data, TRUE))
                /\ UNCHANGED begin
             \/ AvailableSize < n /\ answer' = Wrote(data, FALSE) /\ UNCHANGED <<buffer, begin, size>>
      BY <2>0
    <2>2. n \in Nat
      BY RequestNumbers
    <2>3. CASE AvailableSize >= n /\ buffer' = Store(data, n) /\ size' = size + n
               /\ answer' = (IF size + n >= HangLimit THEN Hung ELSE Wrote(data, TRUE))
               /\ UNCHANGED begin
      <3>1. n <= AvailableSize /\ Len(Contents) + n <= Capacity /\ ~(size + n >= HangLimit)
        BY <1>a, <2>2, <2>3, RequestAssumption DEF AvailableSize
      <3>2. Contents' = Contents \o data
        BY <2>2, <2>3, <3>1, StoreAppends
      <3>3. answer' = Wrote(data, TRUE)
        BY <2>3, <3>1
      <3> QED BY <1>a, <3>1, <3>2, <3>3 DEF Queue!Next, Queue!Write, Queue!Wrote, Wrote
    <2>4. CASE AvailableSize < n /\ answer' = Wrote(data, FALSE) /\ UNCHANGED <<buffer, begin, size>>
      <3>1. ~(Len(Contents) + n <= Capacity)
        BY <1>a, <2>2, <2>4 DEF AvailableSize
      <3>2. Contents' = Contents
        BY <1>b, <2>4
      <3> QED BY <1>a, <2>4, <3>1, <3>2 DEF Queue!Next, Queue!Write, Queue!Wrote, Wrote
    <2> QED BY <2>1, <2>3, <2>4
  <1>2. CASE Read
    <2>1. PICK n \in ReadRequests :
             \/ /\ size >= n /\ answer' = Got(n, TRUE, Load(n))
                /\ begin' = Advanced(n) /\ size' = size - n /\ UNCHANGED buffer
             \/ size < n /\ answer' = Got(n, FALSE, <<>>) /\ UNCHANGED <<buffer, begin, size>>
      BY <1>2 DEF Read
    <2>2. n \in Requests /\ n \in Nat
      BY RequestNumbers, ReadRequestNumbers
    <2>3. CASE size >= n /\ answer' = Got(n, TRUE, Load(n))
               /\ begin' = Advanced(n) /\ size' = size - n /\ UNCHANGED buffer
      <3>1. n <= size
        BY <1>a, <2>2, <2>3
      <3>2. Load(n) = Queue!First(n)
        BY <2>2, <3>1, LoadIsFirst
      <3>3. begin' = (begin + n) % Capacity
        BY <2>2, <2>3, <3>1, RingNumbers, OnceRound DEF Advanced, ToEnd
      <3>4. Contents' = Queue!Rest(n)
        BY <2>2, <2>3, <3>1, <3>3, AdvanceDrops
      <3>5. n <= Len(Contents) /\ answer' = Queue!Got(n, TRUE, Queue!First(n))
        BY <1>a, <2>3, <3>1, <3>2 DEF Queue!Got, Got
      <3>6. n \in Queue!Requests
        BY <2>2 DEF Requests, Queue!Requests
      <3>7. Queue!Read
        BY <3>4, <3>5, <3>6 DEF Queue!Read
      <3> QED BY <3>7 DEF Queue!Next
    <2>4. CASE size < n /\ answer' = Got(n, FALSE, <<>>) /\ UNCHANGED <<buffer, begin, size>>
      <3>1. ~(n <= Len(Contents))
        BY <1>a, <2>2, <2>4
      <3>2. Contents' = Contents
        BY <1>b, <2>4
      <3>3. answer' = Queue!Got(n, FALSE, <<>>)
        BY <2>4 DEF Queue!Got, Got
      <3>4. n \in Queue!Requests
        BY <2>2 DEF Requests, Queue!Requests
      <3>5. Queue!Read
        BY <3>1, <3>2, <3>3, <3>4 DEF Queue!Read
      <3> QED BY <3>5 DEF Queue!Next
    <2> QED BY <2>1, <2>3, <2>4
  <1>3. CASE Peek
    <2>1. PICK n \in Requests :
             /\ answer' = IF size >= n THEN Peeked(n, TRUE, Load(n)) ELSE Peeked(n, FALSE, <<>>)
             /\ UNCHANGED <<buffer, begin, size>>
      BY <1>3 DEF Peek
    <2>2. n \in Nat
      BY RequestNumbers
    <2>3. n <= Len(Contents) <=> size >= n
      BY <1>a, <2>2
    <2>4. n <= Len(Contents) => Load(n) = Queue!First(n)
      BY <1>a, <2>2, LoadIsFirst
    <2>5. Contents' = Contents
      BY <1>b, <2>1
    <2> QED BY <1>a, <2>1, <2>3, <2>4, <2>5 DEF Queue!Next, Queue!Peek, Queue!Peeked, Peeked
  <1>4. CASE Discard
    <2>1. PICK count \in Requests :
             LET n == IF count > size THEN size ELSE count
             IN  /\ begin' = (begin + n) % Capacity /\ size' = size - n
                 /\ answer' = Discarded(count, n) /\ UNCHANGED buffer
      BY <1>4 DEF Discard
    <2>2. count \in Nat
      BY RequestNumbers
    <2> DEFINE n == IF count <= Len(Contents) THEN count ELSE Len(Contents)
    <2>3. /\ n \in Nat /\ n <= size /\ buffer' = buffer /\ answer' = Queue!Discarded(count, n)
          /\ size' = size - n /\ begin' = (begin + n) % Capacity
      BY <1>a, <2>1, <2>2 DEF Discarded, Queue!Discarded
    <2> HIDE DEF n
    <2>4. Contents' = Queue!Rest(n)
      BY <2>3, AdvanceDrops
    <2> QED BY <1>a, <2>1, <2>3, <2>4 DEF n, Queue!Next, Queue!Discard
  <1>5. CASE Clear
    <2>1. Contents' = <<>>
      BY <1>5 DEF Clear, Contents
    <2> QED BY <1>a, <1>5, <2>1 DEF Clear, Queue!Next, Queue!Clear
  <1> QED BY <1>0, <1>1, <1>2, <1>3, <1>4, <1>5 DEF Next

(* The ring implements a bounded queue: no byte is lost, repeated or       *)
(* reordered where it wraps, and a refused call changes nothing.           *)
THEOREM Refinement ==
    ASSUME Capacity < HangLimit
    PROVE  Spec => ImplementsQueue
  <1>1. TypeOK /\ [Next]_vars => [Queue!Next]_(Queue!avars)
    BY StepRefines
  <1> QED BY InitRefines, Typing, <1>1, PTL DEF Spec, ImplementsQueue, Queue!Spec

-----------------------------------------------------------------------------
(* Linked lists.                                                           *)

LEMMA Least ==
    ASSUME NEW T, T \subseteq Nat, T # {}
    PROVE  \E x \in T : \A y \in T : x <= y
  <1>1. PICK x \in T : \A y \in T : ~(<<y, x>> \in OpToRel(<, Nat))
    BY NatLessThanWellFounded, WFMin
  <1>2. \A y \in T : ~(y < x)
    BY <1>1 DEF OpToRel
  <1> QED BY <1>2

LEMMA SetInduction ==
    ASSUME NEW T, 0 \in T, \A n \in Nat : n \in T => n + 1 \in T
    PROVE  Nat \subseteq T
  <1> DEFINE rest == Nat \ T
  <1>1. ASSUME rest # {} PROVE FALSE
    <2>1. PICK x \in rest : \A y \in rest : x <= y
      <3>1. rest \subseteq Nat
        OBVIOUS
      <3> HIDE DEF rest
      <3> QED BY <3>1, <1>1, Least
    <2>2. x # 0 /\ x \in Nat /\ x - 1 \in Nat
      BY <2>1
    <2>3. x - 1 \in T /\ (x - 1) + 1 \in T
      BY <2>1, <2>2
    <2> QED BY <2>1, <2>2, <2>3
  <1> QED BY <1>1

Nodes == Lists \cup Items

(* The way round a list: from its head to its head over the items it owns. *)
Path(l, p) == LET n == sizes[l] IN
    /\ p \in [0 .. n + 1 -> Items \cup {l}]
    /\ p[0] = l /\ p[n + 1] = l
    /\ \A k \in 1 .. n : p[k] \in Items /\ owner[p[k]] = l
    /\ \A k, m \in 1 .. n : p[k] = p[m] => k = m
    /\ \A i \in Items : owner[i] = l => \E k \in 1 .. n : p[k] = i
    /\ \A k \in 0 .. n : next[p[k]] = p[k + 1] /\ previous[p[k + 1]] = p[k]

(* foreach has called with the items it passed and with no other that has  *)
(* stayed.                                                                 *)
Visits(p) == \E c \in 1 .. sizes[iterated] + 1 :
    /\ current = p[c]
    /\ \A k \in 1 .. sizes[iterated] : p[k] \in stayed => calls[p[k]] = IF k <= c THEN 1 ELSE 0

ListTypeOK ==
    /\ next \in [Nodes -> Nodes \cup {Null}] /\ previous \in [Nodes -> Nodes \cup {Null}]
    /\ owner \in [Items -> Lists \cup {Null}]
    /\ sizes \in [Lists -> Nat]
    /\ iterated \in Lists /\ current \in Nodes \cup {Null}
    /\ stayed \subseteq Items
    /\ calls \in [Items -> 0 .. 2]

ListsInv ==
    /\ ListTypeOK
    /\ \A i \in stayed : owner[i] = iterated
    /\ current = Null => stayed = {}
    /\ \A l \in Lists : \E p : Path(l, p) /\ (l = iterated /\ current # Null => Visits(p))

LEMMA ListConstants ==
    /\ Lists \cap Items = {} /\ Null \notin Lists /\ Null \notin Items
  BY PartsAssumption DEF List!NodesAssumption

-----------------------------------------------------------------------------
(* What is on the way round.                                               *)
LEMMA OnPath ==
    ASSUME ListTypeOK, NEW l \in Lists, NEW p, Path(l, p)
    PROVE  /\ sizes[l] \in Nat
           /\ p \in [0 .. sizes[l] + 1 -> Items \cup {l}] /\ p[0] = l /\ p[sizes[l] + 1] = l
           /\ \A k \in 1 .. sizes[l] : p[k] \in Items /\ owner[p[k]] = l /\ p[k] # l
           /\ \A k, m \in 0 .. sizes[l] : p[k] = p[m] => k = m
           /\ \A k, m \in 1 .. sizes[l] + 1 : p[k] = p[m] => k = m
           /\ \A i \in Items : owner[i] = l => \E k \in 1 .. sizes[l] : p[k] = i
           /\ \A k \in 0 .. sizes[l] : next[p[k]] = p[k + 1] /\ previous[p[k + 1]] = p[k]
  <1>1. sizes[l] \in Nat
    BY DEF ListTypeOK
  <1>2. /\ p \in [0 .. sizes[l] + 1 -> Items \cup {l}] /\ p[0] = l /\ p[sizes[l] + 1] = l
        /\ \A k \in 1 .. sizes[l] : p[k] \in Items /\ owner[p[k]] = l /\ p[k] # l
        /\ \A k, m \in 1 .. sizes[l] : p[k] = p[m] => k = m
        /\ \A i \in Items : owner[i] = l => \E k \in 1 .. sizes[l] : p[k] = i
        /\ \A k \in 0 .. sizes[l] : next[p[k]] = p[k + 1] /\ previous[p[k + 1]] = p[k]
    BY ListConstants DEF Path
  <1>3. ASSUME NEW k \in 0 .. sizes[l], NEW m \in 0 .. sizes[l], p[k] = p[m] PROVE k = m
    <2>1. (k = 0 \/ k \in 1 .. sizes[l]) /\ (m = 0 \/ m \in 1 .. sizes[l])
      BY <1>1
    <2> QED BY <1>2, <1>3, <2>1
  <1>4. ASSUME NEW k \in 1 .. sizes[l] + 1, NEW m \in 1 .. sizes[l] + 1, p[k] = p[m] PROVE k = m
    <2>1. (k = sizes[l] + 1 \/ k \in 1 .. sizes[l]) /\ (m = sizes[l] + 1 \/ m \in 1 .. sizes[l])
      BY <1>1
    <2> QED BY <1>2, <1>4, <2>1
  <1> QED BY <1>1, <1>2, <1>3, <1>4

(* The model's way round is that one: its recursion has one solution.      *)
Following(l, at) == at = [n \in 0 .. sizes[l] |->
    IF n = 0 \/ at[n - 1] = Null THEN next[l] ELSE next[at[n - 1]]]

LEMMA OnlyOneFollows ==
    ASSUME ListTypeOK, NEW l \in Lists, NEW p, Path(l, p), NEW at, Following(l, at)
    PROVE  \A n \in 0 .. sizes[l] : at[n] = p[n + 1]
  <1> DEFINE T == {n \in Nat : n <= sizes[l] => at[n] = p[n + 1]}
  <1>1. /\ sizes[l] \in Nat /\ p[0] = l
        /\ \A k \in 1 .. sizes[l] : p[k] \in Items
        /\ \A k \in 0 .. sizes[l] : next[p[k]] = p[k + 1]
    BY OnPath
  <1>2. 0 \in T
    <2>1. 0 \in 0 .. sizes[l] /\ next[l] = p[0 + 1]
      BY <1>1
    <2> QED BY <2>1 DEF Following
  <1>3. ASSUME NEW n \in Nat, n \in T PROVE n + 1 \in T
    <2>1. CASE n + 1 <= sizes[l]
      <3>1. n + 1 \in 1 .. sizes[l] /\ n + 1 \in 0 .. sizes[l] /\ (n + 1) - 1 = n /\ n + 1 # 0 /\ n <= sizes[l]
        BY <1>1, <2>1
      <3>2. at[n] = p[n + 1]
        BY <1>3, <3>1
      <3>3. p[n + 1] # Null /\ next[p[n + 1]] = p[(n + 1) + 1]
        BY <1>1, <3>1, ListConstants
      <3>4. at[n + 1] = next[at[n]]
        BY <3>1, <3>2, <3>3 DEF Following
      <3> QED BY <3>2, <3>3, <3>4
    <2>2. CASE ~(n + 1 <= sizes[l])
      BY <2>2
    <2> QED BY <2>1, <2>2
  <1> HIDE DEF T
  <1>4. Nat \subseteq T
    BY <1>2, <1>3, SetInduction
  <1> QED BY <1>1, <1>4 DEF T

LEMMA OneFollows ==
    ASSUME ListTypeOK, NEW l \in Lists, NEW p, Path(l, p)
    PROVE  \E at : Following(l, at)
  <1> DEFINE at == [n \in 0 .. sizes[l] |-> p[n + 1]]
  <1>1. /\ sizes[l] \in Nat /\ p[0] = l
        /\ \A k \in 1 .. sizes[l] : p[k] \in Items
        /\ \A k \in 0 .. sizes[l] : next[p[k]] = p[k + 1]
    BY OnPath
  <1>2. ASSUME NEW n \in 0 .. sizes[l]
        PROVE  at[n] = IF n = 0 \/ at[n - 1] = Null THEN next[l] ELSE next[at[n - 1]]
    <2>1. CASE n = 0
      <3>1. next[l] = p[0 + 1]
        BY <1>1
      <3> QED BY <2>1, <3>1
    <2>2. CASE n # 0
      <3>1. n - 1 \in 0 .. sizes[l] /\ n \in 1 .. sizes[l] /\ (n - 1) + 1 = n
        BY <1>1, <2>2
      <3>2. at[n - 1] = p[n] /\ p[n] # Null /\ next[p[n]] = p[n + 1]
        BY <1>1, <3>1, ListConstants
      <3> QED BY <2>2, <3>2
    <2> QED BY <2>1, <2>2
  <1>3. at = [n \in 0 .. sizes[l] |-> at[n]]
    OBVIOUS
  <1> HIDE DEF at
  <1>4. Following(l, at)
    BY <1>2, <1>3 DEF Following
  <1> QED BY <1>4

Along(n, p) == [k \in 1 .. n |-> p[k]]

LEMMA RingIsPath ==
    ASSUME ListTypeOK, NEW l \in Lists, NEW p, Path(l, p)
    PROVE  List!Ring(l) = Along(sizes[l], p)
  <1> DEFINE at == CHOOSE f : Following(l, f)
  <1>1. Following(l, at)
    BY OneFollows
  <1>2. List!Ring(l) = [n \in 1 .. sizes[l] |-> at[n - 1]]
    BY DEF List!Ring, Following
  <1>3. sizes[l] \in Nat
    BY DEF ListTypeOK
  <1> HIDE DEF at
  <1>4. \A n \in 0 .. sizes[l] : at[n] = p[n + 1]
    BY <1>1, OnlyOneFollows
  <1>5. \A n \in 1 .. sizes[l] : at[n - 1] = p[n]
    BY <1>3, <1>4
  <1> QED BY <1>2, <1>5 DEF Along

LEMMA ContentsAlong ==
    ASSUME ListTypeOK, NEW l \in Lists, NEW p, Path(l, p)
    PROVE  List!Contents[l] = Along(sizes[l], p)
  <1>1. List!Ring(l) = Along(sizes[l], p)
    BY RingIsPath
  <1>2. /\ sizes[l] \in Nat
        /\ p \in [0 .. sizes[l] + 1 -> Items \cup {l}] /\ p[0] = l /\ p[sizes[l] + 1] = l
        /\ \A k \in 1 .. sizes[l] : p[k] \in Items /\ owner[p[k]] = l /\ p[k] # l
        /\ \A k \in 0 .. sizes[l] : next[p[k]] = p[k + 1] /\ previous[p[k + 1]] = p[k]
    BY OnPath
  <1>3. DOMAIN List!Ring(l) = 1 .. sizes[l] /\ \A n \in 1 .. sizes[l] : List!Ring(l)[n] = p[n]
    BY <1>1 DEF Along
  <1>4. ASSUME NEW n \in 1 .. sizes[l]
        PROVE  previous[p[n]] = IF n = 1 THEN l ELSE p[n - 1]
    <2>1. n - 1 \in 0 .. sizes[l] /\ (n - 1) + 1 = n
      BY <1>2
    <2> QED BY <1>2, <2>1
  <1>5. previous[l] = p[sizes[l]] /\ next[p[sizes[l]]] = l
    BY <1>2
  <1>6. List!Ring(l) = <<>> <=> sizes[l] = 0
    BY <1>2, <1>3
  <1>7. previous[l] = IF List!Ring(l) = <<>> THEN l ELSE List!Ring(l)[sizes[l]]
    BY <1>2, <1>3, <1>5, <1>6
  <1>8. ASSUME NEW n \in DOMAIN List!Ring(l)
        PROVE  /\ List!Ring(l)[n] \in Items /\ owner[List!Ring(l)[n]] = l
               /\ previous[List!Ring(l)[n]] = IF n = 1 THEN l ELSE List!Ring(l)[n - 1]
    <2>1. n \in 1 .. sizes[l] /\ List!Ring(l)[n] = p[n] /\ (n # 1 => n - 1 \in 1 .. sizes[l])
      BY <1>2, <1>3
    <2> QED BY <1>2, <1>3, <1>4, <2>1
  <1>9. List!IsRing(l)
    BY <1>5, <1>7, <1>8 DEF List!IsRing
  <1> QED BY <1>1, <1>9 DEF List!Contents

-----------------------------------------------------------------------------
(* A list none of whose nodes changes keeps its way round.                 *)
LEMMA PathStays ==
    ASSUME ListTypeOK, NEW l \in Lists, NEW p, Path(l, p),
           sizes'[l] = sizes[l], \A i \in Items : owner'[i] = l <=> owner[i] = l,
           next'[l] = next[l], previous'[l] = previous[l],
           \A i \in Items : owner[i] = l => next'[i] = next[i] /\ previous'[i] = previous[i]
    PROVE  Path(l, p)'
  <1>1. /\ sizes[l] \in Nat
        /\ p \in [0 .. sizes[l] + 1 -> Items \cup {l}] /\ p[0] = l /\ p[sizes[l] + 1] = l
        /\ \A k \in 1 .. sizes[l] : p[k] \in Items /\ owner[p[k]] = l /\ p[k] # l
        /\ \A k, m \in 0 .. sizes[l] : p[k] = p[m] => k = m
        /\ \A i \in Items : owner[i] = l => \E k \in 1 .. sizes[l] : p[k] = i
        /\ \A k \in 0 .. sizes[l] : next[p[k]] = p[k + 1] /\ previous[p[k + 1]] = p[k]
    BY OnPath
  <1>2. \A k \in 0 .. sizes[l] + 1 : next'[p[k]] = next[p[k]] /\ previous'[p[k]] = previous[p[k]]
    <2>1. ASSUME NEW k \in 0 .. sizes[l] + 1 PROVE p[k] = l \/ (p[k] \in Items /\ owner[p[k]] = l)
      <3>1. k = 0 \/ k = sizes[l] + 1 \/ k \in 1 .. sizes[l]
        BY <1>1
      <3> QED BY <1>1, <3>1
    <2> QED BY <2>1
  <1>3. \A k \in 0 .. sizes[l] : next'[p[k]] = p[k + 1] /\ previous'[p[k + 1]] = p[k]
    BY <1>1, <1>2
  <1> QED BY <1>1, <1>3 DEF Path

(* An item pushed between two neighbours.                                  *)
Insert(n, p, a, i) == [k \in 0 .. n + 2 |-> IF k < a THEN p[k] ELSE IF k = a THEN i ELSE p[k - 1]]

Between(l, p, a, i) ==
    /\ owner' = [owner EXCEPT ![i] = l]
    /\ sizes' = [sizes EXCEPT ![l] = @ + 1]
    /\ next' = [next EXCEPT ![i] = p[a], ![p[a - 1]] = i]
    /\ previous' = [previous EXCEPT ![i] = p[a - 1], ![p[a]] = i]

LEMMA Inserted ==
    ASSUME ListTypeOK, NEW l \in Lists, NEW p, Path(l, p), NEW n, n = sizes[l],
           NEW i \in Items, owner[i] = Null,
           NEW a \in 1 .. n + 1, Between(l, p, a, i),
           NEW q, q = Insert(n, p, a, i)
    PROVE  Path(l, q)'
  <1>1. n \in Nat
    BY DEF ListTypeOK
  <1>2. p \in [0 .. n + 1 -> Items \cup {l}] /\ p[0] = l /\ p[n + 1] = l
    BY OnPath
  <1>3. \A k \in 1 .. n : p[k] \in Items /\ owner[p[k]] = l
    BY OnPath
  <1>4. \A k, m \in 0 .. n : p[k] = p[m] => k = m
    BY OnPath
  <1>5. \A k, m \in 1 .. n + 1 : p[k] = p[m] => k = m
    BY OnPath
  <1>6. \A j \in Items : owner[j] = l => \E k \in 1 .. n : p[k] = j
    BY OnPath
  <1>7. \A k \in 0 .. n : next[p[k]] = p[k + 1] /\ previous[p[k + 1]] = p[k]
    BY OnPath
  <1>8. a \in Nat /\ a # 0 /\ a <= n + 1 /\ a - 1 \in 0 .. n /\ a \in 0 .. n + 1 /\ a - 1 \in 0 .. n + 1
    BY <1>1
  <1>9. \A k \in 0 .. n + 1 : p[k] # i /\ p[k] \in Nodes
    <2> SUFFICES ASSUME NEW k \in 0 .. n + 1 PROVE p[k] # i /\ p[k] \in Nodes
      OBVIOUS
    <2>1. k = 0 \/ k = n + 1 \/ k \in 1 .. n
      BY <1>1
    <2>2. l \in Nodes /\ l # i /\ Items \subseteq Nodes /\ l # Null
      BY ListConstants DEF Nodes
    <2> QED BY <1>2, <1>3, <2>1, <2>2
  <1>10. sizes'[l] = n + 1 /\ owner'[i] = l /\ \A j \in Items \ {i} : owner'[j] = owner[j]
    BY DEF Between, ListTypeOK
  <1>11. i \in Nodes /\ p[a] \in Nodes /\ p[a - 1] \in Nodes /\ p[a] # i /\ p[a - 1] # i
    BY <1>8, <1>9 DEF Nodes
  <1>12. /\ next'[i] = p[a] /\ next'[p[a - 1]] = i
         /\ \A x \in Nodes : x # i /\ x # p[a - 1] => next'[x] = next[x]
    BY <1>11 DEF Between, ListTypeOK
  <1>13. /\ previous'[i] = p[a - 1] /\ previous'[p[a]] = i
         /\ \A x \in Nodes : x # i /\ x # p[a] => previous'[x] = previous[x]
    BY <1>11 DEF Between, ListTypeOK
  <1>14. \A k \in 0 .. n + 2 : q[k] = IF k < a THEN p[k] ELSE IF k = a THEN i ELSE p[k - 1]
    BY DEF Insert
  <1>15. \A k \in 0 .. n + 1 : k < a => q[k] = p[k]
    <2>1. \A k \in 0 .. n + 1 : k \in 0 .. n + 2
      BY <1>1
    <2> QED BY <1>14, <2>1
  <1>16. q[a] = i /\ a \in 1 .. n + 1
    <2>1. a \in 0 .. n + 2 /\ ~(a < a)
      BY <1>1
    <2> QED BY <1>14, <2>1
  <1>17. \A k \in 0 .. n + 1 : k >= a => q[k + 1] = p[k]
    <2> SUFFICES ASSUME NEW k \in 0 .. n + 1, k >= a PROVE q[k + 1] = p[k]
      OBVIOUS
    <2>1. k + 1 \in 0 .. n + 2 /\ ~(k + 1 < a) /\ k + 1 # a /\ (k + 1) - 1 = k
      BY <1>1
    <2> QED BY <1>14, <2>1
  <1>18. \A k \in 0 .. n + 2 : (k < a /\ k \in 0 .. n + 1) \/ k = a \/ \E m \in 0 .. n + 1 : k = m + 1 /\ m >= a
    <2> SUFFICES ASSUME NEW k \in 0 .. n + 2, ~(k < a), k # a PROVE \E m \in 0 .. n + 1 : k = m + 1 /\ m >= a
      BY <1>1, <1>8
    <2>1. k - 1 \in 0 .. n + 1 /\ k = (k - 1) + 1 /\ k - 1 >= a
      BY <1>1, <1>8
    <2> QED BY <2>1
  <1>19. q \in [0 .. (n + 1) + 1 -> Items \cup {l}]
    <2>1. ASSUME NEW k \in 0 .. n + 2 PROVE q[k] \in Items \cup {l}
      BY <1>2, <1>15, <1>16, <1>17, <1>18
    <2>2. q = [k \in 0 .. n + 2 |-> q[k]]
      BY DEF Insert
    <2>3. (n + 1) + 1 = n + 2
      BY <1>1
    <2> QED BY <2>1, <2>2, <2>3
  <1>20. q[0] = l /\ q[(n + 1) + 1] = l
    <2>1. 0 \in 0 .. n + 1 /\ 0 < a /\ n + 1 \in 0 .. n + 1 /\ n + 1 >= a
      BY <1>1, <1>8
    <2> QED BY <1>2, <1>15, <1>17, <2>1
  <1>21. \A k \in 1 .. n + 1 : k = a \/ \E j \in 1 .. n : q[k] = p[j] /\ j = IF k < a THEN k ELSE k - 1
    <2> SUFFICES ASSUME NEW k \in 1 .. n + 1, k # a
                 PROVE  \E j \in 1 .. n : q[k] = p[j] /\ j = IF k < a THEN k ELSE k - 1
      OBVIOUS
    <2>1. CASE k < a
      <3>1. k \in 1 .. n /\ k \in 0 .. n + 1
        BY <1>1, <1>8, <2>1
      <3> QED BY <1>15, <2>1, <3>1
    <2>2. CASE ~(k < a)
      <3>1. k - 1 \in 1 .. n /\ k - 1 \in 0 .. n + 1 /\ k - 1 >= a /\ (k - 1) + 1 = k
        BY <1>1, <1>8, <2>2
      <3>2. q[k] = p[k - 1]
        BY <1>17, <3>1
      <3> QED BY <2>2, <3>1, <3>2
    <2> QED BY <2>1, <2>2
  <1>22. \A j \in 1 .. n : p[j] # i
    <2>1. \A j \in 1 .. n : j \in 0 .. n + 1
      BY <1>1
    <2> QED BY <1>9, <2>1
  <1>23. \A k \in 1 .. n + 1 : q[k] \in Items /\ owner'[q[k]] = l
    BY <1>3, <1>10, <1>16, <1>21, <1>22
  <1>24. \A k, m \in 1 .. n + 1 : q[k] = q[m] => k = m
    <2> SUFFICES ASSUME NEW k \in 1 .. n + 1, NEW m \in 1 .. n + 1, q[k] = q[m] PROVE k = m
      OBVIOUS
    <2>1. k = a <=> m = a
      BY <1>16, <1>21, <1>22
    <2>2. ASSUME k # a PROVE k = m
      <3>1. PICK j \in 1 .. n : q[k] = p[j] /\ j = IF k < a THEN k ELSE k - 1
        BY <1>21, <2>2
      <3>2. PICK h \in 1 .. n : q[m] = p[h] /\ h = IF m < a THEN m ELSE m - 1
        BY <1>21, <2>1, <2>2
      <3>3. j = h
        <4>1. j \in 0 .. n /\ h \in 0 .. n
          BY <1>1
        <4>2. p[j] = p[h]
          BY <3>1, <3>2
        <4> QED BY <1>4, <4>1, <4>2
      <3> QED BY <1>1, <1>8, <2>1, <2>2, <3>1, <3>2, <3>3
    <2> QED BY <2>1, <2>2
  <1>25. \A j \in Items : owner'[j] = l => \E k \in 1 .. n + 1 : q[k] = j
    <2> SUFFICES ASSUME NEW j \in Items, owner'[j] = l PROVE \E k \in 1 .. n + 1 : q[k] = j
      OBVIOUS
    <2>1. CASE j = i
      BY <1>16, <2>1
    <2>2. CASE j # i
      <3>1. PICK k \in 1 .. n : p[k] = j
        BY <1>6, <1>10, <2>2
      <3>2. k \in 0 .. n + 1 /\ k \in 1 .. n + 1 /\ k + 1 \in 1 .. n + 1 /\ (k < a \/ k >= a)
        BY <1>1, <1>8
      <3> QED BY <1>15, <1>17, <3>1, <3>2
    <2> QED BY <2>1, <2>2
  <1>26. \A k \in 0 .. n + 1 : next'[q[k]] = q[k + 1] /\ previous'[q[k + 1]] = q[k]
    <2> SUFFICES ASSUME NEW k \in 0 .. n + 1 PROVE next'[q[k]] = q[k + 1] /\ previous'[q[k + 1]] = q[k]
      OBVIOUS
    <2>1. ASSUME NEW m \in 0 .. n, m # a - 1
          PROVE  next'[p[m]] = p[m + 1] /\ previous'[p[m + 1]] = p[m]
      <3>1. m + 1 \in 1 .. n + 1 /\ m + 1 \in 0 .. n + 1 /\ m \in 0 .. n + 1 /\ m + 1 # a
        BY <1>1, <1>8, <2>1
      <3>2. p[m] # p[a - 1] /\ p[m + 1] # p[a]
        BY <1>4, <1>5, <1>8, <2>1, <3>1
      <3> QED BY <1>7, <1>9, <1>12, <1>13, <3>1, <3>2
    <2>2. CASE k + 1 < a
      <3>1. k \in 0 .. n /\ k # a - 1 /\ k < a /\ k + 1 \in 0 .. n + 1
        BY <1>1, <1>8, <2>2
      <3>2. q[k] = p[k] /\ q[k + 1] = p[k + 1]
        BY <1>15, <2>2, <3>1
      <3> QED BY <2>1, <3>1, <3>2
    <2>3. CASE k + 1 = a
      <3>1. k = a - 1 /\ k < a
        BY <1>8, <2>3
      <3>2. q[k] = p[a - 1] /\ q[k + 1] = i
        BY <1>15, <1>16, <2>3, <3>1
      <3> QED BY <1>12, <1>13, <3>2
    <2>4. CASE k = a
      <3>1. q[k] = i /\ q[k + 1] = p[a]
        <4>1. k >= a
          BY <1>8, <2>4
        <4> QED BY <1>16, <1>17, <2>4, <4>1
      <3> QED BY <1>12, <1>13, <3>1
    <2>5. CASE k > a
      <3>1. k - 1 \in 0 .. n /\ k - 1 # a - 1 /\ k - 1 >= a /\ k >= a /\ (k - 1) + 1 = k /\ k - 1 \in 0 .. n + 1
        BY <1>1, <1>8, <2>5
      <3>2. q[k] = p[k - 1] /\ q[k + 1] = p[k]
        BY <1>17, <3>1
      <3>3. next'[p[k - 1]] = p[(k - 1) + 1] /\ previous'[p[(k - 1) + 1]] = p[k - 1]
        BY <2>1, <3>1
      <3> QED BY <3>1, <3>2, <3>3
    <2> QED BY <1>8, <2>2, <2>3, <2>4, <2>5
  <1> QED BY <1>1, <1>10, <1>19, <1>20, <1>23, <1>24, <1>25, <1>26 DEF Path

(* An item taken from between its neighbours.                              *)
Drop(n, p, a) == [k \in 0 .. n |-> IF k < a THEN p[k] ELSE p[k + 1]]

Without(l, p, a) ==
    /\ owner' = [owner EXCEPT ![p[a]] = Null]
    /\ sizes' = [sizes EXCEPT ![l] = @ - 1]
    /\ next' = [next EXCEPT ![p[a - 1]] = p[a + 1], ![p[a]] = Null]
    /\ previous' = [previous EXCEPT ![p[a + 1]] = p[a - 1], ![p[a]] = Null]

LEMMA Dropped ==
    ASSUME ListTypeOK, NEW l \in Lists, NEW p, Path(l, p), NEW n, n = sizes[l],
           NEW a \in 1 .. n, Without(l, p, a),
           NEW q, q = Drop(n, p, a)
    PROVE  Path(l, q)'
  <1>1. n \in Nat
    BY DEF ListTypeOK
  <1>2. p \in [0 .. n + 1 -> Items \cup {l}] /\ p[0] = l /\ p[n + 1] = l
    BY OnPath
  <1>3. \A k \in 1 .. n : p[k] \in Items /\ owner[p[k]] = l
    BY OnPath
  <1>4. \A k, m \in 0 .. n : p[k] = p[m] => k = m
    BY OnPath
  <1>5. \A k, m \in 1 .. n + 1 : p[k] = p[m] => k = m
    BY OnPath
  <1>6. \A j \in Items : owner[j] = l => \E k \in 1 .. n : p[k] = j
    BY OnPath
  <1>7. \A k \in 0 .. n : next[p[k]] = p[k + 1] /\ previous[p[k + 1]] = p[k]
    BY OnPath
  <1>8. /\ a \in Nat /\ a # 0 /\ a <= n /\ a - 1 \in 0 .. n /\ a \in 0 .. n /\ a - 1 # a
        /\ a \in 1 .. n + 1 /\ a + 1 \in 1 .. n + 1 /\ a + 1 # a
        /\ a - 1 \in 0 .. n + 1 /\ a \in 0 .. n + 1 /\ a + 1 \in 0 .. n + 1
    BY <1>1
  <1>9. \A k \in 0 .. n + 1 : p[k] \in Nodes
    BY <1>2 DEF Nodes
  <1>10. /\ p[a] \in Items /\ p[a] \in Nodes /\ p[a - 1] \in Nodes /\ p[a + 1] \in Nodes
         /\ p[a - 1] # p[a] /\ p[a + 1] # p[a]
    <2>1. p[a - 1] # p[a]
      BY <1>4, <1>8
    <2>2. p[a + 1] # p[a]
      BY <1>5, <1>8
    <2> QED BY <1>3, <1>8, <1>9, <2>1, <2>2
  <1>11. sizes'[l] = n - 1 /\ owner'[p[a]] = Null /\ \A j \in Items : j # p[a] => owner'[j] = owner[j]
    BY <1>10 DEF Without, ListTypeOK
  <1>12. /\ next'[p[a - 1]] = p[a + 1]
         /\ \A x \in Nodes : x # p[a] /\ x # p[a - 1] => next'[x] = next[x]
    BY <1>10 DEF Without, ListTypeOK
  <1>13. /\ previous'[p[a + 1]] = p[a - 1]
         /\ \A x \in Nodes : x # p[a] /\ x # p[a + 1] => previous'[x] = previous[x]
    BY <1>10 DEF Without, ListTypeOK
  <1>14. \A k \in 0 .. n : q[k] = IF k < a THEN p[k] ELSE p[k + 1]
    BY DEF Drop
  <1>15. q \in [0 .. (n - 1) + 1 -> Items \cup {l}]
    <2>1. ASSUME NEW k \in 0 .. n PROVE q[k] \in Items \cup {l}
      <3>1. k \in 0 .. n + 1 /\ k + 1 \in 0 .. n + 1
        BY <1>1
      <3> QED BY <1>2, <1>14, <3>1
    <2>2. q = [k \in 0 .. n |-> q[k]]
      BY DEF Drop
    <2>3. (n - 1) + 1 = n
      BY <1>1
    <2> QED BY <2>1, <2>2, <2>3
  <1>16. q[0] = l /\ q[(n - 1) + 1] = l
    <2>1. 0 \in 0 .. n /\ 0 < a /\ n \in 0 .. n /\ ~(n < a) /\ (n - 1) + 1 = n
      BY <1>1, <1>8
    <2> QED BY <1>2, <1>14, <2>1
  <1>17. \A k \in 1 .. n - 1 : \E j \in 1 .. n : q[k] = p[j] /\ j # a /\ j = IF k < a THEN k ELSE k + 1
    <2> SUFFICES ASSUME NEW k \in 1 .. n - 1
                 PROVE  \E j \in 1 .. n : q[k] = p[j] /\ j # a /\ j = IF k < a THEN k ELSE k + 1
      OBVIOUS
    <2>1. k \in 0 .. n /\ k \in 1 .. n /\ k + 1 \in 1 .. n /\ (~(k < a) => k + 1 # a) /\ (k < a => k # a)
      BY <1>1, <1>8
    <2>2. q[k] = IF k < a THEN p[k] ELSE p[k + 1]
      BY <1>14, <2>1
    <2>3. CASE k < a
      BY <2>1, <2>2, <2>3
    <2>4. CASE ~(k < a)
      BY <2>1, <2>2, <2>4
    <2> QED BY <2>3, <2>4
  <1>18. \A k \in 1 .. n - 1 : q[k] \in Items /\ owner'[q[k]] = l
    <2> SUFFICES ASSUME NEW k \in 1 .. n - 1 PROVE q[k] \in Items /\ owner'[q[k]] = l
      OBVIOUS
    <2>1. PICK j \in 1 .. n : q[k] = p[j] /\ j # a
      BY <1>17
    <2>2. j \in 0 .. n
      BY <1>1
    <2>3. p[j] # p[a]
      BY <1>4, <1>8, <2>1, <2>2
    <2> QED BY <1>3, <1>11, <2>1, <2>3
  <1>19. \A k, m \in 1 .. n - 1 : q[k] = q[m] => k = m
    <2> SUFFICES ASSUME NEW k \in 1 .. n - 1, NEW m \in 1 .. n - 1, q[k] = q[m] PROVE k = m
      OBVIOUS
    <2>1. PICK j \in 1 .. n : q[k] = p[j] /\ j = IF k < a THEN k ELSE k + 1
      BY <1>17
    <2>2. PICK h \in 1 .. n : q[m] = p[h] /\ h = IF m < a THEN m ELSE m + 1
      BY <1>17
    <2>3. j = h
      <3>1. j \in 0 .. n /\ h \in 0 .. n
        BY <1>1
      <3>2. p[j] = p[h]
        BY <2>1, <2>2
      <3> QED BY <1>4, <3>1, <3>2
    <2> QED BY <1>1, <1>8, <2>1, <2>2, <2>3
  <1>20. \A j \in Items : owner'[j] = l => \E k \in 1 .. n - 1 : q[k] = j
    <2> SUFFICES ASSUME NEW j \in Items, owner'[j] = l PROVE \E k \in 1 .. n - 1 : q[k] = j
      OBVIOUS
    <2>1. j # p[a] /\ owner[j] = l
      BY <1>11, ListConstants
    <2>2. PICK k \in 1 .. n : p[k] = j
      BY <1>6, <2>1
    <2>3. CASE k < a
      <3>1. k \in 1 .. n - 1 /\ k \in 0 .. n
        BY <1>1, <1>8, <2>3
      <3> QED BY <1>14, <2>2, <2>3, <3>1
    <2>4. CASE k > a
      <3>1. k - 1 \in 1 .. n - 1 /\ ~(k - 1 < a) /\ (k - 1) + 1 = k /\ k - 1 \in 0 .. n
        BY <1>1, <1>8, <2>4
      <3>2. q[k - 1] = p[k]
        BY <1>14, <3>1
      <3> QED BY <2>2, <3>1, <3>2
    <2> QED BY <1>8, <2>1, <2>2, <2>3, <2>4
  <1>21. \A k \in 0 .. n - 1 : next'[q[k]] = q[k + 1] /\ previous'[q[k + 1]] = q[k]
    <2> SUFFICES ASSUME NEW k \in 0 .. n - 1 PROVE next'[q[k]] = q[k + 1] /\ previous'[q[k + 1]] = q[k]
      OBVIOUS
    <2>0. k \in 0 .. n /\ k + 1 \in 0 .. n
      BY <1>1
    <2>1. ASSUME NEW m \in 0 .. n, m # a, m # a - 1
          PROVE  next'[p[m]] = p[m + 1] /\ previous'[p[m + 1]] = p[m]
      <3>1. m + 1 \in 1 .. n + 1 /\ m + 1 \in 0 .. n + 1 /\ m \in 0 .. n + 1 /\ m + 1 # a /\ m + 1 # a + 1
        BY <1>1, <1>8, <2>1
      <3>2. p[m] # p[a - 1] /\ p[m] # p[a]
        BY <1>4, <1>8, <2>1
      <3>3. p[m + 1] # p[a] /\ p[m + 1] # p[a + 1]
        BY <1>5, <1>8, <3>1
      <3> QED BY <1>7, <1>9, <1>12, <1>13, <3>1, <3>2, <3>3
    <2>2. CASE k + 1 < a
      <3>1. k # a /\ k # a - 1 /\ k < a
        BY <1>8, <2>2
      <3>2. q[k] = p[k] /\ q[k + 1] = p[k + 1]
        BY <1>14, <2>0, <2>2, <3>1
      <3> QED BY <2>0, <2>1, <3>1, <3>2
    <2>3. CASE k + 1 = a
      <3>1. k = a - 1 /\ k < a /\ ~(k + 1 < a)
        BY <1>8, <2>3
      <3>2. q[k] = p[a - 1] /\ q[k + 1] = p[a + 1]
        BY <1>14, <2>0, <2>3, <3>1
      <3> QED BY <1>12, <1>13, <3>2
    <2>4. CASE k >= a
      <3>1. /\ k + 1 # a /\ k + 1 # a - 1 /\ ~(k < a) /\ ~(k + 1 < a)
        BY <1>8, <2>4
      <3>2. q[k] = p[k + 1] /\ q[k + 1] = p[(k + 1) + 1]
        BY <1>14, <2>0, <3>1
      <3> QED BY <2>0, <2>1, <3>1, <3>2
    <2> QED BY <1>8, <2>2, <2>3, <2>4
  <1>22. (n - 1) + 1 = n
    BY <1>1
  <1> QED BY <1>11, <1>15, <1>16, <1>18, <1>19, <1>20, <1>21 DEF Path

(* The other lists are not touched by either.                              *)
LEMMA OthersKeep ==
    ASSUME ListTypeOK, NEW l \in Lists, NEW p, Path(l, p), NEW n, n = sizes[l],
           NEW m \in Lists, m # l, NEW r, Path(m, r),
           \/ \E a \in 1 .. n + 1, i \in Items : owner[i] = Null /\ Between(l, p, a, i)
           \/ \E a \in 1 .. n : Without(l, p, a)
    PROVE  Path(m, r)'
  <1>1. n \in Nat
    BY DEF ListTypeOK
  <1>2. ASSUME NEW k \in 0 .. n + 1
        PROVE  p[k] # m /\ \A j \in Items : owner[j] = m => p[k] # j
    <2>1. k = 0 \/ k = n + 1 \/ k \in 1 .. n
      BY <1>1
    <2>2. p[k] = l \/ (p[k] \in Items /\ owner[p[k]] = l)
      BY <2>1, OnPath
    <2> QED BY <2>2, ListConstants
  <1>3. m \in Nodes /\ Items \subseteq Nodes /\ m \notin Items /\ m # Null
    BY ListConstants DEF Nodes
  <1>4. ASSUME NEW a \in 1 .. n + 1, NEW i \in Items, owner[i] = Null, Between(l, p, a, i)
        PROVE  Path(m, r)'
    <2>1. a \in 0 .. n + 1 /\ a - 1 \in 0 .. n + 1
      BY <1>1
    <2>2. p[a] # m /\ p[a - 1] # m /\ \A j \in Items : owner[j] = m => p[a] # j /\ p[a - 1] # j /\ i # j
      BY <1>2, <1>3, <1>4, <2>1
    <2>3. sizes'[m] = sizes[m] /\ \A j \in Items : owner'[j] = m <=> owner[j] = m
      BY <1>3, <1>4 DEF Between, ListTypeOK
    <2>4. next'[m] = next[m] /\ \A j \in Items : owner[j] = m => next'[j] = next[j]
      BY <1>3, <1>4, <2>2 DEF Between, ListTypeOK
    <2>5. previous'[m] = previous[m] /\ \A j \in Items : owner[j] = m => previous'[j] = previous[j]
      BY <1>3, <1>4, <2>2 DEF Between, ListTypeOK
    <2> QED BY <2>3, <2>4, <2>5, PathStays
  <1>5. ASSUME NEW a \in 1 .. n, Without(l, p, a)
        PROVE  Path(m, r)'
    <2>1. a \in 0 .. n + 1 /\ a - 1 \in 0 .. n + 1 /\ a + 1 \in 0 .. n + 1
      BY <1>1
    <2>2. /\ p[a] # m /\ p[a - 1] # m /\ p[a + 1] # m
          /\ \A j \in Items : owner[j] = m => p[a] # j /\ p[a - 1] # j /\ p[a + 1] # j
      BY <1>2, <2>1
    <2>3. sizes'[m] = sizes[m] /\ \A j \in Items : owner'[j] = m <=> owner[j] = m
      BY <1>3, <1>5, <2>2 DEF Without, ListTypeOK
    <2>4. next'[m] = next[m] /\ \A j \in Items : owner[j] = m => next'[j] = next[j]
      BY <1>3, <1>5, <2>2 DEF Without, ListTypeOK
    <2>5. previous'[m] = previous[m] /\ \A j \in Items : owner[j] = m => previous'[j] = previous[j]
      BY <1>3, <1>5, <2>2 DEF Without, ListTypeOK
    <2> QED BY <2>3, <2>4, <2>5, PathStays
  <1> QED BY <1>4, <1>5

(* Pushing and removing are these changes.                                 *)
LEMMA PushFrontIs ==
    ASSUME ListTypeOK, NEW l \in Lists, NEW p, Path(l, p), NEW i \in Items, List!PushFront(l, i)
    PROVE  owner[i] = Null /\ Between(l, p, 1, i) /\ 1 \in 1 .. sizes[l] + 1
  <1>1. sizes[l] \in Nat /\ p[0] = l /\ next[l] = p[1]
    <2>1. 0 \in 0 .. sizes[l] /\ 0 + 1 = 1
      BY OnPath
    <2> QED BY <2>1, OnPath
  <1>2. PICK a : a = 1 /\ a \in 1 .. sizes[l] + 1 /\ p[a] = next[l] /\ p[a - 1] = l
    BY <1>1
  <1>3. Between(l, p, a, i)
    BY <1>2 DEF List!PushFront, Between
  <1> QED BY <1>2, <1>3 DEF List!PushFront

LEMMA PushBackIs ==
    ASSUME ListTypeOK, NEW l \in Lists, NEW p, Path(l, p), NEW i \in Items, List!PushBack(l, i)
    PROVE  owner[i] = Null /\ Between(l, p, sizes[l] + 1, i) /\ sizes[l] + 1 \in 1 .. sizes[l] + 1
  <1>1. /\ sizes[l] \in Nat /\ p[sizes[l] + 1] = l /\ previous[l] = p[sizes[l]]
        /\ (sizes[l] + 1) - 1 = sizes[l]
    <2>1. sizes[l] \in 0 .. sizes[l]
      BY OnPath
    <2> QED BY <2>1, OnPath
  <1>2. PICK a : a = sizes[l] + 1 /\ a \in 1 .. sizes[l] + 1 /\ p[a] = l /\ p[a - 1] = previous[l]
    BY <1>1
  <1>3. Between(l, p, a, i)
    BY <1>2 DEF List!PushBack, Between
  <1> QED BY <1>2, <1>3 DEF List!PushBack

LEMMA RemoveIs ==
    ASSUME ListTypeOK, NEW l \in Lists, NEW p, Path(l, p), NEW i \in Items, List!Remove(l, i)
    PROVE  \E a \in 1 .. sizes[l] : p[a] = i /\ Without(l, p, a)
  <1>1. owner[i] = l
    BY DEF List!Remove
  <1>2. PICK a \in 1 .. sizes[l] : p[a] = i
    BY <1>1, OnPath
  <1>3. a \in 0 .. sizes[l] /\ a - 1 \in 0 .. sizes[l] /\ (a - 1) + 1 = a
    BY OnPath
  <1>4. next[i] = p[a + 1] /\ previous[i] = p[a - 1]
    BY <1>2, <1>3, OnPath
  <1> QED BY <1>2, <1>4 DEF List!Remove, Without

-----------------------------------------------------------------------------
LEMMA ListInit == List!Init => ListsInv
  <1> SUFFICES ASSUME List!Init PROVE ListsInv
    OBVIOUS
  <1>1. /\ next = [n \in Nodes |-> IF n \in Lists THEN n ELSE Null] /\ previous = next
        /\ owner = [i \in Items |-> Null] /\ sizes = [l \in Lists |-> 0]
        /\ current = Null /\ iterated \in Lists /\ stayed = {} /\ calls = [i \in Items |-> 0]
    BY DEF List!Init, Nodes
  <1>2. ListTypeOK
    <2>1. next \in [Nodes -> Nodes \cup {Null}]
      BY <1>1 DEF Nodes
    <2>2. calls \in [Items -> 0 .. 2]
      BY <1>1
    <2> QED BY <1>1, <2>1, <2>2 DEF ListTypeOK
  <1>3. ASSUME NEW l \in Lists PROVE \E p : Path(l, p)
    <2>1. PICK p : p = [k \in 0 .. 1 |-> l]
      OBVIOUS
    <2>2. sizes[l] = 0 /\ next[l] = l /\ previous[l] = l /\ \A i \in Items : owner[i] # l
      BY <1>1, ListConstants DEF Nodes
    <2>3. 0 .. 0 + 1 = 0 .. 1 /\ 1 .. 0 = {} /\ 0 .. 0 = {0}
      OBVIOUS
    <2>4. p \in [0 .. 1 -> Items \cup {l}] /\ p[0] = l /\ p[1] = l /\ 0 + 1 = 1
      BY <2>1
    <2> QED BY <2>2, <2>3, <2>4 DEF Path
  <1> QED BY <1>1, <1>2, <1>3 DEF ListsInv

LEMMA PushKeeps ==
    ASSUME ListsInv, NEW l \in Lists, NEW p, Path(l, p), l = iterated /\ current # Null => Visits(p),
           NEW i \in Items, owner[i] = Null, NEW a \in 1 .. sizes[l] + 1, Between(l, p, a, i),
           UNCHANGED <<current, iterated, stayed, calls>>
    PROVE  ListsInv'
  <1>1. ListTypeOK /\ \A j \in stayed : owner[j] = iterated
    BY DEF ListsInv
  <1>2. sizes[l] \in Nat
    BY <1>1 DEF ListTypeOK
  <1>3. a \in 0 .. sizes[l] + 1 /\ a - 1 \in 0 .. sizes[l] + 1
    BY <1>2
  <1>4. p[a] \in Nodes /\ p[a - 1] \in Nodes /\ i \in Nodes
    BY <1>1, <1>3, OnPath DEF Nodes
  <1>5. i \notin stayed
    BY <1>1, ListConstants DEF ListTypeOK
  <1>6. ListTypeOK'
    <2>1. next' \in [Nodes -> Nodes \cup {Null}] /\ previous' \in [Nodes -> Nodes \cup {Null}]
      BY <1>1, <1>4 DEF Between, ListTypeOK
    <2>2. owner' \in [Items -> Lists \cup {Null}] /\ sizes' \in [Lists -> Nat]
      BY <1>1, <1>2 DEF Between, ListTypeOK
    <2> QED BY <1>1, <2>1, <2>2 DEF ListTypeOK
  <1>7. \A j \in stayed' : owner'[j] = iterated'
    BY <1>1, <1>5 DEF Between, ListTypeOK
  <1>8. ASSUME NEW m \in Lists, m # l
        PROVE  \E r : Path(m, r)' /\ (m = iterated /\ current # Null => Visits(r)')
    <2>1. PICK r : Path(m, r) /\ (m = iterated /\ current # Null => Visits(r))
      BY DEF ListsInv
    <2>2. Path(m, r)'
      BY <1>1, <1>8, <2>1, OthersKeep
    <2>3. ASSUME m = iterated, current # Null PROVE Visits(r)'
      <3>1. sizes'[iterated'] = sizes[iterated]
        BY <1>1, <1>8, <2>3 DEF Between, ListTypeOK
      <3> QED BY <2>1, <2>3, <3>1 DEF Visits
    <2> QED BY <2>2, <2>3
  <1>9. PICK q : q = Insert(sizes[l], p, a, i)
    OBVIOUS
  <1>10. Path(l, q)'
    BY <1>1, <1>9, Inserted
  <1>11. ASSUME l = iterated, current # Null PROVE Visits(q)'
    <2>1. PICK n : n = sizes[l] /\ n \in Nat
      BY <1>2
    <2>2. PICK c \in 1 .. n + 1 : /\ current = p[c]
                                  /\ \A k \in 1 .. n : p[k] \in stayed => calls[p[k]] = IF k <= c THEN 1 ELSE 0
      BY <1>11, <2>1 DEF Visits
    <2>3. PICK d \in 1 .. n + 2 : d = IF c < a THEN c ELSE c + 1
      BY <2>1
    <2>4. \A k \in 0 .. n + 2 : q[k] = IF k < a THEN p[k] ELSE IF k = a THEN i ELSE p[k - 1]
      BY <1>9, <2>1 DEF Insert
    <2>5. q[d] = current
      <3>1. d \in 0 .. n + 2 /\ (c < a => d < a /\ d = c) /\ (~(c < a) => ~(d < a) /\ d # a /\ d - 1 = c)
        BY <2>1, <2>3
      <3> QED BY <2>2, <2>4, <3>1
    <2>6. ASSUME NEW k \in 1 .. n + 1, q[k] \in stayed PROVE calls[q[k]] = IF k <= d THEN 1 ELSE 0
      <3>1. k \in 0 .. n + 2 /\ a \in Nat /\ a <= n + 1 /\ a # 0
        BY <2>1
      <3>2. CASE k < a
        <4>1. k \in 1 .. n /\ (k <= c <=> k <= d)
          BY <2>1, <2>3, <3>1, <3>2
        <4>2. q[k] = p[k]
          BY <2>4, <3>1, <3>2
        <4> QED BY <2>2, <2>6, <4>1, <4>2
      <3>3. CASE k = a
        <4>1. q[k] = i
          BY <2>4, <3>1, <3>3
        <4> QED BY <1>5, <2>6, <4>1
      <3>4. CASE k > a
        <4>1. k - 1 \in 1 .. n /\ (k - 1 <= c <=> k <= d) /\ ~(k < a) /\ k # a
          BY <2>1, <2>3, <3>1, <3>4
        <4>2. q[k] = p[k - 1]
          BY <2>4, <3>1, <4>1
        <4> QED BY <2>2, <2>6, <4>1, <4>2
      <3> QED BY <3>1, <3>2, <3>3, <3>4
    <2>7. sizes'[iterated'] = n + 1 /\ (n + 1) + 1 = n + 2
      BY <1>1, <1>11, <2>1 DEF Between, ListTypeOK
    <2> QED BY <2>3, <2>5, <2>6, <2>7 DEF Visits
  <1>12. \A m \in Lists : \E r : Path(m, r)' /\ (m = iterated' /\ current' # Null => Visits(r)')
    BY <1>8, <1>10, <1>11
  <1>13. current' = Null => stayed' = {}
    BY DEF ListsInv
  <1> QED BY <1>6, <1>7, <1>12, <1>13 DEF ListsInv

LEMMA RemoveKeeps ==
    ASSUME ListsInv, NEW l \in Lists, NEW p, Path(l, p), l = iterated /\ current # Null => Visits(p),
           NEW a \in 1 .. sizes[l], Without(l, p, a),
           current # p[a], stayed' = stayed \ {p[a]}, UNCHANGED <<current, iterated, calls>>
    PROVE  ListsInv'
  <1>1. ListTypeOK /\ \A j \in stayed : owner[j] = iterated
    BY DEF ListsInv
  <1>2. sizes[l] \in Nat /\ sizes[l] - 1 \in Nat
    BY <1>1 DEF ListTypeOK
  <1>3. a \in 0 .. sizes[l] + 1 /\ a - 1 \in 0 .. sizes[l] + 1 /\ a + 1 \in 0 .. sizes[l] + 1
    BY <1>2
  <1>4. p[a] \in Items /\ p[a - 1] \in Nodes /\ p[a + 1] \in Nodes
    BY <1>1, <1>3, OnPath DEF Nodes
  <1>6. ListTypeOK'
    <2>1. next' \in [Nodes -> Nodes \cup {Null}] /\ previous' \in [Nodes -> Nodes \cup {Null}]
      BY <1>1, <1>4 DEF Without, ListTypeOK
    <2>2. owner' \in [Items -> Lists \cup {Null}] /\ sizes' \in [Lists -> Nat]
      BY <1>1, <1>2 DEF Without, ListTypeOK
    <2> QED BY <1>1, <2>1, <2>2 DEF ListTypeOK
  <1>7. \A j \in stayed' : owner'[j] = iterated'
    BY <1>1 DEF Without, ListTypeOK
  <1>8. ASSUME NEW m \in Lists, m # l
        PROVE  \E r : Path(m, r)' /\ (m = iterated /\ current # Null => Visits(r)')
    <2>1. PICK r : Path(m, r) /\ (m = iterated /\ current # Null => Visits(r))
      BY DEF ListsInv
    <2>2. Path(m, r)'
      BY <1>1, <1>8, <2>1, OthersKeep
    <2>3. ASSUME m = iterated, current # Null PROVE Visits(r)'
      <3>1. sizes'[iterated'] = sizes[iterated]
        BY <1>1, <1>8, <2>3 DEF Without, ListTypeOK
      <3> QED BY <2>1, <2>3, <3>1 DEF Visits
    <2> QED BY <2>2, <2>3
  <1>9. PICK q : q = Drop(sizes[l], p, a)
    OBVIOUS
  <1>10. Path(l, q)'
    BY <1>1, <1>9, Dropped
  <1>11. ASSUME l = iterated, current # Null PROVE Visits(q)'
    <2>1. PICK n : n = sizes[l] /\ n \in Nat
      BY <1>2
    <2>2. PICK c \in 1 .. n + 1 : /\ current = p[c]
                                  /\ \A k \in 1 .. n : p[k] \in stayed => calls[p[k]] = IF k <= c THEN 1 ELSE 0
      BY <1>11, <2>1 DEF Visits
    <2>3. c # a
      BY <2>2
    <2>4. PICK d \in 1 .. n : d = IF c < a THEN c ELSE c - 1
      BY <2>1, <2>3
    <2>5. \A k \in 0 .. n : q[k] = IF k < a THEN p[k] ELSE p[k + 1]
      BY <1>9, <2>1 DEF Drop
    <2>6. q[d] = current
      <3>1. d \in 0 .. n /\ (c < a => d < a /\ d = c) /\ (~(c < a) => ~(d < a) /\ d + 1 = c)
        BY <2>1, <2>3, <2>4
      <3> QED BY <2>2, <2>5, <3>1
    <2>7. ASSUME NEW k \in 1 .. n - 1, q[k] \in stayed PROVE calls[q[k]] = IF k <= d THEN 1 ELSE 0
      <3>1. k \in 0 .. n /\ k \in 1 .. n /\ k + 1 \in 1 .. n
        BY <2>1
      <3>2. CASE k < a
        <4>1. k <= c <=> k <= d
          BY <2>1, <2>3, <2>4, <3>2
        <4>2. q[k] = p[k]
          BY <2>5, <3>1, <3>2
        <4> QED BY <2>2, <2>7, <3>1, <4>1, <4>2
      <3>3. CASE ~(k < a)
        <4>1. k + 1 <= c <=> k <= d
          BY <2>1, <2>3, <2>4, <3>3
        <4>2. q[k] = p[k + 1]
          BY <2>5, <3>1, <3>3
        <4> QED BY <2>2, <2>7, <3>1, <4>1, <4>2
      <3> QED BY <3>2, <3>3
    <2>8. sizes'[iterated'] = n - 1 /\ (n - 1) + 1 = n
      BY <1>1, <1>11, <2>1 DEF Without, ListTypeOK
    <2> QED BY <2>4, <2>6, <2>7, <2>8 DEF Visits
  <1>12. \A m \in Lists : \E r : Path(m, r)' /\ (m = iterated' /\ current' # Null => Visits(r)')
    BY <1>8, <1>10, <1>11
  <1>13. current' = Null => stayed' = {}
    BY DEF ListsInv
  <1> QED BY <1>6, <1>7, <1>12, <1>13 DEF ListsInv

LEMMA ForeachKeeps ==
    ASSUME ListsInv, (\E l \in Lists : List!Begin(l)) \/ List!Advance \/ List!Finish
    PROVE  ListsInv'
  <1>1. ListTypeOK /\ \A j \in stayed : owner[j] = iterated
    BY DEF ListsInv
  <1>2. UNCHANGED <<next, previous, owner, sizes>>
    BY DEF List!Begin, List!Advance, List!Finish, List!linkVars
  <1>3. ASSUME NEW l \in Lists, NEW p, Path(l, p) PROVE Path(l, p)'
    BY <1>2, <1>3 DEF Path
  <1>4. ASSUME NEW l \in Lists, List!Begin(l) PROVE ListsInv'
    <2>1. /\ current = Null /\ iterated' = l /\ stayed' = {i \in Items : owner[i] = l} /\ current' = next[l]
          /\ calls' = [i \in Items |-> IF i = next[l] THEN 1 ELSE 0]
      BY <1>4 DEF List!Begin
    <2>2. next[l] \in Nodes \cup {Null}
      BY <1>1 DEF ListTypeOK, Nodes
    <2>3. calls' \in [Items -> 0 .. 2]
      BY <2>1
    <2>4. ListTypeOK'
      BY <1>1, <1>2, <2>1, <2>2, <2>3 DEF ListTypeOK
    <2>5. PICK p : Path(l, p)
      BY DEF ListsInv
    <2>6. PICK n : n = sizes[l] /\ n \in Nat
      BY <1>1 DEF ListTypeOK
    <2>7. next[l] = p[1]
      <3>1. 0 \in 0 .. n /\ 0 + 1 = 1
        BY <2>6
      <3> QED BY <1>1, <2>5, <2>6, <3>1, OnPath
    <2>8. Visits(p)'
      <3>1. 1 \in 1 .. n + 1 /\ current' = p[1] /\ sizes'[iterated'] = n
        BY <1>2, <2>1, <2>6, <2>7
      <3>2. ASSUME NEW k \in 1 .. n PROVE calls'[p[k]] = IF k <= 1 THEN 1 ELSE 0
        <4>1. p[k] \in Items
          BY <1>1, <2>5, <2>6, OnPath
        <4>2. p[k] = p[1] <=> k = 1
          <5>1. k \in 1 .. n + 1 /\ 1 \in 1 .. n + 1
            BY <2>6
          <5> QED BY <1>1, <2>5, <2>6, <5>1, OnPath
        <4> QED BY <2>1, <2>7, <4>1, <4>2
      <3> QED BY <3>1, <3>2 DEF Visits
    <2>9. current' # Null
      <3>1. 1 = n + 1 \/ 1 \in 1 .. n
        BY <2>6
      <3>2. p[1] = l \/ p[1] \in Items
        BY <1>1, <2>5, <2>6, <3>1, OnPath
      <3> QED BY <2>1, <2>7, <3>2, ListConstants
    <2>10. \A m \in Lists : \E r : Path(m, r)' /\ (m = iterated' /\ current' # Null => Visits(r)')
      <3> SUFFICES ASSUME NEW m \in Lists PROVE \E r : Path(m, r)' /\ (m = iterated' /\ current' # Null => Visits(r)')
        OBVIOUS
      <3>1. CASE m = l
        BY <1>3, <2>5, <2>8, <3>1
      <3>2. CASE m # l
        <4>1. PICK r : Path(m, r)
          BY DEF ListsInv
        <4> QED BY <1>3, <2>1, <3>2, <4>1
      <3> QED BY <3>1, <3>2
    <2>11. \A j \in stayed' : owner'[j] = iterated'
      BY <1>2, <2>1
    <2> QED BY <2>4, <2>9, <2>10, <2>11 DEF ListsInv
  <1>5. CASE List!Advance
    <2>1. /\ current \in Items /\ current' = next[current]
          /\ calls' = [i \in Items |-> IF i = next[current] /\ calls[i] < 2 THEN calls[i] + 1 ELSE calls[i]]
          /\ UNCHANGED <<iterated, stayed>>
      BY <1>5 DEF List!Advance, List!CallWith, List!linkVars
    <2>2. PICK l \in Lists : l = iterated
      BY <1>1 DEF ListTypeOK
    <2>3. PICK p : Path(l, p) /\ Visits(p)
      BY <2>1, <2>2, ListConstants DEF ListsInv
    <2>4. PICK n : n = sizes[l] /\ n \in Nat
      BY <1>1 DEF ListTypeOK
    <2>5. PICK c \in 1 .. n + 1 : /\ current = p[c]
                                  /\ \A k \in 1 .. n : p[k] \in stayed => calls[p[k]] = IF k <= c THEN 1 ELSE 0
      BY <2>2, <2>3, <2>4 DEF Visits
    <2>6. c \in 1 .. n
      <3>1. p[n + 1] = l
        BY <1>1, <2>3, <2>4, OnPath
      <3>2. c # n + 1
        BY <2>1, <2>5, <3>1, ListConstants
      <3> QED BY <2>4, <3>2
    <2>7. next[current] = p[c + 1]
      <3>1. c \in 0 .. n
        BY <2>4, <2>6
      <3> QED BY <1>1, <2>3, <2>4, <2>5, <3>1, OnPath
    <2>8. ASSUME NEW k \in 1 .. n, p[k] \in stayed
          PROVE  calls'[p[k]] = IF k <= c + 1 THEN 1 ELSE 0
      <3>1. p[k] \in Items /\ calls[p[k]] = IF k <= c THEN 1 ELSE 0
        BY <1>1, <2>5, <2>8 DEF ListTypeOK
      <3>2. p[k] = p[c + 1] <=> k = c + 1
        <4>1. k \in 1 .. n + 1 /\ c + 1 \in 1 .. n + 1
          BY <2>4, <2>6
        <4> QED BY <1>1, <2>3, <2>4, <4>1, OnPath
      <3>3. CASE k = c + 1
        BY <2>1, <2>4, <2>6, <2>7, <3>1, <3>2, <3>3
      <3>4. CASE k # c + 1
        <4>1. calls'[p[k]] = calls[p[k]] /\ (k <= c <=> k <= c + 1)
          BY <2>1, <2>4, <2>6, <2>7, <3>1, <3>2, <3>4
        <4> QED BY <3>1, <4>1
      <3> QED BY <3>3, <3>4
    <2>9. Visits(p)'
      <3>1. c + 1 \in 1 .. n + 1 /\ current' = p[c + 1] /\ sizes'[iterated'] = n /\ stayed' = stayed
        BY <1>2, <2>1, <2>2, <2>4, <2>6, <2>7
      <3> QED BY <2>8, <3>1 DEF Visits
    <2>10. ListTypeOK'
      <3>1. next[current] \in Nodes \cup {Null}
        BY <1>1, <2>1 DEF ListTypeOK, Nodes
      <3>2. calls' \in [Items -> 0 .. 2]
        BY <1>1, <2>1 DEF ListTypeOK
      <3> QED BY <1>1, <1>2, <2>1, <3>1, <3>2 DEF ListTypeOK
    <2>11. \A m \in Lists : \E r : Path(m, r)' /\ (m = iterated' /\ current' # Null => Visits(r)')
      <3> SUFFICES ASSUME NEW m \in Lists PROVE \E r : Path(m, r)' /\ (m = iterated' /\ current' # Null => Visits(r)')
        OBVIOUS
      <3>1. CASE m = l
        BY <1>3, <2>3, <2>9, <3>1
      <3>2. CASE m # l
        <4>1. PICK r : Path(m, r)
          BY DEF ListsInv
        <4> QED BY <1>3, <2>1, <2>2, <3>2, <4>1
      <3> QED BY <3>1, <3>2
    <2>12. current' # Null
      <3>1. c + 1 = n + 1 \/ c + 1 \in 1 .. n
        BY <2>4, <2>6
      <3>2. p[c + 1] = l \/ p[c + 1] \in Items
        BY <1>1, <2>3, <2>4, <3>1, OnPath
      <3> QED BY <2>1, <2>7, <3>2, ListConstants
    <2> QED BY <1>1, <1>2, <2>1, <2>10, <2>11, <2>12 DEF ListsInv
  <1>6. CASE List!Finish
    <2>1. current' = Null /\ stayed' = {} /\ calls' = [i \in Items |-> 0] /\ UNCHANGED iterated
      BY <1>6 DEF List!Finish
    <2>2. ListTypeOK'
      <3>1. calls' \in [Items -> 0 .. 2]
        BY <2>1
      <3> QED BY <1>1, <1>2, <2>1, <3>1 DEF ListTypeOK
    <2>3. \A m \in Lists : \E r : Path(m, r)'
      BY <1>3 DEF ListsInv
    <2> QED BY <2>1, <2>2, <2>3 DEF ListsInv
  <1> QED BY <1>4, <1>5, <1>6

LEMMA ListStep == ListsInv /\ [List!Next]_(List!vars) => ListsInv'
  <1> SUFFICES ASSUME ListsInv, [List!Next]_(List!vars) PROVE ListsInv'
    OBVIOUS
  <1>1. ListTypeOK
    BY DEF ListsInv
  <1>2. CASE UNCHANGED List!vars
    <2>1. UNCHANGED <<next, previous, owner, sizes, current, iterated, stayed, calls>>
      BY <1>2 DEF List!vars, List!linkVars, List!foreachVars
    <2>2. ListTypeOK'
      BY <1>1, <2>1 DEF ListTypeOK
    <2>3. ASSUME NEW l \in Lists PROVE \E p : Path(l, p)' /\ (l = iterated' /\ current' # Null => Visits(p)')
      <3>1. PICK p : Path(l, p) /\ (l = iterated /\ current # Null => Visits(p))
        BY DEF ListsInv
      <3>2. Path(l, p)'
        BY <2>1, <3>1 DEF Path
      <3>3. l = iterated /\ current # Null => Visits(p)'
        BY <2>1, <3>1 DEF Visits
      <3> QED BY <2>1, <3>2, <3>3
    <2> QED BY <2>1, <2>2, <2>3 DEF ListsInv
  <1>3. ASSUME NEW l \in Lists, NEW i \in Items, List!PushFront(l, i) \/ List!PushBack(l, i) \/ List!Remove(l, i)
        PROVE  ListsInv'
    <2>1. PICK p : Path(l, p) /\ (l = iterated /\ current # Null => Visits(p))
      BY DEF ListsInv
    <2>2. CASE List!PushFront(l, i)
      <3>1. UNCHANGED <<current, iterated, stayed, calls>>
        BY <2>2 DEF List!PushFront, List!foreachVars
      <3>2. owner[i] = Null /\ Between(l, p, 1, i) /\ 1 \in 1 .. sizes[l] + 1
        BY <1>1, <2>1, <2>2, PushFrontIs
      <3> QED BY <2>1, <3>1, <3>2, PushKeeps
    <2>3. CASE List!PushBack(l, i)
      <3>1. UNCHANGED <<current, iterated, stayed, calls>>
        BY <2>3 DEF List!PushBack, List!foreachVars
      <3>2. owner[i] = Null /\ Between(l, p, sizes[l] + 1, i) /\ sizes[l] + 1 \in 1 .. sizes[l] + 1
        BY <1>1, <2>1, <2>3, PushBackIs
      <3> QED BY <2>1, <3>1, <3>2, PushKeeps
    <2>4. CASE List!Remove(l, i)
      <3>1. current # i /\ stayed' = stayed \ {i} /\ UNCHANGED <<current, iterated, calls>>
        BY <2>4 DEF List!Remove
      <3>2. PICK a \in 1 .. sizes[l] : p[a] = i /\ Without(l, p, a)
        BY <1>1, <2>1, <2>4, RemoveIs
      <3> QED BY <2>1, <3>1, <3>2, RemoveKeeps
    <2> QED BY <1>3, <2>2, <2>3, <2>4
  <1> QED BY <1>2, <1>3, ForeachKeeps DEF List!Next

LEMMA ListsHold == ListsInv => List!CallsWhatStays
  <1> SUFFICES ASSUME ListsInv, current = iterated, NEW i \in stayed PROVE calls[i] = 1
    BY DEF List!CallsWhatStays
  <1>1. ListTypeOK /\ owner[i] = iterated /\ i \in Items /\ iterated \in Lists /\ current # Null
    BY ListConstants DEF ListsInv, ListTypeOK
  <1>2. PICK p : Path(iterated, p) /\ Visits(p)
    BY <1>1 DEF ListsInv
  <1>3. PICK n : n = sizes[iterated] /\ n \in Nat
    BY <1>1 DEF ListTypeOK
  <1>4. PICK c \in 1 .. n + 1 : /\ current = p[c]
                                /\ \A k \in 1 .. n : p[k] \in stayed => calls[p[k]] = IF k <= c THEN 1 ELSE 0
    BY <1>2, <1>3 DEF Visits
  <1>5. PICK k \in 1 .. n : p[k] = i
    BY <1>1, <1>2, <1>3, OnPath
  <1>6. p[n + 1] = iterated /\ n + 1 \in 1 .. n + 1
    BY <1>1, <1>2, <1>3, OnPath
  <1>7. c = n + 1
    BY <1>1, <1>2, <1>3, <1>4, <1>6, OnPath
  <1> QED BY <1>3, <1>4, <1>5, <1>7

-----------------------------------------------------------------------------
(* What a list contains is what is on its way round.                       *)
ContentsTell == \A l \in Lists : \A p : Path(l, p) => List!Contents[l] = Along(sizes[l], p)

LEMMA ListsTell == ListsInv => ContentsTell
  BY ContentsAlong DEF ContentsTell, ListsInv

(* What a push and a removal make of a sequence.                           *)
LEMMA PushedFront ==
    ASSUME NEW S, NEW s \in Seq(S), NEW i \in S, NEW n, n = Len(s)
    PROVE  <<i>> \o s = [k \in 1 .. n + 1 |-> IF k = 1 THEN i ELSE s[k - 1]]
  <1> DEFINE h == <<i>>
  <1>1. h \in Seq(S) /\ Len(h) = 1 /\ h[1] = i /\ n \in Nat
    BY LenProperties
  <1> HIDE DEF h
  <1>2. /\ h \o s \in Seq(S) /\ Len(h \o s) = n + 1
        /\ \A k \in 1 .. n + 1 : (h \o s)[k] = IF k <= 1 THEN h[k] ELSE s[k - 1]
    <2>1. /\ h \o s \in Seq(S) /\ Len(h \o s) = Len(h) + Len(s)
          /\ \A k \in 1 .. Len(h) + Len(s) : (h \o s)[k] = IF k <= Len(h) THEN h[k] ELSE s[k - Len(h)]
      BY <1>1, ConcatProperties
    <2>2. Len(h) = 1 /\ Len(h) + Len(s) = n + 1
      BY <1>1
    <2> QED BY <2>1, <2>2
  <1>3. h \o s = [k \in 1 .. n + 1 |-> (h \o s)[k]]
    BY <1>2, LenProperties
  <1>4. ASSUME NEW k \in 1 .. n + 1 PROVE (h \o s)[k] = IF k = 1 THEN i ELSE s[k - 1]
    <2>1. k <= 1 <=> k = 1
      BY <1>1
    <2> QED BY <1>1, <1>2, <2>1
  <1>5. h \o s = [k \in 1 .. n + 1 |-> IF k = 1 THEN i ELSE s[k - 1]]
    BY <1>3, <1>4
  <1> QED BY <1>5 DEF h

LEMMA PushedBack ==
    ASSUME NEW S, NEW s \in Seq(S), NEW i \in S, NEW n, n = Len(s)
    PROVE  Append(s, i) = [k \in 1 .. n + 1 |-> IF k = n + 1 THEN i ELSE s[k]]
  <1> DEFINE t == Append(s, i)
  <1>1. n \in Nat
    BY LenProperties
  <1>2. /\ t \in Seq(S) /\ Len(t) = n + 1
        /\ \A k \in 1 .. n : t[k] = s[k]
        /\ t[n + 1] = i
    BY AppendProperties
  <1> HIDE DEF t
  <1>3. t = [k \in 1 .. n + 1 |-> t[k]]
    BY <1>2, LenProperties
  <1>4. ASSUME NEW k \in 1 .. n + 1 PROVE t[k] = IF k = n + 1 THEN i ELSE s[k]
    <2>1. k = n + 1 \/ k \in 1 .. n
      BY <1>1
    <2> QED BY <1>2, <2>1
  <1>5. t = [k \in 1 .. n + 1 |-> IF k = n + 1 THEN i ELSE s[k]]
    BY <1>3, <1>4
  <1> QED BY <1>5 DEF t

LEMMA TakenOut ==
    ASSUME NEW S, NEW s \in Seq(S), NEW n, n = Len(s), NEW a \in 1 .. n
    PROVE  SubSeq(s, 1, a - 1) \o SubSeq(s, a + 1, Len(s))
           = [k \in 1 .. n - 1 |-> IF k < a THEN s[k] ELSE s[k + 1]]
  <1> DEFINE u == SubSeq(s, 1, a - 1)
             v == SubSeq(s, a + 1, n)
  <1>1. n \in Nat /\ a \in Nat /\ 1 <= a /\ a <= n /\ \A k \in 1 .. n : s[k] \in S
    <2>1. n \in Nat
      BY LenProperties
    <2> QED BY <2>1, ElementOfSeq
  <1>2. u \in Seq(S) /\ Len(u) = a - 1 /\ \A k \in 1 .. a - 1 : u[k] = s[k]
    <2>1. \A k \in 1 .. a - 1 : s[k] \in S
      BY <1>1
    <2>2. 1 \in Int /\ a - 1 \in Int /\ (a - 1) - 1 + 1 = a - 1 /\ (~(1 <= a - 1) => a - 1 = 0)
      BY <1>1
    <2>3. /\ u \in Seq(S) /\ Len(u) = IF 1 <= a - 1 THEN (a - 1) - 1 + 1 ELSE 0
          /\ \A k \in 1 .. (a - 1) - 1 + 1 : u[k] = s[1 + k - 1]
      BY <2>1, <2>2, SubSeqProperties
    <2>4. \A k \in 1 .. a - 1 : 1 + k - 1 = k
      BY <1>1
    <2> HIDE DEF u
    <2> QED BY <2>2, <2>3, <2>4
  <1>3. v \in Seq(S) /\ Len(v) = n - a /\ \A k \in 1 .. n - a : v[k] = s[a + k]
    <2>1. \A k \in a + 1 .. n : s[k] \in S
      BY <1>1
    <2>2. a + 1 \in Int /\ n \in Int /\ n - (a + 1) + 1 = n - a /\ (~(a + 1 <= n) => n - a = 0)
      BY <1>1
    <2>3. /\ v \in Seq(S) /\ Len(v) = IF a + 1 <= n THEN n - (a + 1) + 1 ELSE 0
          /\ \A k \in 1 .. n - (a + 1) + 1 : v[k] = s[(a + 1) + k - 1]
      BY <2>1, <2>2, SubSeqProperties
    <2>4. \A k \in 1 .. n - a : (a + 1) + k - 1 = a + k
      BY <1>1
    <2> HIDE DEF v
    <2> QED BY <2>2, <2>3, <2>4
  <1> HIDE DEF u, v
  <1>4. PICK t : t = u \o v
    OBVIOUS
  <1>5. /\ t \in Seq(S) /\ Len(t) = n - 1
        /\ \A k \in 1 .. n - 1 : t[k] = IF k <= a - 1 THEN u[k] ELSE v[k - (a - 1)]
    <2>1. (a - 1) + (n - a) = n - 1
      BY <1>1
    <2>2. /\ t \in Seq(S) /\ Len(t) = Len(u) + Len(v)
          /\ \A k \in 1 .. Len(u) + Len(v) : t[k] = IF k <= Len(u) THEN u[k] ELSE v[k - Len(u)]
      BY <1>2, <1>3, <1>4, ConcatProperties
    <2>3. Len(u) = a - 1 /\ Len(u) + Len(v) = n - 1
      BY <1>2, <1>3, <2>1
    <2> QED BY <2>2, <2>3
  <1>6. ASSUME NEW k \in 1 .. n - 1 PROVE t[k] = IF k < a THEN s[k] ELSE s[k + 1]
    <2>1. CASE k < a
      <3>1. k <= a - 1 /\ k \in 1 .. a - 1
        BY <1>1, <2>1
      <3> QED BY <1>2, <1>5, <2>1, <3>1
    <2>2. CASE ~(k < a)
      <3>1. PICK j : j = k - (a - 1)
        OBVIOUS
      <3>2. ~(k <= a - 1) /\ j \in 1 .. n - a /\ a + j = k + 1
        BY <1>1, <2>2, <3>1
      <3>3. t[k] = v[j]
        BY <1>5, <3>1, <3>2
      <3>4. v[j] = s[k + 1]
        BY <1>3, <3>2
      <3> QED BY <2>2, <3>3, <3>4
    <2> QED BY <2>1, <2>2
  <1>7. t = [k \in 1 .. n - 1 |-> t[k]]
    BY <1>5, LenProperties
  <1>8. t = [k \in 1 .. n - 1 |-> IF k < a THEN s[k] ELSE s[k + 1]]
    BY <1>6, <1>7
  <1> QED BY <1>4, <1>8 DEF u, v

LEMMA AlongProperties ==
    ASSUME ListTypeOK, NEW l \in Lists, NEW p, Path(l, p)
    PROVE  /\ Along(sizes[l], p) \in Seq(Items) /\ Len(Along(sizes[l], p)) = sizes[l]
           /\ DOMAIN Along(sizes[l], p) = 1 .. sizes[l]
           /\ \A k \in 1 .. sizes[l] : Along(sizes[l], p)[k] = p[k]
  <1>1. sizes[l] \in Nat /\ \A k \in 1 .. sizes[l] : p[k] \in Items
    BY OnPath
  <1>2. Along(sizes[l], p) \in [1 .. sizes[l] -> Items]
    BY <1>1 DEF Along
  <1> QED BY <1>1, <1>2 DEF Along

(* A change of one list that the others do not see.                        *)
LEMMA ContentsChange ==
    ASSUME ContentsTell, ContentsTell', NEW l \in Lists, NEW q, Path(l, q)',
           \A m \in Lists : m # l => sizes'[m] = sizes[m] /\ \E r : Path(m, r) /\ Path(m, r)'
    PROVE  List!Contents' = [List!Contents EXCEPT ![l] = Along(sizes'[l], q)]
  <1>1. List!Contents'[l] = Along(sizes'[l], q)
    BY DEF ContentsTell
  <1>2. ASSUME NEW m \in Lists, m # l PROVE List!Contents'[m] = List!Contents[m]
    <2>1. PICK r : Path(m, r) /\ Path(m, r)'
      BY <1>2
    <2>2. List!Contents[m] = Along(sizes[m], r) /\ List!Contents'[m] = Along(sizes'[m], r)
      BY <2>1 DEF ContentsTell
    <2> QED BY <1>2, <2>2
  <1>3. /\ List!Contents = [m \in Lists |-> List!Contents[m]]
        /\ List!Contents' = [m \in Lists |-> List!Contents'[m]]
    BY DEF List!Contents
  <1> QED BY <1>1, <1>2, <1>3

LEMMA FreeIsUnowned ==
    ASSUME ListsInv, ContentsTell, NEW i \in Items, owner[i] = Null
    PROVE  i \in List!Abstract!Free
  <1>1. ASSUME NEW l \in Lists PROVE i \notin List!Abstract!ToSet(List!Contents[l])
    <2>1. PICK p : Path(l, p)
      BY DEF ListsInv
    <2>2. List!Contents[l] = Along(sizes[l], p)
      BY <2>1 DEF ContentsTell
    <2>3. \A k \in 1 .. sizes[l] : p[k] # i
      BY <2>1, OnPath, ListConstants DEF ListsInv
    <2> QED BY <2>2, <2>3 DEF List!Abstract!ToSet, Along
  <1> QED BY <1>1 DEF List!Abstract!Free

LEMMA PushRefines ==
    ASSUME ListsInv, ContentsTell, ContentsTell', NEW l \in Lists, NEW i \in Items,
           List!PushFront(l, i) \/ List!PushBack(l, i)
    PROVE  List!Abstract!Push(l, i)
  <1>1. ListTypeOK
    BY DEF ListsInv
  <1>2. PICK p : Path(l, p)
    BY DEF ListsInv
  <1>3. PICK n : n = sizes[l] /\ n \in Nat
    BY <1>1 DEF ListTypeOK
  <1>4. PICK a \in 1 .. n + 1 : /\ owner[i] = Null /\ Between(l, p, a, i)
                                /\ a = 1 \/ a = n + 1
    <2>1. CASE List!PushFront(l, i)
      <3>1. 1 \in 1 .. n + 1
        BY <1>3
      <3> QED BY <1>1, <1>2, <2>1, <3>1, PushFrontIs
    <2>2. CASE List!PushBack(l, i)
      <3>1. n + 1 \in 1 .. n + 1
        BY <1>3
      <3> QED BY <1>1, <1>2, <1>3, <2>2, <3>1, PushBackIs
    <2> QED BY <2>1, <2>2
  <1>5. PICK q : q = Insert(n, p, a, i)
    OBVIOUS
  <1>6. Path(l, q)'
    BY <1>1, <1>2, <1>3, <1>4, <1>5, Inserted
  <1>7. sizes'[l] = n + 1 /\ \A m \in Lists : m # l => sizes'[m] = sizes[m]
    BY <1>1, <1>3, <1>4 DEF Between, ListTypeOK
  <1>8. \A m \in Lists : m # l => \E r : Path(m, r) /\ Path(m, r)'
    BY <1>1, <1>2, <1>3, <1>4, OthersKeep DEF ListsInv
  <1>9. List!Contents' = [List!Contents EXCEPT ![l] = Along(n + 1, q)]
    BY <1>6, <1>7, <1>8, ContentsChange
  <1>10. List!Contents[l] = Along(n, p)
    BY <1>2, <1>3 DEF ContentsTell
  <1>11. PICK s \in Seq(Items) : s = Along(n, p) /\ Len(s) = n /\ \A k \in 1 .. n : s[k] = p[k]
    BY <1>1, <1>2, <1>3, AlongProperties
  <1>12. \A k \in 0 .. n + 2 : q[k] = IF k < a THEN p[k] ELSE IF k = a THEN i ELSE p[k - 1]
    BY <1>5 DEF Insert
  <1>13. CASE a = 1
    <2>1. <<i>> \o s = [k \in 1 .. n + 1 |-> IF k = 1 THEN i ELSE s[k - 1]]
      BY <1>11, PushedFront
    <2>2. ASSUME NEW k \in 1 .. n + 1 PROVE q[k] = IF k = 1 THEN i ELSE s[k - 1]
      <3>1. k \in 0 .. n + 2 /\ ~(k < 1) /\ (k # 1 => k - 1 \in 1 .. n)
        BY <1>3
      <3> QED BY <1>11, <1>12, <1>13, <3>1
    <2>3. Along(n + 1, q) = <<i>> \o s
      BY <2>1, <2>2 DEF Along
    <2> QED BY <1>4, <1>9, <1>10, <1>11, <2>3, FreeIsUnowned DEF List!Abstract!Push
  <1>14. CASE a = n + 1
    <2>1. Append(s, i) = [k \in 1 .. n + 1 |-> IF k = n + 1 THEN i ELSE s[k]]
      BY <1>11, PushedBack
    <2>2. ASSUME NEW k \in 1 .. n + 1 PROVE q[k] = IF k = n + 1 THEN i ELSE s[k]
      <3>1. k \in 0 .. n + 2 /\ ~(n + 1 < n + 1) /\ (k # n + 1 => k < n + 1 /\ k \in 1 .. n)
        BY <1>3
      <3> QED BY <1>11, <1>12, <1>14, <3>1
    <2>3. Along(n + 1, q) = Append(s, i)
      BY <2>1, <2>2 DEF Along
    <2> QED BY <1>4, <1>9, <1>10, <1>11, <2>3, FreeIsUnowned DEF List!Abstract!Push
  <1> QED BY <1>4, <1>13, <1>14

LEMMA RemoveRefines ==
    ASSUME ListsInv, ContentsTell, ContentsTell', NEW l \in Lists, NEW i \in Items, List!Remove(l, i)
    PROVE  List!Abstract!TakeOut(l, i)
  <1>1. ListTypeOK
    BY DEF ListsInv
  <1>2. PICK p : Path(l, p)
    BY DEF ListsInv
  <1>3. PICK n : n = sizes[l] /\ n \in Nat
    BY <1>1 DEF ListTypeOK
  <1>4. PICK a \in 1 .. n : p[a] = i /\ Without(l, p, a)
    BY <1>1, <1>2, <1>3, RemoveIs
  <1>5. PICK q : q = Drop(n, p, a)
    OBVIOUS
  <1>6. Path(l, q)'
    BY <1>1, <1>2, <1>3, <1>4, <1>5, Dropped
  <1>7. sizes'[l] = n - 1 /\ \A m \in Lists : m # l => sizes'[m] = sizes[m]
    BY <1>1, <1>3, <1>4 DEF Without, ListTypeOK
  <1>8. \A m \in Lists : m # l => \E r : Path(m, r) /\ Path(m, r)'
    BY <1>1, <1>2, <1>3, <1>4, OthersKeep DEF ListsInv
  <1>9. List!Contents' = [List!Contents EXCEPT ![l] = Along(n - 1, q)]
    BY <1>6, <1>7, <1>8, ContentsChange
  <1>10. List!Contents[l] = Along(n, p)
    BY <1>2, <1>3 DEF ContentsTell
  <1>11. PICK s \in Seq(Items) : s = Along(n, p) /\ Len(s) = n /\ \A k \in 1 .. n : s[k] = p[k]
    BY <1>1, <1>2, <1>3, AlongProperties
  <1>12. \A k \in 0 .. n : q[k] = IF k < a THEN p[k] ELSE p[k + 1]
    BY <1>5 DEF Drop
  <1>13. List!Abstract!RemoveAt(s, a) = [k \in 1 .. n - 1 |-> IF k < a THEN s[k] ELSE s[k + 1]]
    BY <1>11, TakenOut DEF List!Abstract!RemoveAt
  <1>14. ASSUME NEW k \in 1 .. n - 1 PROVE q[k] = IF k < a THEN s[k] ELSE s[k + 1]
    <2>1. k \in 0 .. n /\ k \in 1 .. n /\ k + 1 \in 1 .. n
      BY <1>3
    <2> QED BY <1>11, <1>12, <2>1
  <1>15. Along(n - 1, q) = List!Abstract!RemoveAt(s, a)
    BY <1>13, <1>14 DEF Along
  <1>16. a \in DOMAIN s /\ s[a] = i
    BY <1>4, <1>11
  <1> QED BY <1>9, <1>10, <1>11, <1>15, <1>16 DEF List!Abstract!TakeOut

LEMMA ListsRefine ==
    ASSUME ListsInv, ContentsTell, ContentsTell', [List!Next]_(List!vars)
    PROVE  [List!Abstract!Next]_(List!Contents)
  <1>1. ASSUME UNCHANGED <<next, previous, owner, sizes>> PROVE UNCHANGED List!Contents
    BY <1>1 DEF List!Contents, List!IsRing, List!Ring
  <1>2. CASE UNCHANGED List!vars
    BY <1>1, <1>2 DEF List!vars, List!linkVars
  <1>3. CASE (\E l \in Lists : List!Begin(l)) \/ List!Advance \/ List!Finish
    BY <1>1, <1>3 DEF List!Begin, List!Advance, List!Finish, List!linkVars
  <1>4. ASSUME NEW l \in Lists, NEW i \in Items, List!PushFront(l, i) \/ List!PushBack(l, i) \/ List!Remove(l, i)
        PROVE  List!Abstract!Next
    BY <1>4, PushRefines, RemoveRefines DEF List!Abstract!Next
  <1> QED BY <1>2, <1>3, <1>4 DEF List!Next

LEMMA ListsStartEmpty == List!Init => List!Abstract!Init
  <1> SUFFICES ASSUME List!Init PROVE List!Contents = [l \in Lists |-> <<>>]
    BY DEF List!Abstract!Init
  <1>1. ListsInv /\ ContentsTell
    BY ListInit, ListsTell
  <1>2. ASSUME NEW l \in Lists PROVE List!Contents[l] = <<>>
    <2>1. PICK p : Path(l, p)
      BY <1>1 DEF ListsInv
    <2>2. sizes[l] = 0
      BY DEF List!Init
    <2>3. Along(0, p) = <<>>
      BY DEF Along
    <2> QED BY <1>1, <2>1, <2>2, <2>3 DEF ContentsTell
  <1> QED BY <1>2 DEF List!Contents

-----------------------------------------------------------------------------
(* The words of USBTypes.h.                                                *)

(* The fields' values are in range, and they make the word.                *)
Made(a, b, c, x, y, z) ==
    \E f \in 0 .. a, g \in 0 .. b, h \in 0 .. c :
        given = <<f, g, h>> /\ word = f * x + g * y + h * z

WordsInv ==
    /\ kind \in {"bmRequestType", "UsbVersion", "Test8BitField", "UsbAttributes",
                 "EndpointAttributes", "EndpointAddress"}
    /\ kind = "bmRequestType" => Made(31, 3, 1, 1, 32, 128)
    /\ kind = "UsbVersion" => Made(15, 15, 255, 1, 16, 256)
    /\ kind = "Test8BitField" => Made(1, 7, 15, 1, 2, 16)
    /\ kind = "UsbAttributes" => Made(1, 1, 1, 32, 64, 128)
    /\ kind = "EndpointAttributes" => Made(3, 3, 3, 1, 4, 16)
    /\ kind = "EndpointAddress" => Made(15, 1, 0, 1, 128, 0)

LEMMA WordsInit == Words!Init => WordsInv
  <1> SUFFICES ASSUME Words!Init PROVE WordsInv
    OBVIOUS
  <1>1. CASE kind \in {"bmRequestType", "Test8BitField"} /\ word = 0 /\ given = <<0, 0, 0>>
    <2>1. Made(31, 3, 1, 1, 32, 128) /\ Made(1, 7, 15, 1, 2, 16)
      BY <1>1 DEF Made
    <2> QED BY <1>1, <2>1 DEF WordsInv
  <1>2. CASE /\ kind = "UsbVersion" /\ given \in (0 .. 2) \X (0 .. 2) \X (0 .. 2)
             /\ word = Words!UsbVersion(given[3], given[2], given[1])
    <2>1. PICK a \in 0 .. 2, b \in 0 .. 2, c \in 0 .. 2 : given = <<a, b, c>>
      BY <1>2
    <2>2. Words!Assign(0, 8, 8, c) = c * 256
      BY DEF Words!Assign, Words!Field
    <2>3. Words!Assign(c * 256, 4, 4, b) = b * 16 + c * 256
      BY DEF Words!Assign, Words!Field
    <2>4. Words!Assign(b * 16 + c * 256, 0, 4, a) = a * 1 + b * 16 + c * 256
      BY DEF Words!Assign, Words!Field
    <2>5. word = a * 1 + b * 16 + c * 256
      BY <1>2, <2>1, <2>2, <2>3, <2>4 DEF Words!UsbVersion
    <2>6. a \in 0 .. 15 /\ b \in 0 .. 15 /\ c \in 0 .. 255
      OBVIOUS
    <2>7. Made(15, 15, 255, 1, 16, 256)
      BY <2>1, <2>5, <2>6 DEF Made
    <2> QED BY <1>2, <2>7 DEF WordsInv
  <1>3. CASE kind = "UsbAttributes" /\ word = Words!UsbAttributes /\ given = <<0, 0, 1>>
    <2>1. Words!UsbAttributes = 128
      BY DEF Words!UsbAttributes, Words!Assign, Words!Field
    <2>2. Made(1, 1, 1, 32, 64, 128)
      BY <1>3, <2>1 DEF Made
    <2> QED BY <1>3, <2>2 DEF WordsInv
  <1>4. CASE /\ kind = "EndpointAttributes" /\ given \in (0 .. 3) \X (0 .. 3) \X (0 .. 2)
             /\ word = Words!EndpointAttributes(given[1], given[2], given[3])
    <2>1. PICK a \in 0 .. 3, b \in 0 .. 3, c \in 0 .. 2 : given = <<a, b, c>>
      BY <1>4
    <2>2. word = a * 1 + b * 4 + c * 16
      BY <1>4, <2>1 DEF Words!EndpointAttributes
    <2>3. Made(3, 3, 3, 1, 4, 16)
      BY <2>1, <2>2 DEF Made
    <2> QED BY <1>4, <2>3 DEF WordsInv
  <1>5. CASE kind = "EndpointAddress" /\ given = <<0, 0, 0>> /\ word = 0
    <2>1. Made(15, 1, 0, 1, 128, 0)
      BY <1>5 DEF Made
    <2> QED BY <1>5, <2>1 DEF WordsInv
  <1> QED BY <1>1, <1>2, <1>3, <1>4, <1>5 DEF Words!Init

LEMMA SetKeeps ==
    ASSUME WordsInv, NEW i \in 1 .. 3, NEW v \in Nat, Words!Set(i, v)
    PROVE  WordsInv'
  <1>1. /\ kind \in DOMAIN Words!Layout /\ kind' = kind
        /\ word' = Words!Assign(word, Words!Layout[kind][i][1], Words!Layout[kind][i][2], v)
        /\ given' = [given EXCEPT ![i] = v % 2^(Words!Layout[kind][i][2])]
    BY DEF Words!Set
  <1>2. CASE kind = "bmRequestType"
    <2>1. Made(31, 3, 1, 1, 32, 128)
      BY <1>2 DEF WordsInv
    <2>2. PICK a \in 0 .. 31, b \in 0 .. 3, c \in 0 .. 1 : given = <<a, b, c>> /\ word = a * 1 + b * 32 + c * 128
      BY <2>1 DEF Made
    <2>3. /\ Words!Field(word, 0, 5) = a
          /\ Words!Field(word, 5, 2) = b
          /\ Words!Field(word, 7, 1) = c
      BY <2>2 DEF Words!Field
    <2>4. CASE i = 1
      <3>1. PICK n \in 0 .. 31 : n = v % 2^5
        OBVIOUS
      <3>2. Words!Layout[kind][i] = <<0, 5>>
        BY <1>2, <2>4 DEF Words!Layout
      <3>3. given' = <<n, b, c>>
        BY <1>1, <2>2, <2>4, <3>1, <3>2
      <3>4. word' = word + (n - a) * 1
        BY <1>1, <2>3, <3>1, <3>2 DEF Words!Assign
      <3>5. word' = n * 1 + b * 32 + c * 128
        BY <2>2, <3>4
      <3>6. Made(31, 3, 1, 1, 32, 128)'
        BY <3>1, <3>3, <3>5 DEF Made
      <3> QED BY <1>1, <1>2, <3>6 DEF WordsInv
    <2>5. CASE i = 2
      <3>1. PICK n \in 0 .. 3 : n = v % 2^2
        OBVIOUS
      <3>2. Words!Layout[kind][i] = <<5, 2>>
        BY <1>2, <2>5 DEF Words!Layout
      <3>3. given' = <<a, n, c>>
        BY <1>1, <2>2, <2>5, <3>1, <3>2
      <3>4. word' = word + (n - b) * 32
        BY <1>1, <2>3, <3>1, <3>2 DEF Words!Assign
      <3>5. word' = a * 1 + n * 32 + c * 128
        BY <2>2, <3>4
      <3>6. Made(31, 3, 1, 1, 32, 128)'
        BY <3>1, <3>3, <3>5 DEF Made
      <3> QED BY <1>1, <1>2, <3>6 DEF WordsInv
    <2>6. CASE i = 3
      <3>1. PICK n \in 0 .. 1 : n = v % 2^1
        OBVIOUS
      <3>2. Words!Layout[kind][i] = <<7, 1>>
        BY <1>2, <2>6 DEF Words!Layout
      <3>3. given' = <<a, b, n>>
        BY <1>1, <2>2, <2>6, <3>1, <3>2
      <3>4. word' = word + (n - c) * 128
        BY <1>1, <2>3, <3>1, <3>2 DEF Words!Assign
      <3>5. word' = a * 1 + b * 32 + n * 128
        BY <2>2, <3>4
      <3>6. Made(31, 3, 1, 1, 32, 128)'
        BY <3>1, <3>3, <3>5 DEF Made
      <3> QED BY <1>1, <1>2, <3>6 DEF WordsInv
    <2> QED BY <2>4, <2>5, <2>6
  <1>3. CASE kind = "UsbVersion"
    <2>1. Made(15, 15, 255, 1, 16, 256)
      BY <1>3 DEF WordsInv
    <2>2. PICK a \in 0 .. 15, b \in 0 .. 15, c \in 0 .. 255 : given = <<a, b, c>> /\ word = a * 1 + b * 16 + c * 256
      BY <2>1 DEF Made
    <2>3. /\ Words!Field(word, 0, 4) = a
          /\ Words!Field(word, 4, 4) = b
          /\ Words!Field(word, 8, 8) = c
      BY <2>2 DEF Words!Field
    <2>4. CASE i = 1
      <3>1. PICK n \in 0 .. 15 : n = v % 2^4
        OBVIOUS
      <3>2. Words!Layout[kind][i] = <<0, 4>>
        BY <1>3, <2>4 DEF Words!Layout
      <3>3. given' = <<n, b, c>>
        BY <1>1, <2>2, <2>4, <3>1, <3>2
      <3>4. word' = word + (n - a) * 1
        BY <1>1, <2>3, <3>1, <3>2 DEF Words!Assign
      <3>5. word' = n * 1 + b * 16 + c * 256
        BY <2>2, <3>4
      <3>6. Made(15, 15, 255, 1, 16, 256)'
        BY <3>1, <3>3, <3>5 DEF Made
      <3> QED BY <1>1, <1>3, <3>6 DEF WordsInv
    <2>5. CASE i = 2
      <3>1. PICK n \in 0 .. 15 : n = v % 2^4
        OBVIOUS
      <3>2. Words!Layout[kind][i] = <<4, 4>>
        BY <1>3, <2>5 DEF Words!Layout
      <3>3. given' = <<a, n, c>>
        BY <1>1, <2>2, <2>5, <3>1, <3>2
      <3>4. word' = word + (n - b) * 16
        BY <1>1, <2>3, <3>1, <3>2 DEF Words!Assign
      <3>5. word' = a * 1 + n * 16 + c * 256
        BY <2>2, <3>4
      <3>6. Made(15, 15, 255, 1, 16, 256)'
        BY <3>1, <3>3, <3>5 DEF Made
      <3> QED BY <1>1, <1>3, <3>6 DEF WordsInv
    <2>6. CASE i = 3
      <3>1. PICK n \in 0 .. 255 : n = v % 2^8
        OBVIOUS
      <3>2. Words!Layout[kind][i] = <<8, 8>>
        BY <1>3, <2>6 DEF Words!Layout
      <3>3. given' = <<a, b, n>>
        BY <1>1, <2>2, <2>6, <3>1, <3>2
      <3>4. word' = word + (n - c) * 256
        BY <1>1, <2>3, <3>1, <3>2 DEF Words!Assign
      <3>5. word' = a * 1 + b * 16 + n * 256
        BY <2>2, <3>4
      <3>6. Made(15, 15, 255, 1, 16, 256)'
        BY <3>1, <3>3, <3>5 DEF Made
      <3> QED BY <1>1, <1>3, <3>6 DEF WordsInv
    <2> QED BY <2>4, <2>5, <2>6
  <1>4. CASE kind = "Test8BitField"
    <2>1. Made(1, 7, 15, 1, 2, 16)
      BY <1>4 DEF WordsInv
    <2>2. PICK a \in 0 .. 1, b \in 0 .. 7, c \in 0 .. 15 : given = <<a, b, c>> /\ word = a * 1 + b * 2 + c * 16
      BY <2>1 DEF Made
    <2>3. /\ Words!Field(word, 0, 1) = a
          /\ Words!Field(word, 1, 3) = b
          /\ Words!Field(word, 4, 4) = c
      BY <2>2 DEF Words!Field
    <2>4. CASE i = 1
      <3>1. PICK n \in 0 .. 1 : n = v % 2^1
        OBVIOUS
      <3>2. Words!Layout[kind][i] = <<0, 1>>
        BY <1>4, <2>4 DEF Words!Layout
      <3>3. given' = <<n, b, c>>
        BY <1>1, <2>2, <2>4, <3>1, <3>2
      <3>4. word' = word + (n - a) * 1
        BY <1>1, <2>3, <3>1, <3>2 DEF Words!Assign
      <3>5. word' = n * 1 + b * 2 + c * 16
        BY <2>2, <3>4
      <3>6. Made(1, 7, 15, 1, 2, 16)'
        BY <3>1, <3>3, <3>5 DEF Made
      <3> QED BY <1>1, <1>4, <3>6 DEF WordsInv
    <2>5. CASE i = 2
      <3>1. PICK n \in 0 .. 7 : n = v % 2^3
        OBVIOUS
      <3>2. Words!Layout[kind][i] = <<1, 3>>
        BY <1>4, <2>5 DEF Words!Layout
      <3>3. given' = <<a, n, c>>
        BY <1>1, <2>2, <2>5, <3>1, <3>2
      <3>4. word' = word + (n - b) * 2
        BY <1>1, <2>3, <3>1, <3>2 DEF Words!Assign
      <3>5. word' = a * 1 + n * 2 + c * 16
        BY <2>2, <3>4
      <3>6. Made(1, 7, 15, 1, 2, 16)'
        BY <3>1, <3>3, <3>5 DEF Made
      <3> QED BY <1>1, <1>4, <3>6 DEF WordsInv
    <2>6. CASE i = 3
      <3>1. PICK n \in 0 .. 15 : n = v % 2^4
        OBVIOUS
      <3>2. Words!Layout[kind][i] = <<4, 4>>
        BY <1>4, <2>6 DEF Words!Layout
      <3>3. given' = <<a, b, n>>
        BY <1>1, <2>2, <2>6, <3>1, <3>2
      <3>4. word' = word + (n - c) * 16
        BY <1>1, <2>3, <3>1, <3>2 DEF Words!Assign
      <3>5. word' = a * 1 + b * 2 + n * 16
        BY <2>2, <3>4
      <3>6. Made(1, 7, 15, 1, 2, 16)'
        BY <3>1, <3>3, <3>5 DEF Made
      <3> QED BY <1>1, <1>4, <3>6 DEF WordsInv
    <2> QED BY <2>4, <2>5, <2>6
  <1>5. CASE kind = "UsbAttributes"
    <2>1. Made(1, 1, 1, 32, 64, 128)
      BY <1>5 DEF WordsInv
    <2>2. PICK a \in 0 .. 1, b \in 0 .. 1, c \in 0 .. 1 : given = <<a, b, c>> /\ word = a * 32 + b * 64 + c * 128
      BY <2>1 DEF Made
    <2>3. /\ Words!Field(word, 5, 1) = a
          /\ Words!Field(word, 6, 1) = b
          /\ Words!Field(word, 7, 1) = c
      BY <2>2 DEF Words!Field
    <2>4. CASE i = 1
      <3>1. PICK n \in 0 .. 1 : n = v % 2^1
        OBVIOUS
      <3>2. Words!Layout[kind][i] = <<5, 1>>
        BY <1>5, <2>4 DEF Words!Layout
      <3>3. given' = <<n, b, c>>
        BY <1>1, <2>2, <2>4, <3>1, <3>2
      <3>4. word' = word + (n - a) * 32
        BY <1>1, <2>3, <3>1, <3>2 DEF Words!Assign
      <3>5. word' = n * 32 + b * 64 + c * 128
        BY <2>2, <3>4
      <3>6. Made(1, 1, 1, 32, 64, 128)'
        BY <3>1, <3>3, <3>5 DEF Made
      <3> QED BY <1>1, <1>5, <3>6 DEF WordsInv
    <2>5. CASE i = 2
      <3>1. PICK n \in 0 .. 1 : n = v % 2^1
        OBVIOUS
      <3>2. Words!Layout[kind][i] = <<6, 1>>
        BY <1>5, <2>5 DEF Words!Layout
      <3>3. given' = <<a, n, c>>
        BY <1>1, <2>2, <2>5, <3>1, <3>2
      <3>4. word' = word + (n - b) * 64
        BY <1>1, <2>3, <3>1, <3>2 DEF Words!Assign
      <3>5. word' = a * 32 + n * 64 + c * 128
        BY <2>2, <3>4
      <3>6. Made(1, 1, 1, 32, 64, 128)'
        BY <3>1, <3>3, <3>5 DEF Made
      <3> QED BY <1>1, <1>5, <3>6 DEF WordsInv
    <2>6. CASE i = 3
      <3>1. PICK n \in 0 .. 1 : n = v % 2^1
        OBVIOUS
      <3>2. Words!Layout[kind][i] = <<7, 1>>
        BY <1>5, <2>6 DEF Words!Layout
      <3>3. given' = <<a, b, n>>
        BY <1>1, <2>2, <2>6, <3>1, <3>2
      <3>4. word' = word + (n - c) * 128
        BY <1>1, <2>3, <3>1, <3>2 DEF Words!Assign
      <3>5. word' = a * 32 + b * 64 + n * 128
        BY <2>2, <3>4
      <3>6. Made(1, 1, 1, 32, 64, 128)'
        BY <3>1, <3>3, <3>5 DEF Made
      <3> QED BY <1>1, <1>5, <3>6 DEF WordsInv
    <2> QED BY <2>4, <2>5, <2>6
  <1>6. kind \in {"bmRequestType", "UsbVersion", "Test8BitField", "UsbAttributes"}
    BY <1>1 DEF Words!Layout
  <1> QED BY <1>2, <1>3, <1>4, <1>5, <1>6

LEMMA WordsStep ==
    ASSUME WordsInv, [Words!Next]_(Words!vars)
    PROVE  WordsInv'
  <1>1. CASE UNCHANGED Words!vars
    <2>1. kind' = kind /\ word' = word /\ given' = given
      BY <1>1 DEF Words!vars
    <2>2. Made(31, 3, 1, 1, 32, 128) => Made(31, 3, 1, 1, 32, 128)'
      BY <2>1 DEF Made
    <2>3. Made(15, 15, 255, 1, 16, 256) => Made(15, 15, 255, 1, 16, 256)'
      BY <2>1 DEF Made
    <2>4. Made(1, 7, 15, 1, 2, 16) => Made(1, 7, 15, 1, 2, 16)'
      BY <2>1 DEF Made
    <2>5. Made(1, 1, 1, 32, 64, 128) => Made(1, 1, 1, 32, 64, 128)'
      BY <2>1 DEF Made
    <2>6. Made(3, 3, 3, 1, 4, 16) => Made(3, 3, 3, 1, 4, 16)'
      BY <2>1 DEF Made
    <2>7. Made(15, 1, 0, 1, 128, 0) => Made(15, 1, 0, 1, 128, 0)'
      BY <2>1 DEF Made
    <2> QED BY <2>1, <2>2, <2>3, <2>4, <2>5, <2>6, <2>7 DEF WordsInv
  <1>2. ASSUME NEW i \in 1 .. 3, NEW v \in Values, Words!Set(i, v) PROVE WordsInv'
    BY <1>2, PartsAssumption, SetKeeps DEF Words!ValuesAssumption
  <1>3. ASSUME NEW type \in 0 .. 3, Words!SetEndpointType(type) PROVE WordsInv'
    <2>1. /\ kind = "EndpointAttributes" /\ kind' = kind
          /\ word' = Words!SetType(word, type) /\ given' = [given EXCEPT ![1] = type]
      BY <1>3 DEF Words!SetEndpointType
    <2>2. PICK a \in 0 .. 3, b \in 0 .. 3, c \in 0 .. 3 : given = <<a, b, c>> /\ word = a * 1 + b * 4 + c * 16
      <3>1. Made(3, 3, 3, 1, 4, 16)
        BY <2>1 DEF WordsInv
      <3> QED BY <3>1 DEF Made
    <2>3. given' = <<type, b, c>>
      BY <2>1, <2>2
    <2>4. word' = type * 1 + b * 4 + c * 16
      BY <2>1, <2>2 DEF Words!SetType
    <2>5. Made(3, 3, 3, 1, 4, 16)'
      BY <2>3, <2>4 DEF Made
    <2> QED BY <2>1, <2>5 DEF WordsInv
  <1>4. ASSUME NEW id \in 0 .. 15, NEW in \in BOOLEAN, Words!SetDirection(id, in) PROVE WordsInv'
    <2>1. /\ kind = "EndpointAddress" /\ kind' = kind
          /\ word' = IF in THEN Words!MakeIn(id) ELSE Words!MakeOut(id)
          /\ given' = <<id % 128, IF in THEN 1 ELSE 0, 0>>
      BY <1>4 DEF Words!SetDirection
    <2>2. id % 128 = id
      OBVIOUS
    <2>3. PICK d \in 0 .. 1 : given' = <<id, d, 0>> /\ word' = id * 1 + d * 128 + 0 * 0
      BY <2>1, <2>2 DEF Words!MakeIn, Words!MakeOut
    <2>4. Made(15, 1, 0, 1, 128, 0)'
      BY <2>3 DEF Made
    <2> QED BY <2>1, <2>4 DEF WordsInv
  <1> QED BY <1>1, <1>2, <1>3, <1>4 DEF Words!Next

LEMMA WordsHold == WordsInv => Words!FieldsAreIndependent
  <1> SUFFICES ASSUME WordsInv PROVE Words!FieldsAreIndependent
    OBVIOUS
  <1>1. CASE kind = "bmRequestType"
    <2>0. Made(31, 3, 1, 1, 32, 128)
      BY <1>1 DEF WordsInv
    <2>1. PICK a \in 0 .. 31, b \in 0 .. 3, c \in 0 .. 1 : given = <<a, b, c>> /\ word = a * 1 + b * 32 + c * 128
      BY <2>0 DEF Made
    <2>2. Words!Layout[kind] = <<<<0, 5>>, <<5, 2>>, <<7, 1>>>>
      BY <1>1 DEF Words!Layout
    <2>3. /\ Words!Field(word, 0, 5) = a
          /\ Words!Field(word, 5, 2) = b
          /\ Words!Field(word, 7, 1) = c
      BY <2>1 DEF Words!Field
    <2>4. ASSUME NEW i \in 1 .. 3
          PROVE  Words!Field(word, Words!Layout[kind][i][1], Words!Layout[kind][i][2]) = given[i]
      <3>1. i = 1 \/ i = 2 \/ i = 3
        OBVIOUS
      <3> QED BY <2>1, <2>2, <2>3, <3>1
    <2> QED BY <1>1, <2>1, <2>3, <2>4 DEF Words!FieldsAreIndependent, Words!Recipient, Words!RequestType
  <1>2. CASE kind = "UsbVersion"
    <2>0. Made(15, 15, 255, 1, 16, 256)
      BY <1>2 DEF WordsInv
    <2>1. PICK a \in 0 .. 15, b \in 0 .. 15, c \in 0 .. 255 : given = <<a, b, c>> /\ word = a * 1 + b * 16 + c * 256
      BY <2>0 DEF Made
    <2>2. Words!Layout[kind] = <<<<0, 4>>, <<4, 4>>, <<8, 8>>>>
      BY <1>2 DEF Words!Layout
    <2>3. /\ Words!Field(word, 0, 4) = a
          /\ Words!Field(word, 4, 4) = b
          /\ Words!Field(word, 8, 8) = c
      BY <2>1 DEF Words!Field
    <2>4. ASSUME NEW i \in 1 .. 3
          PROVE  Words!Field(word, Words!Layout[kind][i][1], Words!Layout[kind][i][2]) = given[i]
      <3>1. i = 1 \/ i = 2 \/ i = 3
        OBVIOUS
      <3> QED BY <2>1, <2>2, <2>3, <3>1
    <2> QED BY <1>2, <2>1, <2>3, <2>4 DEF Words!FieldsAreIndependent, Words!Recipient, Words!RequestType
  <1>3. CASE kind = "Test8BitField"
    <2>0. Made(1, 7, 15, 1, 2, 16)
      BY <1>3 DEF WordsInv
    <2>1. PICK a \in 0 .. 1, b \in 0 .. 7, c \in 0 .. 15 : given = <<a, b, c>> /\ word = a * 1 + b * 2 + c * 16
      BY <2>0 DEF Made
    <2>2. Words!Layout[kind] = <<<<0, 1>>, <<1, 3>>, <<4, 4>>>>
      BY <1>3 DEF Words!Layout
    <2>3. /\ Words!Field(word, 0, 1) = a
          /\ Words!Field(word, 1, 3) = b
          /\ Words!Field(word, 4, 4) = c
      BY <2>1 DEF Words!Field
    <2>4. ASSUME NEW i \in 1 .. 3
          PROVE  Words!Field(word, Words!Layout[kind][i][1], Words!Layout[kind][i][2]) = given[i]
      <3>1. i = 1 \/ i = 2 \/ i = 3
        OBVIOUS
      <3> QED BY <2>1, <2>2, <2>3, <3>1
    <2> QED BY <1>3, <2>1, <2>3, <2>4 DEF Words!FieldsAreIndependent, Words!Recipient, Words!RequestType
  <1>4. CASE kind = "UsbAttributes"
    <2>0. Made(1, 1, 1, 32, 64, 128)
      BY <1>4 DEF WordsInv
    <2>1. PICK a \in 0 .. 1, b \in 0 .. 1, c \in 0 .. 1 : given = <<a, b, c>> /\ word = a * 32 + b * 64 + c * 128
      BY <2>0 DEF Made
    <2>2. Words!Layout[kind] = <<<<5, 1>>, <<6, 1>>, <<7, 1>>>>
      BY <1>4 DEF Words!Layout
    <2>3. /\ Words!Field(word, 5, 1) = a
          /\ Words!Field(word, 6, 1) = b
          /\ Words!Field(word, 7, 1) = c
      BY <2>1 DEF Words!Field
    <2>4. ASSUME NEW i \in 1 .. 3
          PROVE  Words!Field(word, Words!Layout[kind][i][1], Words!Layout[kind][i][2]) = given[i]
      <3>1. i = 1 \/ i = 2 \/ i = 3
        OBVIOUS
      <3> QED BY <2>1, <2>2, <2>3, <3>1
    <2> QED BY <1>4, <2>1, <2>3, <2>4 DEF Words!FieldsAreIndependent, Words!Recipient, Words!RequestType
  <1>5. CASE kind = "EndpointAttributes"
    <2>0. Made(3, 3, 3, 1, 4, 16)
      BY <1>5 DEF WordsInv
    <2>1. PICK a \in 0 .. 3, b \in 0 .. 3, c \in 0 .. 3 : given = <<a, b, c>> /\ word = a * 1 + b * 4 + c * 16
      BY <2>0 DEF Made
    <2>2. Words!Field(word, 0, 2) = a /\ Words!Field(word, 2, 2) = b /\ Words!Field(word, 4, 2) = c
      BY <2>1 DEF Words!Field
    <2>3. ASSUME NEW i \in 1 .. 3 PROVE Words!Field(word, 2 * i - 2, 2) = given[i]
      <3>1. CASE i = 1
        BY <2>1, <2>2, <3>1
      <3>2. CASE i = 2
        BY <2>1, <2>2, <3>2
      <3>3. CASE i = 3
        BY <2>1, <2>2, <3>3
      <3> QED BY <3>1, <3>2, <3>3
    <2>4. kind \notin DOMAIN Words!Layout
      BY <1>5 DEF Words!Layout
    <2> QED BY <1>5, <2>3, <2>4 DEF Words!FieldsAreIndependent
  <1>6. CASE kind = "EndpointAddress"
    <2>0. Made(15, 1, 0, 1, 128, 0)
      BY <1>6 DEF WordsInv
    <2>1. PICK a \in 0 .. 15, b \in 0 .. 1 : given = <<a, b, 0>> /\ word = a * 1 + b * 128 + 0 * 0
      BY <2>0 DEF Made
    <2>2. Words!Field(word, 4, 3) = 0 /\ Words!Index(word) = a
      BY <2>1 DEF Words!Field, Words!Index
    <2>3. /\ Words!Index(word) = given[1]
          /\ word # 0 => (Words!IsIn(word) <=> given[2] = 1) /\ Words!IsIn(word) # Words!IsOut(word)
      BY <2>1, <2>2 DEF Words!IsIn, Words!IsOut
    <2>4. Words!IsValid(word) <=> ~(given[1] = 0 /\ given[2] = 1)
      BY <2>1, <2>2 DEF Words!IsValid
    <2>5. kind \notin DOMAIN Words!Layout
      BY <1>6 DEF Words!Layout
    <2> QED BY <1>6, <2>3, <2>4, <2>5 DEF Words!FieldsAreIndependent
  <1> QED BY <1>1, <1>2, <1>3, <1>4, <1>5, <1>6 DEF WordsInv

-----------------------------------------------------------------------------
(* Raw input.                                                              *)

-----------------------------------------------------------------------------
(* Raw input: what a report does to a control and to the motion.           *)
Tracked == Buttons \cup PlainKeys
MouseReports == [from : {"mouse"}, dx : {-1, 0, 1}, ulButtons : Nat]
KeyReports == [from : {"keyboard"}, key : Input!Keys, flags : Nat]
Reports == MouseReports \cup KeyReports \cup [from : {"stranger"}]

Moves(r) == IF r.from = "mouse" THEN r.dx ELSE 0
Effect(c, r, before) ==
    IF r.from = "mouse" /\ c \in Buttons THEN
        IF Input!BitIsSet(r.ulButtons, Input!UpBit(c)) THEN FALSE
        ELSE IF Input!BitIsSet(r.ulButtons, Input!DownBit(c)) THEN TRUE ELSE before
    ELSE IF r.from = "keyboard" /\ c \in PlainKeys /\ r.key = c THEN ~Input!IsBreak(r.flags)
    ELSE before

(* The reports that wait lead from what the library knows to what is the   *)
(* case on the devices.                                                    *)
Leads(queue, motion, states) ==
    /\ motion \in [0 .. Len(queue) -> Int]
    /\ states \in [0 .. Len(queue) -> [Tracked -> BOOLEAN]]
    /\ \A n \in 1 .. Len(queue) :
          /\ motion[n] = motion[n - 1] + Moves(queue[n])
          /\ \A c \in Tracked : states[n][c] = Effect(c, queue[n], states[n - 1][c])

Arrives(queue, motion, states) ==
    /\ Leads(queue, motion, states)
    /\ motion[0] = travelled + integral /\ motion[Len(queue)] = position
    /\ \A c \in Tracked : states[0][c] = keyStates[c] /\ states[Len(queue)][c] = down[c]

InputTypeOK ==
    /\ inputQueue \in Seq(Reports) /\ pumping \in BOOLEAN
    /\ keyStates \in [Input!Controls -> BOOLEAN] /\ keyPrevious \in [Input!Controls -> BOOLEAN]
    /\ down \in [Input!Controls -> BOOLEAN]
    /\ integral \in Int /\ travelled \in Int /\ position \in Int

InputInv ==
    /\ InputTypeOK
    /\ known = keyPrevious
    /\ fresh => inputQueue = <<>> /\ ~pumping /\ keyStates = keyPrevious /\ integral = 0
    /\ \E motion, states : Arrives(inputQueue, motion, states)

LEMMA InputConstants ==
    /\ Buttons \subseteq 0 .. 4 /\ Buttons \cap Input!Keys = {} /\ PlainKeys \cap ExtendedKeys = {}
    /\ Tracked \subseteq Input!Controls /\ Buttons \subseteq Tracked /\ PlainKeys \subseteq Tracked
    /\ Input!Controls = Buttons \cup Input!Keys /\ PlainKeys \subseteq Input!Keys
  BY PartsAssumption DEF Input!ControlsAssumption, Tracked, Input!Controls, Input!Keys

(* No bit of a button is another's or the wheel's.                         *)
LEMMA Bits5 ==
    ASSUME NEW b \in 0 .. 4, NEW c \in 0 .. 4
    PROVE  /\ ~Input!BitIsSet(Input!WheelBit, Input!UpBit(c)) /\ ~Input!BitIsSet(Input!WheelBit, Input!DownBit(c))
           /\ Input!BitIsSet(Input!UpBit(b), Input!UpBit(c)) <=> b = c
           /\ Input!BitIsSet(Input!DownBit(b), Input!DownBit(c)) <=> b = c
           /\ ~Input!BitIsSet(Input!UpBit(b), Input!DownBit(c)) /\ ~Input!BitIsSet(Input!DownBit(b), Input!UpBit(c))
           /\ Input!UpBit(b) \in Nat /\ Input!DownBit(b) \in Nat /\ Input!WheelBit \in Nat
  <1>1. b \in {0, 1, 2, 3, 4} /\ c \in {0, 1, 2, 3, 4}
    OBVIOUS
  <1>2. /\ Input!DownBit(0) = 1 /\ Input!DownBit(1) = 4 /\ Input!DownBit(2) = 16 /\ Input!DownBit(3) = 64
        /\ Input!DownBit(4) = 256 /\ Input!UpBit(0) = 2 /\ Input!UpBit(1) = 8 /\ Input!UpBit(2) = 32
        /\ Input!UpBit(3) = 128 /\ Input!UpBit(4) = 512 /\ Input!WheelBit = 1024
    BY DEF Input!DownBit, Input!UpBit, Input!WheelBit
  <1>3. CASE c = 0
    BY <1>1, <1>2, <1>3 DEF Input!BitIsSet
  <1>4. CASE c = 1
    BY <1>1, <1>2, <1>4 DEF Input!BitIsSet
  <1>5. CASE c = 2
    BY <1>1, <1>2, <1>5 DEF Input!BitIsSet
  <1>6. CASE c = 3
    BY <1>1, <1>2, <1>6 DEF Input!BitIsSet
  <1>7. CASE c = 4
    BY <1>1, <1>2, <1>7 DEF Input!BitIsSet
  <1> QED BY <1>1, <1>3, <1>4, <1>5, <1>6, <1>7

(* A report turns what is down into what is down then.                     *)
LEMMA ReportTells ==
    ASSUME InputTypeOK, NEW r, r \in Input!MouseReports \cup Input!KeyReports \cup Input!StrangerReports,
           Input!Report(r)
    PROVE  /\ r \in Reports
           /\ position' = position + Moves(r)
           /\ \A c \in Tracked : down'[c] = Effect(c, r, down[c])
           /\ down' \in [Input!Controls -> BOOLEAN]
  <1>1. /\ position' = IF r.from = "mouse" THEN position + r.dx ELSE position
        /\ down' = [c \in Input!Controls |->
              IF \/ r.from = "keyboard" /\ r.key = c
                 \/ /\ r.from = "mouse" /\ c \in Buttons
                    /\ (Input!BitIsSet(r.ulButtons, Input!DownBit(c)) \/ Input!BitIsSet(r.ulButtons, Input!UpBit(c)))
              THEN ~down[c] ELSE down[c]]
        /\ position \in Int /\ down \in [Input!Controls -> BOOLEAN]
    BY DEF Input!Report, InputTypeOK
  <1>2. down' \in [Input!Controls -> BOOLEAN]
    BY <1>1
  <1>3. ASSUME r \in Input!StrangerReports
        PROVE  r \in Reports /\ position' = position + Moves(r) /\ \A c \in Tracked : down'[c] = Effect(c, r, down[c])
    <2>1. r.from = "stranger" /\ r \in Reports
      BY <1>3 DEF Input!StrangerReports, Reports
    <2> QED BY <1>1, <2>1, InputConstants DEF Moves, Effect
  <1>4. ASSUME NEW k \in Input!Keys,
               r = [from |-> "keyboard", key |-> k,
                    flags |-> (IF down[k] THEN Input!BreakFlags ELSE 0) + (IF k \in ExtendedKeys THEN Input!E0 ELSE 0)]
        PROVE  r \in Reports /\ position' = position + Moves(r) /\ \A c \in Tracked : down'[c] = Effect(c, r, down[c])
    <2>1. /\ r.from = "keyboard" /\ r.key = k
          /\ r.flags = (IF down[k] THEN Input!BreakFlags ELSE 0) + (IF k \in ExtendedKeys THEN Input!E0 ELSE 0)
      BY <1>4
    <2>2. r \in Reports
      BY <1>4 DEF Reports, KeyReports, Input!BreakFlags, Input!E0
    <2>3. ASSUME NEW c \in Tracked PROVE down'[c] = Effect(c, r, down[c])
      <3>1. CASE c # k
        BY <1>1, <2>1, <3>1, InputConstants DEF Effect
      <3>2. CASE c = k
        <4>1. c \in PlainKeys /\ k \notin ExtendedKeys
          BY <3>2, InputConstants DEF Tracked
        <4>2. Input!IsBreak(r.flags) <=> down[k]
          BY <2>1, <4>1 DEF Input!IsBreak, Input!BreakFlags, Input!E0
        <4> QED BY <1>1, <2>1, <3>2, <4>1, <4>2, InputConstants DEF Effect
      <3> QED BY <3>1, <3>2
    <2> QED BY <1>1, <2>1, <2>2, <2>3 DEF Moves
  <1>5. ASSUME r \in [from : {"mouse"}, dx : {-1, 1}, ulButtons : {Input!WheelBit}]
        PROVE  r \in Reports /\ position' = position + Moves(r) /\ \A c \in Tracked : down'[c] = Effect(c, r, down[c])
    <2>1. r.from = "mouse" /\ r.dx \in {-1, 1} /\ r.ulButtons = Input!WheelBit
      BY <1>5
    <2>2. r \in Reports
      BY <1>5 DEF Reports, MouseReports, Input!WheelBit
    <2>3. \A c \in Buttons : ~Input!BitIsSet(r.ulButtons, Input!DownBit(c)) /\ ~Input!BitIsSet(r.ulButtons, Input!UpBit(c))
      BY <2>1, Bits5, InputConstants
    <2> QED BY <1>1, <2>1, <2>2, <2>3, InputConstants DEF Moves, Effect
  <1>6. ASSUME NEW b \in Buttons,
               r = [from |-> "mouse", dx |-> 0,
                    ulButtons |-> IF down[b] THEN Input!UpBit(b) ELSE Input!DownBit(b)]
        PROVE  r \in Reports /\ position' = position + Moves(r) /\ \A c \in Tracked : down'[c] = Effect(c, r, down[c])
    <2>1. /\ r.from = "mouse" /\ r.dx = 0
          /\ r.ulButtons = IF down[b] THEN Input!UpBit(b) ELSE Input!DownBit(b)
      BY <1>6
    <2>2. b \in 0 .. 4 /\ Input!UpBit(b) \in Nat /\ Input!DownBit(b) \in Nat
      BY Bits5, InputConstants
    <2>3. r \in Reports
      BY <1>6, <2>2 DEF Reports, MouseReports
    <2>4. ASSUME NEW c \in Tracked PROVE down'[c] = Effect(c, r, down[c])
      <3>1. CASE c \in Buttons
        <4>1. /\ Input!BitIsSet(r.ulButtons, Input!UpBit(c)) <=> b = c /\ down[b]
              /\ Input!BitIsSet(r.ulButtons, Input!DownBit(c)) <=> b = c /\ ~down[b]
          BY <2>1, <2>2, <3>1, Bits5, InputConstants
        <4> QED BY <1>1, <2>1, <3>1, <4>1, InputConstants DEF Effect
      <3>2. CASE c \notin Buttons
        BY <1>1, <2>1, <3>2, InputConstants DEF Effect
      <3> QED BY <3>1, <3>2
    <2> QED BY <1>1, <2>1, <2>3, <2>4 DEF Moves
  <1>7. \/ r \in Input!StrangerReports
        \/ \E k \in Input!Keys :
               r = [from |-> "keyboard", key |-> k,
                    flags |-> (IF down[k] THEN Input!BreakFlags ELSE 0) + (IF k \in ExtendedKeys THEN Input!E0 ELSE 0)]
        \/ r \in [from : {"mouse"}, dx : {-1, 1}, ulButtons : {Input!WheelBit}]
        \/ \E b \in Buttons :
               r = [from |-> "mouse", dx |-> 0,
                    ulButtons |-> IF down[b] THEN Input!UpBit(b) ELSE Input!DownBit(b)]
    BY DEF Input!MouseReports, Input!KeyReports
  <1> QED BY <1>2, <1>3, <1>4, <1>5, <1>6, <1>7

(* Taking a report from the queue, or adding one, the rest leads as before.*)
LEMMA LeadsOn ==
    ASSUME NEW queue \in Seq(Reports), NEW r \in Reports, NEW motion, NEW states, Leads(queue, motion, states),
           NEW m \in Int, m = motion[Len(queue)] + Moves(r),
           NEW s \in [Tracked -> BOOLEAN], \A c \in Tracked : s[c] = Effect(c, r, states[Len(queue)][c])
    PROVE  \E longer, after :
              /\ Leads(Append(queue, r), longer, after)
              /\ longer[0] = motion[0] /\ after[0] = states[0]
              /\ longer[Len(Append(queue, r))] = m /\ after[Len(Append(queue, r))] = s
  <1> DEFINE n == Len(queue) + 1
             longer == [i \in 0 .. n |-> IF i = n THEN m ELSE motion[i]]
             after == [i \in 0 .. n |-> IF i = n THEN s ELSE states[i]]
  <1>1. /\ Len(queue) \in Nat /\ Len(Append(queue, r)) = n /\ Append(queue, r)[n] = r
        /\ \A i \in 1 .. Len(queue) : Append(queue, r)[i] = queue[i]
    OBVIOUS
  <1>2. \A i \in 0 .. Len(queue) : motion[i] \in Int /\ states[i] \in [Tracked -> BOOLEAN]
    BY DEF Leads
  <1>3. longer \in [0 .. n -> Int] /\ after \in [0 .. n -> [Tracked -> BOOLEAN]]
    BY <1>1, <1>2
  <1>4. ASSUME NEW i \in 1 .. n
        PROVE  /\ longer[i] = longer[i - 1] + Moves(Append(queue, r)[i])
               /\ \A c \in Tracked : after[i][c] = Effect(c, Append(queue, r)[i], after[i - 1][c])
    <2>1. CASE i = n
      <3>1. longer[i] = m /\ after[i] = s /\ longer[i - 1] = motion[Len(queue)] /\ after[i - 1] = states[Len(queue)]
        BY <1>1, <2>1
      <3> QED BY <1>1, <2>1, <3>1
    <2>2. CASE i # n
      <3>1. /\ i \in 1 .. Len(queue) /\ longer[i] = motion[i] /\ after[i] = states[i]
            /\ longer[i - 1] = motion[i - 1] /\ after[i - 1] = states[i - 1]
        <4>1. i \in 1 .. Len(queue) /\ i \in 0 .. n /\ i - 1 \in 0 .. n /\ i - 1 # n
          BY <1>1, <2>2
        <4> QED BY <2>2, <4>1
      <3> HIDE DEF longer, after, n
      <3>2. Append(queue, r)[i] = queue[i]
        BY <1>1, <3>1
      <3> QED BY <3>1, <3>2 DEF Leads
    <2> QED BY <2>1, <2>2
  <1>5. longer[0] = motion[0] /\ after[0] = states[0] /\ longer[n] = m /\ after[n] = s
    BY <1>1
  <1> HIDE DEF longer, after, n
  <1> QED BY <1>1, <1>3, <1>4, <1>5 DEF Leads

LEMMA LeadsFrom ==
    ASSUME NEW queue \in Seq(Reports), queue # <<>>, NEW motion, NEW states, Leads(queue, motion, states)
    PROVE  \E shorter, after :
              /\ Leads(Tail(queue), shorter, after)
              /\ shorter[0] = motion[1] /\ after[0] = states[1]
              /\ shorter[Len(Tail(queue))] = motion[Len(queue)] /\ after[Len(Tail(queue))] = states[Len(queue)]
  <1> DEFINE n == Len(queue) - 1
             shorter == [i \in 0 .. n |-> motion[i + 1]]
             after == [i \in 0 .. n |-> states[i + 1]]
  <1>1. /\ Len(queue) \in Nat /\ n \in Nat /\ Len(Tail(queue)) = n /\ n + 1 = Len(queue)
        /\ \A i \in 1 .. n : Tail(queue)[i] = queue[i + 1]
    OBVIOUS
  <1>2. \A i \in 0 .. Len(queue) : motion[i] \in Int /\ states[i] \in [Tracked -> BOOLEAN]
    BY DEF Leads
  <1>3. shorter \in [0 .. n -> Int] /\ after \in [0 .. n -> [Tracked -> BOOLEAN]]
    BY <1>1, <1>2
  <1>4. ASSUME NEW i \in 1 .. n
        PROVE  /\ shorter[i] = shorter[i - 1] + Moves(Tail(queue)[i])
               /\ \A c \in Tracked : after[i][c] = Effect(c, Tail(queue)[i], after[i - 1][c])
    <2>1. /\ i + 1 \in 1 .. Len(queue) /\ shorter[i] = motion[i + 1] /\ after[i] = states[i + 1]
          /\ shorter[i - 1] = motion[i] /\ after[i - 1] = states[i] /\ (i + 1) - 1 = i
          /\ Tail(queue)[i] = queue[i + 1]
      BY <1>1
    <2> HIDE DEF shorter, after, n
    <2>2. /\ motion[i + 1] = motion[(i + 1) - 1] + Moves(queue[i + 1])
          /\ \A c \in Tracked : states[i + 1][c] = Effect(c, queue[i + 1], states[(i + 1) - 1][c])
      BY <2>1 DEF Leads
    <2> QED BY <2>1, <2>2
  <1>5. /\ shorter[0] = motion[1] /\ after[0] = states[1]
        /\ shorter[n] = motion[Len(queue)] /\ after[n] = states[Len(queue)]
    BY <1>1
  <1> HIDE DEF shorter, after, n
  <1> QED BY <1>1, <1>3, <1>4, <1>5 DEF Leads

LEMMA InputInit == Input!Init => InputInv
  <1> SUFFICES ASSUME Input!Init PROVE InputInv
    OBVIOUS
  <1>1. /\ inputQueue = <<>> /\ pumping = FALSE /\ fresh = FALSE
        /\ keyStates = Input!AllUp /\ keyPrevious = Input!AllUp /\ known = Input!AllUp /\ down = Input!AllUp
        /\ integral = 0 /\ position = 0 /\ travelled = 0
    BY DEF Input!Init
  <1>2. Input!AllUp \in [Input!Controls -> BOOLEAN]
    BY DEF Input!AllUp
  <1>3. inputQueue \in Seq(Reports) /\ Len(inputQueue) = 0
    BY <1>1
  <1>4. InputTypeOK
    <2>1. /\ integral \in Int /\ travelled \in Int /\ position \in Int
      BY <1>1
    <2>2. pumping \in BOOLEAN
      BY <1>1
    <2>3. /\ keyStates \in [Input!Controls -> BOOLEAN] /\ keyPrevious \in [Input!Controls -> BOOLEAN]
          /\ down \in [Input!Controls -> BOOLEAN]
      BY <1>1, <1>2
    <2> QED BY ONLY <1>3, <2>1, <2>2, <2>3 DEF InputTypeOK
  <1>5. PICK motion, states : motion = [n \in 0 .. 0 |-> 0] /\ states = [n \in 0 .. 0 |-> [c \in Tracked |-> FALSE]]
    OBVIOUS
  <1>6. \A c \in Tracked : keyStates[c] = FALSE /\ down[c] = FALSE
    BY <1>1, InputConstants DEF Input!AllUp
  <1>7. Leads(inputQueue, motion, states)
    <2>1. motion \in [0 .. 0 -> Int] /\ states \in [0 .. 0 -> [Tracked -> BOOLEAN]]
      BY <1>5
    <2>2. 1 .. 0 = {}
      OBVIOUS
    <2> QED BY <1>3, <2>1, <2>2 DEF Leads
  <1>8. motion[0] = 0 /\ \A c \in Tracked : states[0][c] = FALSE
    BY <1>5
  <1>9. Arrives(inputQueue, motion, states)
    <2>1. motion[0] = travelled + integral /\ motion[Len(inputQueue)] = position
      BY <1>1, <1>3, <1>8
    <2>2. \A c \in Tracked : states[0][c] = keyStates[c] /\ states[Len(inputQueue)][c] = down[c]
      BY <1>3, <1>6, <1>8
    <2> QED BY ONLY <1>7, <2>1, <2>2 DEF Arrives
  <1> QED BY <1>1, <1>4, <1>9 DEF InputInv

LEMMA ReportKeeps ==
    ASSUME InputInv, NEW r \in Input!MouseReports \cup Input!KeyReports \cup Input!StrangerReports,
           Input!Report(r)
    PROVE  InputInv'
  <1>1. /\ inputQueue' = Append(inputQueue, r) /\ fresh' = FALSE
        /\ UNCHANGED <<pumping, keyStates, keyPrevious, integral, known, travelled>>
    BY DEF Input!Report, Input!deviceVars
  <1>2. InputTypeOK /\ known = keyPrevious
    BY DEF InputInv
  <1>3. /\ r \in Reports /\ position' = position + Moves(r)
        /\ \A c \in Tracked : down'[c] = Effect(c, r, down[c])
        /\ down' \in [Input!Controls -> BOOLEAN]
    BY <1>2, ReportTells
  <1>4. PICK motion, states : Arrives(inputQueue, motion, states)
    BY DEF InputInv
  <1>5. PICK s : s = [c \in Tracked |-> down'[c]]
    OBVIOUS
  <1>6. s \in [Tracked -> BOOLEAN] /\ \A c \in Tracked : s[c] = Effect(c, r, states[Len(inputQueue)][c])
    BY <1>3, <1>4, <1>5, InputConstants DEF Arrives
  <1>7. position' = motion[Len(inputQueue)] + Moves(r) /\ position' \in Int
    <2>1. Moves(r) \in Int
      BY <1>3 DEF Moves, Reports, MouseReports, KeyReports
    <2> QED BY <1>2, <1>3, <1>4, <2>1 DEF Arrives, InputTypeOK
  <1>8. inputQueue \in Seq(Reports) /\ Leads(inputQueue, motion, states)
    BY <1>2, <1>4 DEF InputTypeOK, Arrives
  <1>9. PICK longer, after :
              /\ Leads(Append(inputQueue, r), longer, after)
              /\ longer[0] = motion[0] /\ after[0] = states[0]
              /\ longer[Len(Append(inputQueue, r))] = position' /\ after[Len(Append(inputQueue, r))] = s
    BY <1>3, <1>6, <1>7, <1>8, LeadsOn
  <1>10. Arrives(inputQueue, longer, after)'
    BY <1>1, <1>4, <1>5, <1>9 DEF Arrives, Leads
  <1>11. InputTypeOK'
    <2>1. inputQueue' \in Seq(Reports)
      BY <1>1, <1>3, <1>8
    <2> QED BY <1>1, <1>2, <1>3, <1>7, <2>1 DEF InputTypeOK
  <1> QED BY <1>1, <1>2, <1>10, <1>11 DEF InputInv

LEMMA DispatchKeeps ==
    ASSUME InputInv, Input!Dispatch
    PROVE  InputInv'
  <1>1. /\ pumping /\ inputQueue # <<>> /\ inputQueue' = Tail(inputQueue)
        /\ \/ Input!ApplyMouse(Head(inputQueue))
           \/ Input!ApplyKeyboard(Head(inputQueue))
           \/ Head(inputQueue).from = "stranger" /\ UNCHANGED <<keyStates, integral>>
        /\ UNCHANGED <<pumping, keyPrevious, down, position, known, travelled, fresh>>
    BY DEF Input!Dispatch
  <1>2. InputTypeOK /\ known = keyPrevious /\ ~fresh
    BY <1>1 DEF InputInv
  <1>3. PICK motion, states : Arrives(inputQueue, motion, states)
    BY DEF InputInv
  <1>4. inputQueue \in Seq(Reports) /\ Leads(inputQueue, motion, states)
    BY <1>2, <1>3 DEF InputTypeOK, Arrives
  <1>5. PICK r \in Reports : r = Head(inputQueue) /\ r = inputQueue[1] /\ 1 \in 1 .. Len(inputQueue)
    BY <1>1, <1>4
  <1>6. /\ motion[1] = motion[0] + Moves(r)
        /\ \A c \in Tracked : states[1][c] = Effect(c, r, states[0][c])
    <2>1. /\ motion[1] = motion[1 - 1] + Moves(inputQueue[1])
          /\ \A c \in Tracked : states[1][c] = Effect(c, inputQueue[1], states[1 - 1][c])
      BY <1>4, <1>5 DEF Leads
    <2> QED BY <1>5, <2>1
  <1>7. /\ integral' = integral + Moves(r) /\ Moves(r) \in Int
        /\ keyStates' \in [Input!Controls -> BOOLEAN]
        /\ \A c \in Tracked : keyStates'[c] = Effect(c, r, keyStates[c])
    <2>1. CASE r.from = "mouse"
      <3>1. Input!ApplyMouse(r) /\ r \in MouseReports
        BY <1>1, <1>5, <2>1 DEF Input!ApplyKeyboard, Reports, KeyReports
      <3>2. integral' = integral + Moves(r) /\ Moves(r) \in Int
        BY <2>1, <3>1 DEF Input!ApplyMouse, Moves, MouseReports
      <3> QED BY <1>2, <2>1, <3>1, <3>2, InputConstants DEF Input!ApplyMouse, Effect, InputTypeOK
    <2>2. CASE r.from = "keyboard"
      <3>1. Input!ApplyKeyboard(r) /\ r.key \in Input!Keys
        BY <1>1, <1>5, <2>2 DEF Input!ApplyMouse, Reports, MouseReports, KeyReports
      <3>2. /\ integral' = integral + Moves(r) /\ Moves(r) \in Int
            /\ keyStates' = [keyStates EXCEPT ![r.key] = ~Input!IsBreak(r.flags)]
        BY <1>2, <2>2, <3>1 DEF Input!ApplyKeyboard, Moves, InputTypeOK
      <3>3. r.key \in Input!Controls
        BY <3>1, InputConstants
      <3>4. keyStates' \in [Input!Controls -> BOOLEAN]
        BY <1>2, <3>2, <3>3 DEF InputTypeOK
      <3>5. ASSUME NEW c \in Tracked PROVE keyStates'[c] = Effect(c, r, keyStates[c])
        <4>1. c \in Input!Controls /\ (c = r.key => c \in PlainKeys)
          BY <3>1, InputConstants DEF Tracked
        <4> QED BY <1>2, <2>2, <3>2, <4>1, InputConstants DEF Effect, InputTypeOK
      <3> QED BY <3>2, <3>4, <3>5
    <2>3. CASE r.from = "stranger"
      <3>1. UNCHANGED <<keyStates, integral>>
        BY <1>1, <1>5, <2>3 DEF Input!ApplyMouse, Input!ApplyKeyboard
      <3> QED BY <1>2, <2>3, <3>1, InputConstants DEF Moves, Effect, InputTypeOK
    <2> QED BY <2>1, <2>2, <2>3 DEF Reports, MouseReports, KeyReports
  <1>8. PICK shorter, after :
              /\ Leads(Tail(inputQueue), shorter, after)
              /\ shorter[0] = motion[1] /\ after[0] = states[1]
              /\ shorter[Len(Tail(inputQueue))] = motion[Len(inputQueue)]
              /\ after[Len(Tail(inputQueue))] = states[Len(inputQueue)]
    BY <1>1, <1>4, LeadsFrom
  <1>9. Arrives(inputQueue, shorter, after)'
    <2>1. shorter[0] = travelled' + integral'
      BY <1>1, <1>2, <1>3, <1>6, <1>7, <1>8 DEF Arrives, InputTypeOK
    <2>2. \A c \in Tracked : after[0][c] = keyStates'[c]
      BY <1>3, <1>6, <1>7, <1>8 DEF Arrives
    <2> QED BY <1>1, <1>3, <1>8, <2>1, <2>2 DEF Arrives, Leads
  <1>10. InputTypeOK'
    <2>1. inputQueue' \in Seq(Reports) /\ integral' \in Int
      BY <1>1, <1>2, <1>4, <1>7 DEF InputTypeOK
    <2> QED BY <1>1, <1>2, <1>7, <2>1 DEF InputTypeOK
  <1> QED BY <1>1, <1>2, <1>9, <1>10 DEF InputInv

LEMMA StrobeKeeps ==
    ASSUME InputInv, Input!StrobeDevices
    PROVE  InputInv'
  <1>1. /\ inputQueue = <<>> /\ pumping' = FALSE
        /\ keyPressed' = [c \in Input!Controls |-> keyStates[c] /\ ~keyPrevious[c]]
        /\ keyReleased' = [c \in Input!Controls |-> ~keyStates[c] /\ keyPrevious[c]]
        /\ keyPrevious' = keyStates
        /\ delta' = integral /\ integral' = 0
        /\ known' = [c \in Input!Controls |-> (known[c] \/ keyPressed'[c]) /\ ~keyReleased'[c]]
        /\ travelled' = travelled + delta'
        /\ UNCHANGED <<inputQueue, keyStates, down, position>>
    BY DEF Input!StrobeDevices, Input!Deltas
  <1>2. InputTypeOK /\ known = keyPrevious
    BY DEF InputInv
  <1>3. known' = keyPrevious'
    <2>1. \A c \in Input!Controls : known'[c] = keyStates[c]
      BY <1>1, <1>2 DEF InputTypeOK
    <2> QED BY <1>1, <1>2, <2>1 DEF InputTypeOK
  <1>4. travelled' + integral' = travelled + integral /\ travelled' \in Int /\ integral' \in Int
    BY <1>1, <1>2 DEF InputTypeOK
  <1>5. PICK motion, states : Arrives(inputQueue, motion, states)
    BY DEF InputInv
  <1>6. Arrives(inputQueue, motion, states)'
    BY <1>1, <1>4, <1>5 DEF Arrives, Leads
  <1>7. InputTypeOK'
    BY <1>1, <1>2, <1>4 DEF InputTypeOK
  <1> QED BY <1>1, <1>3, <1>6, <1>7 DEF InputInv

LEMMA InputStep == InputInv /\ [Input!Next]_(Input!vars) => InputInv'
  <1> SUFFICES ASSUME InputInv, [Input!Next]_(Input!vars) PROVE InputInv'
    OBVIOUS
  <1>1. ASSUME UNCHANGED <<inputQueue, keyStates, keyPrevious, integral, down, position, known, travelled>>,
               \/ UNCHANGED <<pumping, fresh>>
               \/ pumping' = TRUE /\ fresh' = FALSE
        PROVE  InputInv'
    <2>1. PICK motion, states : Arrives(inputQueue, motion, states)
      BY DEF InputInv
    <2>2. Arrives(inputQueue, motion, states)'
      BY <1>1, <2>1 DEF Arrives, Leads
    <2>3. InputTypeOK'
      BY <1>1 DEF InputInv, InputTypeOK
    <2>4. /\ known' = keyPrevious'
          /\ fresh' => inputQueue' = <<>> /\ ~pumping' /\ keyStates' = keyPrevious' /\ integral' = 0
      BY <1>1 DEF InputInv
    <2> QED BY <2>2, <2>3, <2>4 DEF InputInv
  <1>2. CASE UNCHANGED Input!vars
    BY <1>1, <1>2 DEF Input!vars, Input!deviceVars
  <1>3. CASE Input!BeginStrobe
    BY <1>1, <1>3 DEF Input!BeginStrobe, Input!deviceVars
  <1> QED BY <1>2, <1>3, ReportKeeps, DispatchKeeps, StrobeKeeps DEF Input!Next

LEMMA InputHolds == InputInv => Input!EdgesTellStates
  <1> SUFFICES ASSUME InputInv, fresh
               PROVE  /\ \A c \in Tracked : known[c] = down[c]
                      /\ travelled = position
    BY DEF Input!EdgesTellStates, Tracked
  <1>1. inputQueue = <<>> /\ known = keyStates /\ integral = 0 /\ travelled \in Int
    BY DEF InputInv, InputTypeOK
  <1>2. PICK motion, states : Arrives(inputQueue, motion, states)
    BY DEF InputInv
  <1>3. Len(inputQueue) = 0
    BY <1>1
  <1> QED BY <1>1, <1>2, <1>3 DEF Arrives

-----------------------------------------------------------------------------
(* Written numbers.                                                        *)

(* The digits of a number: the recursion has one solution.                 *)
DigitsTo(f, m, base) ==
    f = [n \in 0 .. m |-> IF n < base THEN <<n>> ELSE Append(f[n \div base], n % base)]

(* Quotients and remainders of the two bases.                              *)
LEMMA DivMod ==
    ASSUME NEW base \in {10, 16}, NEW n \in Nat
    PROVE  /\ n \div base \in Nat /\ n % base \in 0 .. base - 1
           /\ n = ((n \div base) * base) + (n % base)
           /\ n >= base => n \div base < n
  <1>1. CASE base = 10
    BY <1>1
  <1>2. CASE base = 16
    BY <1>2
  <1> QED BY <1>1, <1>2

LEMMA SomeDigits ==
    ASSUME NEW base \in {10, 16}, NEW m \in Nat
    PROVE  \E f : DigitsTo(f, m, base)
  <1> DEFINE T == {k \in Nat : \E f : DigitsTo(f, k, base)}
  <1>1. 0 \in T
    <2>1. DigitsTo([n \in 0 .. 0 |-> <<n>>], 0, base)
      BY DEF DigitsTo
    <2> QED BY <2>1
  <1>2. ASSUME NEW k \in Nat, k \in T PROVE k + 1 \in T
    <2>1. PICK f : DigitsTo(f, k, base)
      BY <1>2
    <2> DEFINE Rule(g, n) == IF n < base THEN <<n>> ELSE Append(g[n \div base], n % base)
               h == [n \in 0 .. k + 1 |-> IF n <= k THEN f[n] ELSE Rule(f, n)]
    <2>2. ASSUME NEW n \in 0 .. k + 1 PROVE h[n] = Rule(h, n)
      <3>1. n \in Nat /\ (n >= base => n \div base \in 0 .. k + 1 /\ n \div base <= k)
        <4>1. n \in Nat
          OBVIOUS
        <4>2. n \div base \in Nat /\ (n >= base => n \div base < n)
          BY <4>1, DivMod
        <4> QED BY <4>1, <4>2
      <3>2. ~(n < base) => h[n \div base] = f[n \div base]
        BY <3>1
      <3>3. Rule(h, n) = Rule(f, n)
        BY <3>2
      <3>4. ASSUME n <= k PROVE f[n] = Rule(f, n)
        <4>1. n \in 0 .. k
          BY <3>1, <3>4
        <4> QED BY <2>1, <4>1 DEF DigitsTo
      <3> QED BY <3>3, <3>4
    <2>3. h = [n \in 0 .. k + 1 |-> h[n]]
      OBVIOUS
    <2> HIDE DEF h
    <2>4. DigitsTo(h, k + 1, base)
      BY <2>2, <2>3 DEF DigitsTo
    <2> QED BY <2>4
  <1> HIDE DEF T
  <1>3. Nat \subseteq T
    BY <1>1, <1>2, SetInduction
  <1> QED BY <1>3 DEF T

LEMMA OneDigits ==
    ASSUME NEW base \in {10, 16}, NEW m \in Nat, NEW l \in 0 .. m,
           NEW f, DigitsTo(f, m, base), NEW g, DigitsTo(g, l, base)
    PROVE  \A n \in 0 .. l : f[n] = g[n]
  <1> DEFINE T == {k \in Nat : \A n \in 0 .. k : n <= l => f[n] = g[n]}
  <1>0. ASSUME NEW n \in 0 .. l
        PROVE  /\ f[n] = IF n < base THEN <<n>> ELSE Append(f[n \div base], n % base)
               /\ g[n] = IF n < base THEN <<n>> ELSE Append(g[n \div base], n % base)
    <2>1. n \in 0 .. m
      OBVIOUS
    <2> QED BY <2>1 DEF DigitsTo
  <1>1. 0 \in T
    <2>1. 0 < base /\ 0 \in 0 .. l
      OBVIOUS
    <2>2. f[0] = g[0]
      BY <1>0, <2>1
    <2> QED BY <2>2
  <1>2. ASSUME NEW k \in Nat, k \in T PROVE k + 1 \in T
    <2>1. ASSUME k + 1 <= l PROVE f[k + 1] = g[k + 1]
      <3>1. k + 1 \in 0 .. l
        BY <2>1
      <3>2. k + 1 >= base => (k + 1) \div base \in 0 .. k /\ (k + 1) \div base <= l
        BY <2>1, DivMod
      <3>3. k + 1 >= base => f[(k + 1) \div base] = g[(k + 1) \div base]
        BY <1>2, <3>2
      <3>4. ~(k + 1 < base) => k + 1 >= base
        OBVIOUS
      <3> QED BY <1>0, <3>1, <3>3, <3>4
    <2>2. \A n \in 0 .. k + 1 : n = k + 1 \/ n \in 0 .. k
      OBVIOUS
    <2> QED BY <1>2, <2>1, <2>2
  <1> HIDE DEF T
  <1>3. Nat \subseteq T
    BY <1>1, <1>2, SetInduction
  <1>4. l \in T
    BY <1>3
  <1> QED BY <1>4 DEF T

(* Digits computes what the loop does: the digits of n / base, then one.   *)
LEMMA DigitsAgain ==
    ASSUME NEW base \in {10, 16}, NEW n \in Nat
    PROVE  Writer!Digits(n, base) =
             IF n < base THEN <<n>> ELSE Append(Writer!Digits(n \div base, base), n % base)
  <1>1. ASSUME NEW m \in Nat PROVE \E f : DigitsTo(f, m, base) /\ Writer!Digits(m, base) = f[m]
    <2> DEFINE f == CHOOSE f : DigitsTo(f, m, base)
    <2>1. DigitsTo(f, m, base)
      BY SomeDigits
    <2>2. Writer!Digits(m, base) = f[m]
      BY DEF Writer!Digits, DigitsTo
    <2> QED BY <2>1, <2>2
  <1>2. PICK f : DigitsTo(f, n, base) /\ Writer!Digits(n, base) = f[n]
    BY <1>1
  <1>3. f[n] = IF n < base THEN <<n>> ELSE Append(f[n \div base], n % base)
    <2>1. n \in 0 .. n
      OBVIOUS
    <2> QED BY <1>2, <2>1 DEF DigitsTo
  <1>4. ASSUME n >= base PROVE f[n \div base] = Writer!Digits(n \div base, base)
    <2>1. PICK l : l = n \div base
      OBVIOUS
    <2>2. l \in Nat /\ l \in 0 .. n /\ l \in 0 .. l
      BY <1>4, <2>1, DivMod
    <2>3. PICK g : DigitsTo(g, l, base) /\ Writer!Digits(l, base) = g[l]
      BY <1>1, <2>2
    <2>4. f[l] = g[l]
      BY <1>2, <2>2, <2>3, OneDigits
    <2> QED BY <2>1, <2>3, <2>4
  <1>5. n >= base \/ n < base
    OBVIOUS
  <1> QED BY <1>2, <1>3, <1>4, <1>5

(* What the digits are, and how many.                                      *)
LEMMA DigitsType ==
    ASSUME NEW base \in {10, 16}, NEW n \in Nat
    PROVE  /\ Writer!Digits(n, base) \in Seq(0 .. base - 1)
           /\ Len(Writer!Digits(n, base)) \in Nat \ {0}
           /\ n < base => Len(Writer!Digits(n, base)) = 1
           /\ n >= base => Len(Writer!Digits(n, base)) = Len(Writer!Digits(n \div base, base)) + 1
  <1> DEFINE Typed(m) == Writer!Digits(m, base) \in Seq(0 .. base - 1)
             T == {k \in Nat : \A m \in 0 .. k : Typed(m)}
  <1>1. ASSUME NEW m \in Nat, m < base
        PROVE  Typed(m) /\ Len(Writer!Digits(m, base)) = 1
    <2>1. Writer!Digits(m, base) = <<m>> /\ m \in 0 .. base - 1
      BY <1>1, DigitsAgain
    <2> QED BY <2>1
  <1>2. ASSUME NEW m \in Nat, m >= base, Typed(m \div base)
        PROVE  Typed(m) /\ Len(Writer!Digits(m, base)) = Len(Writer!Digits(m \div base, base)) + 1
    <2>1. ~(m < base) /\ m % base \in 0 .. base - 1
      BY <1>2, DivMod
    <2>2. Writer!Digits(m, base) = Append(Writer!Digits(m \div base, base), m % base)
      BY <2>1, DigitsAgain
    <2> QED BY <1>2, <2>1, <2>2, AppendProperties
  <1>3. 0 \in T
    <2>1. \A m \in 0 .. 0 : m \in Nat /\ m < base
      OBVIOUS
    <2> QED BY <1>1, <2>1
  <1>4. ASSUME NEW k \in Nat, k \in T PROVE k + 1 \in T
    <2>1. Typed(k + 1)
      <3>1. CASE k + 1 < base
        BY <1>1, <3>1
      <3>2. CASE k + 1 >= base
        <4>1. (k + 1) \div base \in 0 .. k
          BY <3>2, DivMod
        <4> QED BY <1>2, <1>4, <3>2, <4>1
      <3>3. k + 1 < base \/ k + 1 >= base
        OBVIOUS
      <3> QED BY <3>1, <3>2, <3>3
    <2>2. \A m \in 0 .. k + 1 : m = k + 1 \/ m \in 0 .. k
      OBVIOUS
    <2> QED BY <1>4, <2>1, <2>2
  <1> HIDE DEF T
  <1>5. Nat \subseteq T
    BY <1>3, <1>4, SetInduction
  <1>6. \A m \in Nat : Typed(m)
    <2>1. \A m \in Nat : m \in 0 .. m /\ m \in T
      BY <1>5
    <2> QED BY <2>1 DEF T
  <1>7. n \div base \in Nat /\ Typed(n) /\ Typed(n \div base)
    BY <1>6, DivMod
  <1>8. Len(Writer!Digits(n \div base, base)) \in Nat
    BY <1>7, LenProperties
  <1>9. n < base => Len(Writer!Digits(n, base)) = 1
    BY <1>1
  <1>10. n >= base => Len(Writer!Digits(n, base)) = Len(Writer!Digits(n \div base, base)) + 1
    BY <1>2, <1>7
  <1>11. Len(Writer!Digits(n, base)) \in Nat \ {0}
    <2> DEFINE count == Len(Writer!Digits(n, base))
               less == Len(Writer!Digits(n \div base, base))
    <2>1. (count = 1 \/ count = less + 1) /\ less \in Nat
      BY <1>8, <1>9, <1>10
    <2> HIDE DEF count, less
    <2>2. count \in Nat \ {0}
      BY <2>1
    <2> QED BY <2>2 DEF count
  <1> QED BY <1>7, <1>9, <1>10, <1>11

LEMMA DigitsInt ==
    ASSUME NEW base \in {10, 16}, NEW n \in Nat
    PROVE  Writer!Digits(n, base) \in Seq(Int)
  <1>1. Writer!Digits(n, base) \in Seq(0 .. base - 1)
    BY DigitsType
  <1>2. 0 .. base - 1 \subseteq Int
    OBVIOUS
  <1> QED BY <1>1, <1>2

(* A greater number has no fewer digits.                                   *)
LEMMA DigitsGrow ==
    ASSUME NEW base \in {10, 16}, NEW n \in Nat, NEW m \in 0 .. n
    PROVE  Len(Writer!Digits(m, base)) <= Len(Writer!Digits(n, base))
  <1> DEFINE count == [k \in Nat |-> Len(Writer!Digits(k, base))]
             T == {k \in Nat : \A b \in 0 .. k : \A a \in 0 .. b : count[a] <= count[b]}
  <1>1. \A k \in Nat : /\ count[k] \in Nat \ {0} /\ k \div base \in Nat
                       /\ k < base => count[k] = 1
                       /\ k >= base => count[k] = count[k \div base] + 1 /\ k \div base < k
    BY DigitsType, DivMod
  <1>2. \A a, b \in Nat : a <= b => a \div base <= b \div base
    <2>1. CASE base = 10
      BY <2>1
    <2>2. CASE base = 16
      BY <2>2
    <2> QED BY <2>1, <2>2
  <1> HIDE DEF count
  <1>3. 0 \in T
    <2>1. \A b \in 0 .. 0 : \A a \in 0 .. b : a = 0 /\ b = 0
      OBVIOUS
    <2>2. count[0] <= count[0]
      BY <1>1
    <2> QED BY <2>1, <2>2
  <1>4. ASSUME NEW k \in Nat, k \in T PROVE k + 1 \in T
    <2>1. ASSUME NEW a \in 0 .. k + 1 PROVE count[a] <= count[k + 1]
      <3>1. a \in Nat /\ k + 1 \in Nat /\ a <= k + 1
        OBVIOUS
      <3>2. CASE a < base
        BY <1>1, <3>1, <3>2
      <3>3. CASE a >= base
        <4>1. PICK c : c = a \div base
          OBVIOUS
        <4>2. PICK d : d = (k + 1) \div base
          OBVIOUS
        <4>3. k + 1 >= base /\ c \in Nat /\ d \in Nat /\ c <= d /\ d < k + 1
          BY <1>1, <1>2, <3>1, <3>3, <4>1, <4>2
        <4>4. d \in 0 .. k /\ c \in 0 .. d
          BY <4>3
        <4>5. count[c] <= count[d]
          BY <1>4, <4>4
        <4>6. count[a] = count[c] + 1 /\ count[k + 1] = count[d] + 1 /\ count[c] \in Nat /\ count[d] \in Nat
          BY <1>1, <3>1, <3>3, <4>1, <4>2, <4>3
        <4> QED BY <4>5, <4>6
      <3>4. a < base \/ a >= base
        OBVIOUS
      <3> QED BY <3>2, <3>3, <3>4
    <2>2. \A b \in 0 .. k + 1 : b = k + 1 \/ b \in 0 .. k
      OBVIOUS
    <2> QED BY <1>4, <2>1, <2>2
  <1>5. Nat \subseteq T
    <2> HIDE DEF T
    <2> QED BY <1>3, <1>4, SetInduction
  <1>6. n \in T /\ n \in 0 .. n
    BY <1>5
  <1>7. count[m] <= count[n]
    BY <1>6
  <1>8. m \in Nat
    OBVIOUS
  <1> QED BY <1>7, <1>8 DEF count
(* Induction up to a bound.                                                *)
LEMMA BoundedInduction ==
    ASSUME NEW m \in Nat, NEW T, 0 \in T,
           \A k \in Nat : k < m /\ k \in T => k + 1 \in T
    PROVE  \A k \in 0 .. m : k \in T
  <1> DEFINE U == {k \in Nat : k <= m => k \in T}
  <1>1. 0 \in U /\ \A k \in Nat : k \in U => k + 1 \in U
    OBVIOUS
  <1> HIDE DEF U
  <1>2. Nat \subseteq U
    BY <1>1, SetInduction
  <1> QED BY <1>2 DEF U

(* What a reader has read up to a character: the recursion of NumberIn.    *)
Skipped == {Writer!Fill, Writer!Minus}
ReadsTo(r, s, m, base) ==
    r = [n \in 0 .. m |-> IF n = 0 THEN 0
                          ELSE IF s[n] \in Skipped THEN r[n - 1]
                          ELSE r[n - 1] * base + s[n]]

LEMMA SomeReads ==
    ASSUME NEW base, NEW s, NEW m \in Nat
    PROVE  \E r : ReadsTo(r, s, m, base)
  <1> DEFINE T == {k \in Nat : \E r : ReadsTo(r, s, k, base)}
  <1>1. 0 \in T
    <2>1. ReadsTo([n \in 0 .. 0 |-> 0], s, 0, base)
      <3>1. \A n \in 0 .. 0 : n = 0
        OBVIOUS
      <3> QED BY <3>1 DEF ReadsTo
    <2> QED BY <2>1
  <1>2. ASSUME NEW k \in Nat, k \in T PROVE k + 1 \in T
    <2>1. PICK r : ReadsTo(r, s, k, base)
      BY <1>2
    <2> DEFINE Rule(q, n) == IF n = 0 THEN 0
                             ELSE IF s[n] \in Skipped THEN q[n - 1]
                             ELSE q[n - 1] * base + s[n]
               h == [n \in 0 .. k + 1 |-> IF n <= k THEN r[n] ELSE Rule(r, n)]
    <2>2. ASSUME NEW n \in 0 .. k + 1 PROVE h[n] = Rule(h, n)
      <3>1. n # 0 => n - 1 \in 0 .. k + 1 /\ n - 1 <= k
        OBVIOUS
      <3>2. n # 0 => h[n - 1] = r[n - 1]
        BY <3>1
      <3>3. Rule(h, n) = Rule(r, n)
        BY <3>2
      <3>4. ASSUME n <= k PROVE r[n] = Rule(r, n)
        <4>1. n \in 0 .. k
          BY <3>4
        <4> QED BY <2>1, <4>1 DEF ReadsTo
      <3> QED BY <3>3, <3>4
    <2>3. h = [n \in 0 .. k + 1 |-> h[n]]
      OBVIOUS
    <2> HIDE DEF h
    <2>4. ReadsTo(h, s, k + 1, base)
      BY <2>2, <2>3 DEF ReadsTo
    <2> QED BY <2>4
  <1> HIDE DEF T
  <1>3. Nat \subseteq T
    BY <1>1, <1>2, SetInduction
  <1> QED BY <1>3 DEF T

(* The numbers read, one character after another.                          *)
Reading(r, s, base) ==
    /\ r \in [0 .. Len(s) -> Int]
    /\ r[0] = 0
    /\ \A n \in 1 .. Len(s) :
          r[n] = IF s[n] \in Skipped THEN r[n - 1] ELSE r[n - 1] * base + s[n]

(* NumberIn is the last of the numbers read.                               *)
LEMMA NumberInReads ==
    ASSUME NEW base \in {10, 16}, NEW s \in Seq(Int)
    PROVE  \E r : Reading(r, s, base) /\ Writer!NumberIn(s, base) = r[Len(s)]
  <1> DEFINE m == Len(s)
             r == CHOOSE r : ReadsTo(r, s, m, base)
  <1>1. m \in Nat
    BY LenProperties
  <1>2. ReadsTo(r, s, m, base)
    BY <1>1, SomeReads
  <1>3. Writer!NumberIn(s, base) = r[m]
    BY DEF Writer!NumberIn, ReadsTo, Skipped
  <1> HIDE DEF r
  <1>4. ASSUME NEW n \in 0 .. m
        PROVE  r[n] = IF n = 0 THEN 0 ELSE IF s[n] \in Skipped THEN r[n - 1] ELSE r[n - 1] * base + s[n]
    BY <1>2, <1>4 DEF ReadsTo
  <1>5. r = [n \in 0 .. m |-> r[n]]
    BY <1>2 DEF ReadsTo
  <1> DEFINE T == {k \in Nat : r[k] \in Int}
  <1>6. 0 \in T
    <2>1. 0 \in 0 .. m
      BY <1>1
    <2> QED BY <1>4, <2>1
  <1>7. ASSUME NEW k \in Nat, k < m, k \in T PROVE k + 1 \in T
    <2>1. k + 1 \in 0 .. m /\ k + 1 \in 1 .. m /\ k + 1 # 0 /\ (k + 1) - 1 = k
      BY <1>1, <1>7
    <2>2. s[k + 1] \in Int
      BY <2>1, ElementOfSeq
    <2>3. r[k + 1] = IF s[k + 1] \in Skipped THEN r[k] ELSE r[k] * base + s[k + 1]
      BY <1>4, <2>1
    <2>4. r[k] \in Int /\ base \in Int
      BY <1>7
    <2> QED BY <2>2, <2>3, <2>4
  <1> HIDE DEF T
  <1>8. \A k \in 0 .. m : k \in T
    BY <1>1, <1>6, <1>7, BoundedInduction
  <1>9. r \in [0 .. m -> Int]
    BY <1>5, <1>8 DEF T
  <1>10. r[0] = 0
    <2>1. 0 \in 0 .. m
      BY <1>1
    <2> QED BY <1>4, <2>1
  <1>11. ASSUME NEW n \in 1 .. m
         PROVE  r[n] = IF s[n] \in Skipped THEN r[n - 1] ELSE r[n - 1] * base + s[n]
    <2>1. n \in 0 .. m /\ n # 0
      BY <1>1
    <2> QED BY <1>4, <2>1
  <1> QED BY <1>3, <1>9, <1>10, <1>11 DEF Reading

(* One more digit.                                                         *)
LEMMA OneMoreDigit ==
    ASSUME NEW base \in {10, 16}, NEW s \in Seq(Int), NEW c \in Nat
    PROVE  /\ Writer!NumberIn(s, base) \in Int
           /\ Writer!NumberIn(Append(s, c), base) = (Writer!NumberIn(s, base) * base) + c
  <1> DEFINE t == Append(s, c)
  <1>1. PICK m : m = Len(s) /\ m \in Nat
    BY LenProperties
  <1>2. t \in Seq(Int) /\ Len(t) = m + 1 /\ t[m + 1] = c /\ \A i \in 1 .. m : t[i] = s[i]
    BY <1>1, AppendProperties
  <1> HIDE DEF t
  <1>3. PICK r : Reading(r, s, base) /\ Writer!NumberIn(s, base) = r[m]
    BY <1>1, NumberInReads
  <1>4. PICK q : Reading(q, t, base) /\ Writer!NumberIn(t, base) = q[m + 1]
    BY <1>2, NumberInReads
  <1> DEFINE T == {k \in Nat : r[k] = q[k]}
  <1>5. 0 \in T
    BY <1>3, <1>4 DEF Reading
  <1>6. ASSUME NEW k \in Nat, k < m, k \in T PROVE k + 1 \in T
    <2>1. k + 1 \in 1 .. m /\ k + 1 \in 1 .. m + 1 /\ (k + 1) - 1 = k
      BY <1>1, <1>6
    <2>2. r[k + 1] = IF s[k + 1] \in Skipped THEN r[k] ELSE r[k] * base + s[k + 1]
      BY <1>1, <1>3, <2>1 DEF Reading
    <2>3. q[k + 1] = IF t[k + 1] \in Skipped THEN q[k] ELSE q[k] * base + t[k + 1]
      BY <1>2, <1>4, <2>1 DEF Reading
    <2> QED BY <1>2, <1>6, <2>1, <2>2, <2>3
  <1> HIDE DEF T
  <1>7. \A k \in 0 .. m : k \in T
    BY <1>1, <1>5, <1>6, BoundedInduction
  <1>8. q[m] = r[m] /\ m \in 0 .. m
    BY <1>1, <1>7 DEF T
  <1>9. m + 1 \in 1 .. m + 1 /\ (m + 1) - 1 = m /\ c \notin Skipped
    BY <1>1 DEF Skipped, Writer!Fill, Writer!Minus
  <1>10. q[m + 1] = q[m] * base + c
    BY <1>2, <1>4, <1>9 DEF Reading
  <1>11. r[m] \in Int
    BY <1>1, <1>3, <1>8 DEF Reading
  <1> QED BY <1>3, <1>4, <1>8, <1>10, <1>11 DEF t

(* The digits of a number read as the number.                              *)
LEMMA DigitsRead ==
    ASSUME NEW base \in {10, 16}, NEW n \in Nat
    PROVE  Writer!NumberIn(Writer!Digits(n, base), base) = n
  <1> DEFINE IsRead(m) == Writer!NumberIn(Writer!Digits(m, base), base) = m
             T == {k \in Nat : \A m \in 0 .. k : IsRead(m)}
  <1>1. ASSUME NEW m \in Nat, m < base PROVE IsRead(m)
    <2>1. Writer!Digits(m, base) = <<m>> /\ <<m>> \in Seq(Int) /\ Len(<<m>>) = 1 /\ <<m>>[1] = m
      BY <1>1, DigitsAgain
    <2>2. PICK r : Reading(r, <<m>>, base) /\ Writer!NumberIn(<<m>>, base) = r[1]
      BY <2>1, NumberInReads
    <2>3. r[1] = r[0] * base + m /\ r[0] = 0
      <3>1. 1 \in 1 .. 1 /\ 1 - 1 = 0 /\ m \notin Skipped
        BY DEF Skipped, Writer!Fill, Writer!Minus
      <3> QED BY <2>1, <2>2, <3>1 DEF Reading
    <2>4. r[1] = m
      BY <2>3
    <2> QED BY <2>1, <2>2, <2>4
  <1>2. ASSUME NEW m \in Nat, m >= base, IsRead(m \div base) PROVE IsRead(m)
    <2>1. PICK a : a = m \div base
      OBVIOUS
    <2>2. PICK c : c = m % base
      OBVIOUS
    <2>3. a \in Nat /\ c \in Nat /\ m = (a * base) + c /\ ~(m < base)
      <3>1. m \div base \in Nat /\ m % base \in 0 .. base - 1 /\ m = ((m \div base) * base) + (m % base)
        BY DivMod
      <3> QED BY <1>2, <2>1, <2>2, <3>1
    <2>4. Writer!Digits(m, base) = Append(Writer!Digits(a, base), c)
      BY <2>1, <2>2, <2>3, DigitsAgain
    <2>5. Writer!Digits(a, base) \in Seq(Int)
      BY <2>3, DigitsInt
    <2>6. Writer!NumberIn(Writer!Digits(m, base), base)
            = (Writer!NumberIn(Writer!Digits(a, base), base) * base) + c
      BY <2>3, <2>4, <2>5, OneMoreDigit
    <2> QED BY <1>2, <2>1, <2>3, <2>6
  <1> HIDE DEF IsRead
  <1>3. 0 \in T
    <2>1. \A m \in 0 .. 0 : m \in Nat /\ m < base
      OBVIOUS
    <2> QED BY <1>1, <2>1
  <1>4. ASSUME NEW k \in Nat, k \in T PROVE k + 1 \in T
    <2>1. IsRead(k + 1)
      <3>1. CASE k + 1 < base
        BY <1>1, <3>1
      <3>2. CASE k + 1 >= base
        <4>1. (k + 1) \div base \in 0 .. k
          BY <3>2, DivMod
        <4> QED BY <1>2, <1>4, <3>2, <4>1
      <3>3. k + 1 < base \/ k + 1 >= base
        OBVIOUS
      <3> QED BY <3>1, <3>2, <3>3
    <2>2. \A m \in 0 .. k + 1 : m = k + 1 \/ m \in 0 .. k
      OBVIOUS
    <2> QED BY <1>4, <2>1, <2>2
  <1> HIDE DEF T
  <1>5. Nat \subseteq T
    BY <1>3, <1>4, SetInduction
  <1>6. n \in T /\ n \in 0 .. n
    BY <1>5
  <1>7. IsRead(n)
    BY <1>6 DEF T
  <1> QED BY <1>7 DEF IsRead

(* What reads as nothing before the digits, and fill after them, change    *)
(* nothing.                                                                *)
LEMMA ReadsThrough ==
    ASSUME NEW base \in {10, 16}, NEW s \in Seq(Int), NEW d \in Seq(Int), NEW a \in Nat,
           a + Len(d) <= Len(s),
           \A n \in 1 .. a : s[n] \in Skipped \/ s[n] = 0,
           \A k \in 1 .. Len(d) : s[a + k] = d[k],
           \A n \in a + Len(d) + 1 .. Len(s) : s[n] \in Skipped
    PROVE  Writer!NumberIn(s, base) = Writer!NumberIn(d, base)
  <1>1. PICK m : m = Len(s) /\ m \in Nat
    BY LenProperties
  <1>2. PICK l : l = Len(d) /\ l \in Nat
    BY LenProperties
  <1>3. PICK r : Reading(r, s, base) /\ Writer!NumberIn(s, base) = r[m]
    BY <1>1, NumberInReads
  <1>4. PICK q : Reading(q, d, base) /\ Writer!NumberIn(d, base) = q[l]
    BY <1>2, NumberInReads
  <1>5. \A n \in 1 .. m : r[n] = IF s[n] \in Skipped THEN r[n - 1] ELSE r[n - 1] * base + s[n]
    BY <1>1, <1>3 DEF Reading
  <1>6. \A n \in 1 .. l : q[n] = IF d[n] \in Skipped THEN q[n - 1] ELSE q[n - 1] * base + d[n]
    BY <1>2, <1>4 DEF Reading
  <1>7. r[0] = 0 /\ q[0] = 0
    BY <1>3, <1>4 DEF Reading
  <1>8. a + l <= m
    BY <1>1, <1>2
  <1>9. r[a] = 0
    <2> DEFINE T == {k \in Nat : r[k] = 0}
    <2>1. 0 \in T
      BY <1>7
    <2>2. ASSUME NEW k \in Nat, k < a, k \in T PROVE k + 1 \in T
      <3>1. k + 1 \in 1 .. a /\ k + 1 \in 1 .. m /\ (k + 1) - 1 = k
        BY <1>1, <1>2, <1>8, <2>2
      <3>2. r[k + 1] = IF s[k + 1] \in Skipped THEN r[k] ELSE r[k] * base + s[k + 1]
        BY <1>5, <3>1
      <3>3. s[k + 1] \in Skipped \/ s[k + 1] = 0
        BY <3>1
      <3> QED BY <2>2, <3>2, <3>3
    <2> HIDE DEF T
    <2>3. \A k \in 0 .. a : k \in T
      BY <2>1, <2>2, BoundedInduction
    <2>4. a \in 0 .. a
      OBVIOUS
    <2> QED BY <2>3, <2>4 DEF T
  <1>10. r[a + l] = q[l]
    <2> DEFINE T == {k \in Nat : r[a + k] = q[k]}
    <2>1. 0 \in T
      BY <1>7, <1>9
    <2>2. ASSUME NEW k \in Nat, k < l, k \in T PROVE k + 1 \in T
      <3>1. PICK n : n = a + (k + 1)
        OBVIOUS
      <3>2. k + 1 \in 1 .. l /\ n \in 1 .. m /\ (k + 1) - 1 = k /\ n - 1 = a + k
        BY <1>1, <1>2, <1>8, <2>2, <3>1
      <3>3. r[n] = IF s[n] \in Skipped THEN r[a + k] ELSE r[a + k] * base + s[n]
        BY <1>5, <3>2
      <3>4. q[k + 1] = IF d[k + 1] \in Skipped THEN q[k] ELSE q[k] * base + d[k + 1]
        BY <1>6, <3>2
      <3>5. s[n] = d[k + 1]
        BY <1>2, <3>1, <3>2
      <3>6. r[n] = q[k + 1]
        BY <2>2, <3>3, <3>4, <3>5
      <3> QED BY <3>1, <3>6
    <2> HIDE DEF T
    <2>3. \A k \in 0 .. l : k \in T
      BY <1>2, <2>1, <2>2, BoundedInduction
    <2>4. l \in 0 .. l
      BY <1>2
    <2> QED BY <2>3, <2>4 DEF T
  <1>11. PICK e : e = m - (a + l) /\ e \in Nat /\ (a + l) + e = m
    BY <1>1, <1>2, <1>8
  <1>12. r[(a + l) + e] = q[l]
    <2> DEFINE T == {k \in Nat : r[(a + l) + k] = q[l]}
    <2>1. 0 \in T
      <3>1. (a + l) + 0 = a + l
        BY <1>2
      <3> QED BY <1>10, <3>1
    <2>2. ASSUME NEW k \in Nat, k < e, k \in T PROVE k + 1 \in T
      <3>1. PICK n : n = (a + l) + (k + 1)
        OBVIOUS
      <3>2. n \in a + l + 1 .. m /\ n \in 1 .. m /\ n - 1 = (a + l) + k
        BY <1>1, <1>2, <1>11, <2>2, <3>1
      <3>3. s[n] \in Skipped
        BY <1>1, <1>2, <3>2
      <3>4. r[n] = r[(a + l) + k]
        BY <1>5, <3>2, <3>3
      <3> QED BY <2>2, <3>1, <3>4
    <2> HIDE DEF T
    <2>3. \A k \in 0 .. e : k \in T
      BY <1>11, <2>1, <2>2, BoundedInduction
    <2>4. e \in 0 .. e
      BY <1>11
    <2> QED BY <2>3, <2>4 DEF T
  <1> QED BY <1>3, <1>4, <1>11, <1>12
(* How many numbers a count of hexadecimal digits can show.                *)
ShownTo(f, m) == f = [k \in 0 .. m |-> IF k = 0 THEN 1 ELSE 16 * f[k - 1]]

LEMMA SomeShown ==
    ASSUME NEW m \in Nat
    PROVE  \E f : ShownTo(f, m)
  <1> DEFINE T == {k \in Nat : \E f : ShownTo(f, k)}
  <1>1. 0 \in T
    <2>1. ShownTo([n \in 0 .. 0 |-> 1], 0)
      <3>1. \A n \in 0 .. 0 : n = 0
        OBVIOUS
      <3> QED BY <3>1 DEF ShownTo
    <2> QED BY <2>1
  <1>2. ASSUME NEW k \in Nat, k \in T PROVE k + 1 \in T
    <2>1. PICK f : ShownTo(f, k)
      BY <1>2
    <2> DEFINE Rule(g, n) == IF n = 0 THEN 1 ELSE 16 * g[n - 1]
               h == [n \in 0 .. k + 1 |-> IF n <= k THEN f[n] ELSE Rule(f, n)]
    <2>2. ASSUME NEW n \in 0 .. k + 1 PROVE h[n] = Rule(h, n)
      <3>1. n # 0 => n - 1 \in 0 .. k + 1 /\ n - 1 <= k
        OBVIOUS
      <3>2. n # 0 => h[n - 1] = f[n - 1]
        BY <3>1
      <3>3. Rule(h, n) = Rule(f, n)
        BY <3>2
      <3>4. ASSUME n <= k PROVE f[n] = Rule(f, n)
        <4>1. n \in 0 .. k
          BY <3>4
        <4> QED BY <2>1, <4>1 DEF ShownTo
      <3> QED BY <3>3, <3>4
    <2>3. h = [n \in 0 .. k + 1 |-> h[n]]
      OBVIOUS
    <2> HIDE DEF h
    <2>4. ShownTo(h, k + 1)
      BY <2>2, <2>3 DEF ShownTo
    <2> QED BY <2>4
  <1> HIDE DEF T
  <1>3. Nat \subseteq T
    BY <1>1, <1>2, SetInduction
  <1> QED BY <1>3 DEF T

(* ShownBy is the power of 16.                                             *)
LEMMA ShownAgain ==
    ASSUME NEW m \in Nat
    PROVE  /\ Writer!ShownBy(0) = 1
           /\ Writer!ShownBy(m) \in Nat \ {0}
           /\ Writer!ShownBy(m + 1) = 16 * Writer!ShownBy(m)
  <1>1. ASSUME NEW l \in Nat PROVE \E f : ShownTo(f, l) /\ Writer!ShownBy(l) = f[l]
    <2> DEFINE f == CHOOSE f : ShownTo(f, l)
    <2>1. ShownTo(f, l)
      BY SomeShown
    <2>2. Writer!ShownBy(l) = f[l]
      BY DEF Writer!ShownBy, ShownTo
    <2> QED BY <2>1, <2>2
  <1>2. Writer!ShownBy(0) = 1
    <2>1. PICK f : ShownTo(f, 0) /\ Writer!ShownBy(0) = f[0]
      BY <1>1
    <2>2. 0 \in 0 .. 0
      OBVIOUS
    <2>3. f[0] = 1
      BY <2>1, <2>2 DEF ShownTo
    <2> QED BY <2>1, <2>3
  <1>3. ASSUME NEW l \in Nat PROVE Writer!ShownBy(l + 1) = 16 * Writer!ShownBy(l)
    <2>1. PICK f : ShownTo(f, l) /\ Writer!ShownBy(l) = f[l]
      BY <1>1
    <2>2. PICK g : ShownTo(g, l + 1) /\ Writer!ShownBy(l + 1) = g[l + 1]
      BY <1>1
    <2>3. ASSUME NEW k \in 0 .. l
          PROVE  /\ f[k] = IF k = 0 THEN 1 ELSE 16 * f[k - 1]
                 /\ g[k] = IF k = 0 THEN 1 ELSE 16 * g[k - 1]
      <3>1. k \in 0 .. l + 1
        OBVIOUS
      <3>2. f[k] = IF k = 0 THEN 1 ELSE 16 * f[k - 1]
        BY <2>1, <2>3 DEF ShownTo
      <3>3. g[k] = IF k = 0 THEN 1 ELSE 16 * g[k - 1]
        BY <2>2, <3>1 DEF ShownTo
      <3> QED BY <3>2, <3>3
    <2> DEFINE T == {k \in Nat : f[k] = g[k]}
    <2>4. 0 \in T
      <3>1. 0 \in 0 .. l
        OBVIOUS
      <3> QED BY <2>3, <3>1
    <2>5. ASSUME NEW k \in Nat, k < l, k \in T PROVE k + 1 \in T
      <3>1. k + 1 \in 0 .. l /\ k + 1 # 0 /\ (k + 1) - 1 = k
        BY <2>5
      <3>2. f[k + 1] = 16 * f[k] /\ g[k + 1] = 16 * g[k]
        BY <2>3, <3>1
      <3> QED BY <2>5, <3>2
    <2> HIDE DEF T
    <2>6. \A k \in 0 .. l : k \in T
      BY <2>4, <2>5, BoundedInduction
    <2>7. f[l] = g[l]
      <3>1. l \in 0 .. l
        OBVIOUS
      <3> QED BY <2>6, <3>1 DEF T
    <2>8. g[l + 1] = 16 * g[l]
      <3>1. l + 1 \in 0 .. l + 1 /\ l + 1 # 0 /\ (l + 1) - 1 = l
        OBVIOUS
      <3> QED BY <2>2, <3>1 DEF ShownTo
    <2> QED BY <2>1, <2>2, <2>7, <2>8
  <1> DEFINE U == {l \in Nat : Writer!ShownBy(l) \in Nat \ {0}}
  <1>4. 0 \in U
    BY <1>2
  <1>5. ASSUME NEW l \in Nat, l \in U PROVE l + 1 \in U
    <2>1. PICK x : x = Writer!ShownBy(l)
      OBVIOUS
    <2>2. x \in Nat \ {0}
      BY <1>5, <2>1
    <2>3. 16 * x \in Nat \ {0}
      BY <2>2
    <2> QED BY <1>3, <2>1, <2>3
  <1> HIDE DEF U
  <1>6. Nat \subseteq U
    BY <1>4, <1>5, SetInduction
  <1>7. m \in U
    BY <1>6
  <1> QED BY <1>2, <1>3, <1>7 DEF U

(* A number that some digits can show has no more of them.                 *)
LEMMA HexFits ==
    ASSUME NEW m \in Nat, NEW n \in Nat, n < Writer!ShownBy(m + 1)
    PROVE  Len(Writer!Digits(n, 16)) <= m + 1
  <1> DEFINE T == {k \in Nat : \A x \in Nat :
                      x < Writer!ShownBy(k + 1) => Len(Writer!Digits(x, 16)) <= k + 1}
  <1>1. ASSUME NEW x \in Nat
        PROVE  /\ x < 16 => Len(Writer!Digits(x, 16)) = 1
               /\ x >= 16 => Len(Writer!Digits(x, 16)) = Len(Writer!Digits(x \div 16, 16)) + 1
    BY DigitsType
  <1>2. 0 \in T
    <2>1. Writer!ShownBy(0 + 1) = 16
      <3>1. Writer!ShownBy(0 + 1) = 16 * Writer!ShownBy(0) /\ Writer!ShownBy(0) = 1
        BY ShownAgain
      <3> QED BY <3>1
    <2>2. ASSUME NEW x \in Nat, x < 16 PROVE Len(Writer!Digits(x, 16)) <= 0 + 1
      <3>1. PICK z : z = Len(Writer!Digits(x, 16))
        OBVIOUS
      <3>2. z = 1
        BY <1>1, <2>2, <3>1
      <3>3. z <= 0 + 1
        BY <3>2
      <3> QED BY <3>1, <3>3
    <2> QED BY <2>1, <2>2
  <1>3. ASSUME NEW k \in Nat, k \in T PROVE k + 1 \in T
    <2>1. PICK p : p = Writer!ShownBy(k + 1)
      OBVIOUS
    <2>2. p \in Nat /\ Writer!ShownBy((k + 1) + 1) = 16 * p
      BY <2>1, ShownAgain
    <2>3. ASSUME NEW x \in Nat, x < 16 * p PROVE Len(Writer!Digits(x, 16)) <= (k + 1) + 1
      <3>1. CASE x < 16
        <4>1. PICK z : z = Len(Writer!Digits(x, 16))
          OBVIOUS
        <4>2. z = 1
          BY <1>1, <3>1, <4>1
        <4>3. z <= (k + 1) + 1
          BY <4>2
        <4> QED BY <4>1, <4>3
      <3>2. CASE x >= 16
        <4>1. PICK y : y = x \div 16
          OBVIOUS
        <4>2. y \in Nat /\ y < p
          BY <2>2, <2>3, <4>1
        <4>3. Len(Writer!Digits(y, 16)) <= k + 1
          BY <1>3, <2>1, <4>2
        <4>4. Len(Writer!Digits(y, 16)) \in Nat
          BY <4>2, DigitsType
        <4>5. Len(Writer!Digits(x, 16)) = Len(Writer!Digits(y, 16)) + 1
          BY <1>1, <3>2, <4>1
        <4> QED BY <4>3, <4>4, <4>5
      <3> QED BY <3>1, <3>2
    <2> QED BY <2>2, <2>3
  <1> HIDE DEF T
  <1>4. Nat \subseteq T
    BY <1>2, <1>3, SetInduction
  <1>5. m \in T
    BY <1>4
  <1> QED BY <1>5 DEF T

(* The numbers of a type, and the digits they have.                        *)
LEMMA TypeNumbers ==
    ASSUME Writer!FormatAssumption, NEW T \in Types
    PROVE  /\ T.least \in Int /\ T.least <= 0 /\ T.greatest \in Nat
           /\ T.least < 0 \/ T.greatest > 0
           /\ T.size \in Nat \ {0}
           /\ Writer!Possible(T) \in Nat \ {0}
           /\ \A v \in Writer!NumbersOf(T) : v \in Int /\ T.least <= v /\ v <= T.greatest
  <1>1. /\ T.least \in Int /\ T.least <= 0 /\ T.greatest \in Nat
        /\ T.size \in Nat \ {0} /\ Writer!Possible(T) = Writer!ShownBy(2 * T.size)
        /\ Numbers \subseteq Int
    BY DEF Writer!FormatAssumption
  <1>2. PICK k : k = (2 * T.size) - 1 /\ k \in Nat /\ 2 * T.size = k + 1
    BY <1>1
  <1>3. PICK x : x = Writer!ShownBy(k) /\ x \in Nat \ {0}
    BY <1>2, ShownAgain
  <1>4. Writer!Possible(T) = 16 * x
    BY <1>1, <1>2, <1>3, ShownAgain
  <1>5. T.least < 0 \/ T.greatest > 0
    <2>1. PICK l, g : l = T.least /\ g = T.greatest
      OBVIOUS
    <2>2. g - l + 1 = 16 * x
      BY <1>4, <2>1 DEF Writer!Possible
    <2>3. l < 0 \/ g > 0
      BY <1>1, <1>3, <2>1, <2>2
    <2> QED BY <2>1, <2>3
  <1>6. 16 * x \in Nat \ {0}
    BY <1>3
  <1>7. \A v \in Writer!NumbersOf(T) : v \in Int /\ T.least <= v /\ v <= T.greatest
    BY <1>1 DEF Writer!NumbersOf
  <1> QED BY <1>1, <1>4, <1>5, <1>6, <1>7

(* The digits of a number fit the buffer, with the sign of a negative one. *)
LEMMA DecimalFits ==
    ASSUME Writer!FormatAssumption, NEW T \in Types, NEW v \in Writer!NumbersOf(T)
    PROVE  /\ v >= 0 => Len(Writer!Digits(v, 10)) <= Writer!BufferSize(T)
           /\ v < 0 => Len(Writer!Digits(-v, 10)) + 1 <= Writer!BufferSize(T)
  <1>1. PICK l, g : l = T.least /\ g = T.greatest
    OBVIOUS
  <1>2. l \in Int /\ l <= 0 /\ g \in Nat /\ (l < 0 \/ g > 0) /\ v \in Int /\ l <= v /\ v <= g
    BY <1>1, TypeNumbers
  <1> DEFINE long == Len(Writer!Digits(g, 10))
             short == Len(Writer!Digits(-l, 10))
  <1>3. -l \in Nat
    BY <1>2
  <1>4. long \in Nat \ {0} /\ short \in Nat \ {0}
    BY <1>2, <1>3, DigitsType
  <1> HIDE DEF long, short
  <1>5. Writer!DigitsCount(l) = (IF l = 0 THEN 0 ELSE short)
    <2>1. CASE l = 0
      BY <2>1 DEF Writer!DigitsCount
    <2>2. CASE l # 0
      <3>1. l < 0
        BY <1>2, <2>2
      <3> QED BY <2>2, <3>1 DEF Writer!DigitsCount, short
    <2> QED BY <2>1, <2>2
  <1>6. Writer!DigitsCount(g) = (IF g = 0 THEN 0 ELSE long)
    <2>1. CASE g = 0
      BY <2>1 DEF Writer!DigitsCount
    <2>2. CASE g # 0
      <3>1. ~(g < 0)
        BY <1>2
      <3> QED BY <2>2, <3>1 DEF Writer!DigitsCount, long
    <2> QED BY <2>1, <2>2
  <1>7. PICK most : most = Writer!MaxDigitsCount(T)
    OBVIOUS
  <1>8. most = IF (IF l = 0 THEN 0 ELSE short) < (IF g = 0 THEN 0 ELSE long)
               THEN IF g = 0 THEN 0 ELSE long ELSE IF l = 0 THEN 0 ELSE short
    BY <1>1, <1>5, <1>6, <1>7 DEF Writer!MaxDigitsCount
  <1>9. /\ most \in Nat \ {0}
        /\ g # 0 => long <= most
        /\ l # 0 => short <= most
    BY <1>2, <1>4, <1>8
  <1>10. Writer!BufferSize(T) = most + (IF l < 0 THEN 1 ELSE 0)
    BY <1>1, <1>7 DEF Writer!BufferSize
  <1>11. ASSUME v >= 0 PROVE Len(Writer!Digits(v, 10)) <= most
    <2>1. v \in Nat /\ v \in 0 .. g
      BY <1>2, <1>11
    <2>2. Len(Writer!Digits(v, 10)) <= long
      BY <1>2, <2>1, DigitsGrow DEF long
    <2>3. Len(Writer!Digits(v, 10)) \in Nat /\ (v < 10 => Len(Writer!Digits(v, 10)) = 1)
      BY <2>1, DigitsType
    <2>4. g = 0 => v < 10
      BY <2>1
    <2>5. PICK z : z = Len(Writer!Digits(v, 10))
      OBVIOUS
    <2>6. z \in Nat /\ z <= long /\ (g = 0 => z = 1)
      BY <2>2, <2>3, <2>4, <2>5
    <2>7. z <= most
      BY <1>4, <1>9, <2>6
    <2> QED BY <2>5, <2>7
  <1>12. ASSUME v < 0 PROVE Len(Writer!Digits(-v, 10)) <= most /\ l < 0
    <2>1. -v \in Nat /\ -v \in 0 .. -l /\ l < 0 /\ l # 0
      BY <1>2, <1>12
    <2>2. Len(Writer!Digits(-v, 10)) <= short
      BY <1>3, <2>1, DigitsGrow DEF short
    <2>3. Len(Writer!Digits(-v, 10)) \in Nat
      BY <2>1, DigitsType
    <2> QED BY <1>4, <1>9, <2>1, <2>2, <2>3
  <1>13. v >= 0 => Len(Writer!Digits(v, 10)) \in Nat
    <2>1. v >= 0 => v \in Nat
      BY <1>2
    <2> QED BY <2>1, DigitsType
  <1>14. v < 0 => Len(Writer!Digits(-v, 10)) \in Nat
    <2>1. v < 0 => -v \in Nat
      BY <1>2
    <2> QED BY <2>1, DigitsType
  <1>15. v >= 0 => Len(Writer!Digits(v, 10)) <= most + (IF l < 0 THEN 1 ELSE 0)
    BY <1>2, <1>9, <1>11, <1>13
  <1>16. v < 0 => Len(Writer!Digits(-v, 10)) + 1 <= most + (IF l < 0 THEN 1 ELSE 0)
    BY <1>2, <1>9, <1>12, <1>14
  <1> QED BY <1>10, <1>15, <1>16
(* A text that is fill, then characters, then fill.                        *)
Field(t, c, a) ==
    /\ t \in Seq(Int) /\ a \in Nat /\ a + Len(c) <= Len(t)
    /\ \A n \in 1 .. a : t[n] = Writer!Fill
    /\ \A k \in 1 .. Len(c) : t[a + k] = c[k]
    /\ \A n \in a + Len(c) + 1 .. Len(t) : t[n] = Writer!Fill

(* A field as it is written.                                               *)
LEMMA FieldWritten ==
    ASSUME fillWidth \in Nat, adjust \in {"Left", "Right", "Internal"}, NEW c \in Seq(Int),
           Writer!WriteField(c)
    PROVE  /\ \E a \in Nat : Field(text', c, a)
           /\ Len(text') = IF Len(c) < fillWidth THEN fillWidth ELSE Len(c)
           /\ fillWidth' \in Nat /\ adjust' = adjust
  <1>1. PICK l : l = Len(c) /\ l \in Nat
    BY LenProperties
  <1>2. PICK p : p = (IF l < fillWidth THEN fillWidth - l ELSE 0) /\ p \in Nat
    BY <1>1
  <1>3. PICK pad : pad = [i \in 1 .. p |-> Writer!Fill]
    OBVIOUS
  <1>4. /\ pad \in Seq(Int) /\ Len(pad) = p /\ \A i \in 1 .. p : pad[i] = Writer!Fill
        /\ <<>> \in Seq(Int) /\ Len(<<>>) = 0
    BY <1>2, <1>3 DEF Writer!Fill
  <1>5. Writer!Padding(l) = pad
    <2>1. CASE l < fillWidth
      BY <1>2, <1>3, <2>1 DEF Writer!Padding, Writer!Filler
    <2>2. CASE ~(l < fillWidth)
      <3>1. p = 0 /\ Writer!Padding(l) = <<>>
        BY <1>2, <2>2 DEF Writer!Padding
      <3>2. pad = <<>>
        BY <1>3, <3>1
      <3> QED BY <3>1, <3>2
    <2> QED BY <2>1, <2>2
  <1>6. PICK b : b = Writer!FieldBegin(l)
    OBVIOUS
  <1>7. PICK e : e = Writer!FieldEnd(l)
    OBVIOUS
  <1>8. (b = pad /\ e = <<>>) \/ (b = <<>> /\ e = pad)
    BY <1>5, <1>6, <1>7 DEF Writer!FieldBegin, Writer!FieldEnd
  <1>9. PICK a : a = Len(b) /\ a \in Nat
    BY <1>4, <1>8, LenProperties
  <1>10. PICK z : z = Len(e) /\ z \in Nat
    BY <1>4, <1>8, LenProperties
  <1>11. a + z = p
    BY <1>2, <1>4, <1>8, <1>9, <1>10
  <1>12. /\ b \in Seq(Int) /\ e \in Seq(Int)
         /\ \A i \in 1 .. a : b[i] = Writer!Fill
         /\ \A i \in 1 .. z : e[i] = Writer!Fill
    <2>1. CASE b = pad /\ e = <<>>
      <3>1. a = p /\ z = 0
        BY <1>4, <1>9, <1>10, <2>1
      <3> QED BY <1>4, <2>1, <3>1
    <2>2. CASE b = <<>> /\ e = pad
      <3>1. a = 0 /\ z = p
        BY <1>4, <1>9, <1>10, <2>2
      <3> QED BY <1>4, <2>2, <3>1
    <2> QED BY <1>8, <2>1, <2>2
  <1>13. text' = (b \o c) \o e /\ fillWidth' = 0 /\ adjust' = adjust
    BY <1>1, <1>6, <1>7 DEF Writer!WriteField
  <1>14. PICK f : f = b \o c
    OBVIOUS
  <1>15. /\ f \in Seq(Int) /\ Len(f) = a + l
         /\ \A i \in 1 .. a + l : f[i] = IF i <= a THEN b[i] ELSE c[i - a]
    BY <1>1, <1>9, <1>12, <1>14, ConcatProperties
  <1>16. PICK t : t = text'
    OBVIOUS
  <1>17. /\ t \in Seq(Int) /\ Len(t) = (a + l) + z
         /\ \A i \in 1 .. (a + l) + z : t[i] = IF i <= a + l THEN f[i] ELSE e[i - (a + l)]
    <2>1. t = f \o e
      BY <1>13, <1>14, <1>16
    <2>2. PICK x : x = a + l
      OBVIOUS
    <2>3. Len(f) = x /\ f \in Seq(Int) /\ e \in Seq(Int)
      BY <1>12, <1>15, <2>2
    <2>4. /\ t \in Seq(Int) /\ Len(t) = x + z
          /\ \A i \in 1 .. x + z : t[i] = IF i <= x THEN f[i] ELSE e[i - x]
      BY <1>10, <2>1, <2>3, ConcatProperties
    <2> QED BY <2>2, <2>4
  <1>18. ASSUME NEW n \in 1 .. a PROVE t[n] = Writer!Fill
    <2>1. n \in 1 .. a + l /\ n \in 1 .. (a + l) + z /\ n <= a /\ n <= a + l
      BY <1>1, <1>9, <1>10
    <2> QED BY <1>12, <1>15, <1>17, <2>1
  <1>19. ASSUME NEW k \in 1 .. l PROVE t[a + k] = c[k]
    <2>1. PICK n : n = a + k
      OBVIOUS
    <2>2. n \in 1 .. a + l /\ n \in 1 .. (a + l) + z /\ ~(n <= a) /\ n <= a + l /\ n - a = k
      BY <1>1, <1>9, <1>10, <2>1
    <2>3. t[n] = c[k]
      BY <1>15, <1>17, <2>2
    <2> QED BY <2>1, <2>3
  <1>20. ASSUME NEW n \in (a + l) + 1 .. (a + l) + z PROVE t[n] = Writer!Fill
    <2>1. n \in 1 .. (a + l) + z /\ ~(n <= a + l) /\ n - (a + l) \in 1 .. z
      BY <1>1, <1>9, <1>10
    <2> QED BY <1>12, <1>17, <2>1
  <1>21. Field(t, c, a)
    <2>1. a + l <= Len(t)
      BY <1>1, <1>9, <1>10, <1>17
    <2> QED BY <1>1, <1>9, <1>17, <1>18, <1>19, <1>20, <2>1 DEF Field
  <1>22. (a + l) + z = IF l < fillWidth THEN fillWidth ELSE l
    BY <1>1, <1>2, <1>9, <1>10, <1>11
  <1> QED BY <1>1, <1>9, <1>13, <1>16, <1>17, <1>21, <1>22

(* What is shown of a field.                                               *)
LEMMA FieldShown ==
    ASSUME NEW t, NEW c \in Seq(Int), NEW a, Field(t, c, a),
           \A k \in 1 .. Len(c) : c[k] # Writer!Fill
    PROVE  /\ Writer!Shown(t) = a + 1 .. a + Len(c)
           /\ Cardinality(Writer!Shown(t)) = Len(c)
           /\ \A n \in Writer!Shown(t) : n - a \in 1 .. Len(c) /\ t[n] = c[n - a]
  <1>1. PICK l : l = Len(c) /\ l \in Nat
    BY LenProperties
  <1>2. PICK m : m = Len(t) /\ m \in Nat
    BY LenProperties DEF Field
  <1>3. a \in Nat /\ a + l <= m /\ DOMAIN t = 1 .. m
    BY <1>1, <1>2, LenProperties DEF Field
  <1>4. ASSUME NEW n \in a + 1 .. a + l PROVE n \in 1 .. m /\ n - a \in 1 .. l /\ t[n] = c[n - a]
    <2>1. PICK k : k = n - a
      OBVIOUS
    <2>2. k \in 1 .. l /\ n = a + k /\ n \in 1 .. m
      BY <1>1, <1>2, <1>3, <2>1
    <2>3. t[a + k] = c[k]
      BY <1>1, <2>2 DEF Field
    <2> QED BY <2>1, <2>2, <2>3
  <1>5. ASSUME NEW n \in 1 .. m, n \notin a + 1 .. a + l PROVE t[n] = Writer!Fill
    <2>1. n \in 1 .. a \/ n \in a + l + 1 .. m
      BY <1>1, <1>2, <1>3, <1>5
    <2> QED BY <1>1, <1>2, <2>1 DEF Field
  <1>6. Writer!Shown(t) = a + 1 .. a + l
    <2>1. Writer!Shown(t) = {n \in 1 .. m : t[n] # Writer!Fill}
      BY <1>3 DEF Writer!Shown
    <2>2. \A n \in a + 1 .. a + l : t[n] # Writer!Fill
      BY <1>1, <1>4
    <2> QED BY <1>4, <1>5, <2>1, <2>2
  <1>7. Cardinality(a + 1 .. a + l) = l
    <2>1. PICK x : x = a + 1
      OBVIOUS
    <2>2. PICK y : y = a + l
      OBVIOUS
    <2>3. x \in Int /\ y \in Int /\ (IF x > y THEN 0 ELSE y - x + 1) = l
      BY <1>1, <1>3, <2>1, <2>2
    <2>4. Cardinality(x .. y) = IF x > y THEN 0 ELSE y - x + 1
      BY <2>3, FS_Interval
    <2> QED BY <2>1, <2>2, <2>3, <2>4
  <1> QED BY <1>1, <1>4, <1>6, <1>7

(* What a text needs to read back.                                         *)
ReadsAs(t, k, v, w, b) ==
    /\ v = IF k = "text" THEN Cardinality(Writer!Shown(t))
           ELSE IF Writer!Signs(t) = {} THEN Writer!NumberIn(t, IF k = "hex" THEN 16 ELSE 10)
                ELSE -Writer!NumberIn(t, IF k = "hex" THEN 16 ELSE 10)
    /\ \A n \in Writer!Signs(t), m \in Writer!Shown(t) : k = "decimal" /\ n <= m
    /\ Len(t) = IF Cardinality(Writer!Shown(t)) < w THEN w ELSE Cardinality(Writer!Shown(t))
    /\ Cardinality(Writer!Shown(t)) <= b

(* The instance counts as this module does.                                *)
LEMMA SameSize ==
    ASSUME NEW S
    PROVE  Writer!Cardinality(S) = Cardinality(S)
  BY DEF Writer!Cardinality, Cardinality

(* The property, of a text and a request that are given.                   *)
LEMMA ReadsBack ==
    Writer!NumbersReadBack <=> ReadsAs(text, asked.kind, asked.value, asked.width, asked.buffer)
  <1>1. Writer!Cardinality(Writer!Shown(text)) = Cardinality(Writer!Shown(text))
    BY SameSize
  <1>2. Writer!ReadBack(asked.kind) =
          IF asked.kind = "text" THEN Cardinality(Writer!Shown(text))
          ELSE IF Writer!Signs(text) = {} THEN Writer!NumberIn(text, IF asked.kind = "hex" THEN 16 ELSE 10)
               ELSE -Writer!NumberIn(text, IF asked.kind = "hex" THEN 16 ELSE 10)
    BY <1>1 DEF Writer!ReadBack
  <1> QED BY <1>1, <1>2 DEF Writer!NumbersReadBack, ReadsAs

LEMMA ReadsBackNext ==
    ASSUME NEW k, NEW v, NEW w, NEW b, NEW t, text' = t,
           asked' = [kind |-> k, value |-> v, width |-> w, buffer |-> b],
           ReadsAs(t, k, v, w, b)
    PROVE  Writer!NumbersReadBack'
  <1>1. asked'.kind = k /\ asked'.value = v /\ asked'.width = w /\ asked'.buffer = b
    OBVIOUS
  <1>2. Writer!Cardinality(Writer!Shown(t)) = Cardinality(Writer!Shown(t))
    BY SameSize
  <1>3. Writer!ReadBack(asked.kind)' = v
    BY <1>1, <1>2 DEF Writer!ReadBack, ReadsAs
  <1> QED BY <1>1, <1>2, <1>3 DEF Writer!NumbersReadBack, ReadsAs
(* Digits after zeros.                                                     *)
ZeroDigits(e, n, base) == [i \in 1 .. e |-> 0] \o Writer!Digits(n, base)

(* A number whose digits, after zeros, stand in a field with no sign.      *)
LEMMA UnsignedReads ==
    ASSUME NEW base \in {10, 16}, NEW n \in Nat, NEW e \in Nat, NEW c, NEW t, NEW a,
           c = ZeroDigits(e, n, base), Field(t, c, a)
    PROVE  /\ Writer!Signs(t) = {}
           /\ Writer!NumberIn(t, base) = n
           /\ Len(c) = e + Len(Writer!Digits(n, base))
           /\ Cardinality(Writer!Shown(t)) = Len(c)
  <1>1. PICK d : d = Writer!Digits(n, base)
    OBVIOUS
  <1>2. d \in Seq(0 .. base - 1)
    BY <1>1, DigitsType
  <1>3. PICK l : l = Len(d) /\ l \in Nat
    BY <1>2, LenProperties
  <1>4. \A k \in 1 .. l : d[k] \in 0 .. base - 1
    BY <1>2, <1>3, ElementOfSeq
  <1>5. d \in Seq(Int)
    BY <1>1, DigitsInt
  <1>6. PICK o : o = [i \in 1 .. e |-> 0]
    OBVIOUS
  <1>7. o \in Seq(Int) /\ Len(o) = e /\ \A i \in 1 .. e : o[i] = 0
    BY <1>6
  <1>8. /\ c \in Seq(Int) /\ Len(c) = e + l
        /\ \A i \in 1 .. e + l : c[i] = IF i <= e THEN o[i] ELSE d[i - e]
    BY <1>1, <1>3, <1>5, <1>6, <1>7, ConcatProperties DEF ZeroDigits
  <1>9. \A k \in 1 .. e + l : c[k] \in 0 .. base - 1
    <2>1. ASSUME NEW k \in 1 .. e + l PROVE c[k] \in 0 .. base - 1
      <3>1. CASE k <= e
        <4>1. k \in 1 .. e
          BY <1>3, <3>1
        <4> QED BY <1>7, <1>8, <3>1, <4>1
      <3>2. CASE ~(k <= e)
        <4>1. k - e \in 1 .. l
          BY <1>3, <3>2
        <4> QED BY <1>4, <1>8, <3>2, <4>1
      <3> QED BY <3>1, <3>2
    <2> QED BY <2>1
  <1>10. \A x \in 0 .. base - 1 : x \notin Skipped /\ x # Writer!Fill /\ x # Writer!Minus
    BY DEF Skipped, Writer!Fill, Writer!Minus
  <1>11. \A k \in 1 .. Len(c) : c[k] # Writer!Fill /\ c[k] # Writer!Minus
    BY <1>8, <1>9, <1>10
  <1>12. /\ Cardinality(Writer!Shown(t)) = Len(c)
         /\ \A m \in Writer!Shown(t) : m - a \in 1 .. Len(c) /\ t[m] = c[m - a]
    <2>1. \A k \in 1 .. Len(c) : c[k] # Writer!Fill
      BY <1>11
    <2>2. c \in Seq(Int)
      BY <1>8
    <2>3. Field(t, c, a)
      OBVIOUS
    <2>4. PICK y : y = c
      OBVIOUS
    <2>5. Field(t, y, a) /\ y \in Seq(Int) /\ \A k \in 1 .. Len(y) : y[k] # Writer!Fill
      BY <2>1, <2>2, <2>3, <2>4, Zenon
    <2>6. /\ Cardinality(Writer!Shown(t)) = Len(y)
          /\ \A m \in Writer!Shown(t) : m - a \in 1 .. Len(y) /\ t[m] = y[m - a]
      BY <2>5, FieldShown
    <2> QED BY <2>4, <2>6
  <1>13. Writer!Signs(t) = {}
    BY <1>11, <1>12 DEF Writer!Signs
  <1>14. PICK f : f = a + e
    OBVIOUS
  <1>15. PICK m : m = Len(t) /\ m \in Nat
    BY LenProperties DEF Field
  <1>16. /\ t \in Seq(Int) /\ a \in Nat /\ f \in Nat /\ a + (e + l) <= m /\ f + l <= m
         /\ f + l = a + (e + l)
    BY <1>3, <1>8, <1>14, <1>15 DEF Field
  <1>17. ASSUME NEW x \in 1 .. f PROVE t[x] \in Skipped \/ t[x] = 0
    <2>1. CASE x <= a
      <3>1. x \in 1 .. a
        BY <1>16, <2>1
      <3> QED BY <3>1 DEF Field, Skipped
    <2>2. CASE ~(x <= a)
      <3>1. PICK k : k = x - a
        OBVIOUS
      <3>2. k \in 1 .. e /\ k \in 1 .. e + l /\ k <= e /\ x = a + k
        BY <1>3, <1>14, <1>16, <2>2, <3>1
      <3>3. t[a + k] = c[k]
        BY <1>8, <3>2 DEF Field
      <3> QED BY <1>7, <1>8, <3>2, <3>3
    <2> QED BY <2>1, <2>2
  <1>18. ASSUME NEW k \in 1 .. l PROVE t[f + k] = d[k]
    <2>1. PICK x : x = e + k
      OBVIOUS
    <2>2. x \in 1 .. e + l /\ ~(x <= e) /\ x - e = k /\ f + k = a + x
      BY <1>3, <1>14, <1>16, <2>1
    <2>3. t[a + x] = c[x]
      BY <1>8, <2>2 DEF Field
    <2> QED BY <1>8, <2>2, <2>3
  <1>19. ASSUME NEW x \in f + l + 1 .. m PROVE t[x] \in Skipped
    <2>1. x \in a + (e + l) + 1 .. m
      BY <1>3, <1>16
    <2> QED BY <1>8, <1>15, <2>1 DEF Field, Skipped
  <1>20. Writer!NumberIn(t, base) = Writer!NumberIn(d, base)
    BY <1>3, <1>5, <1>15, <1>16, <1>17, <1>18, <1>19, ReadsThrough
  <1>21. Writer!NumberIn(d, base) = n
    BY <1>1, DigitsRead
  <1> QED BY <1>1, <1>3, <1>8, <1>12, <1>13, <1>20, <1>21

(* Digits that come after a sign, with fill between and around.            *)
SignedField(t, d, a, b) ==
    /\ t \in Seq(Int) /\ a + b + Len(d) + 1 <= Len(t)
    /\ t[a + 1] = Writer!Minus
    /\ \A x \in 1 .. a : t[x] = Writer!Fill
    /\ \A x \in a + 2 .. a + b + 1 : t[x] = Writer!Fill
    /\ \A k \in 1 .. Len(d) : t[a + b + 1 + k] = d[k]
    /\ \A x \in a + b + 1 + Len(d) + 1 .. Len(t) : t[x] = Writer!Fill

LEMMA SignedReads ==
    ASSUME NEW n \in Nat, NEW t, NEW a \in Nat, NEW b \in Nat, NEW d,
           d = Writer!Digits(n, 10), SignedField(t, d, a, b)
    PROVE  /\ Writer!Signs(t) = {a + 1}
           /\ \A m \in Writer!Shown(t) : a + 1 <= m
           /\ Writer!NumberIn(t, 10) = n
           /\ Cardinality(Writer!Shown(t)) = Len(d) + 1
  <1>0. /\ t \in Seq(Int) /\ a + b + Len(d) + 1 <= Len(t)
        /\ t[a + 1] = Writer!Minus
        /\ \A x \in 1 .. a : t[x] = Writer!Fill
        /\ \A x \in a + 2 .. a + b + 1 : t[x] = Writer!Fill
        /\ \A k \in 1 .. Len(d) : t[a + b + 1 + k] = d[k]
        /\ \A x \in a + b + 1 + Len(d) + 1 .. Len(t) : t[x] = Writer!Fill
    BY DEF SignedField
  <1>1. d \in Seq(0 .. 10 - 1)
    BY DigitsType
  <1>2. PICK l : l = Len(d) /\ l \in Nat
    BY <1>1, LenProperties
  <1>3. \A k \in 1 .. l : d[k] \in 0 .. 9
    <2>1. \A k \in 1 .. l : d[k] \in 0 .. 10 - 1
      BY <1>1, <1>2, ElementOfSeq
    <2> QED BY <2>1
  <1>4. d \in Seq(Int)
    BY DigitsInt
  <1>5. PICK m : m = Len(t) /\ m \in Nat
    BY <1>0, LenProperties
  <1>6. PICK f : f = a + b + 1 /\ f \in Nat
    OBVIOUS
  <1>7. f + l <= m /\ a + 1 <= f /\ a + 1 \in 1 .. f /\ DOMAIN t = 1 .. m
    BY <1>0, <1>2, <1>5, <1>6, LenProperties
  <1>8. ASSUME NEW x \in 1 .. f, x # a + 1 PROVE t[x] = Writer!Fill
    <2>1. x \in 1 .. a \/ x \in a + 2 .. a + b + 1
      BY <1>6, <1>8
    <2> QED BY <1>0, <2>1
  <1>9. ASSUME NEW k \in 1 .. l PROVE t[f + k] = d[k]
    BY <1>0, <1>2, <1>6
  <1>10. ASSUME NEW x \in f + l + 1 .. m PROVE t[x] = Writer!Fill
    BY <1>0, <1>2, <1>5, <1>6
  <1>11. ASSUME NEW x \in f + 1 .. f + l PROVE t[x] \in 0 .. 9 /\ x \in 1 .. m /\ a + 1 < x
    <2>1. PICK k : k = x - f
      OBVIOUS
    <2>2. k \in 1 .. l /\ x = f + k /\ x \in 1 .. m /\ a + 1 < x
      BY <1>2, <1>5, <1>6, <1>7, <2>1
    <2>3. t[f + k] = d[k]
      BY <1>9, <2>2
    <2> QED BY <1>3, <2>2, <2>3
  <1>12. \A x \in 0 .. 9 : x # Writer!Fill /\ x # Writer!Minus
    BY DEF Writer!Fill, Writer!Minus
  <1>13. Writer!Minus # Writer!Fill
    BY DEF Writer!Fill, Writer!Minus
  <1>14. Writer!Shown(t) = (f + 1 .. f + l) \cup {a + 1}
    <2>1. Writer!Shown(t) = {x \in 1 .. m : t[x] # Writer!Fill}
      BY <1>7 DEF Writer!Shown
    <2>2. ASSUME NEW x \in 1 .. m
          PROVE  x \in 1 .. f \/ x \in f + 1 .. f + l \/ x \in f + l + 1 .. m
      BY <1>2, <1>5, <1>6
    <2>3. a + 1 \in 1 .. m
      BY <1>2, <1>5, <1>6, <1>7
    <2>4. ASSUME NEW x \in 1 .. m
          PROVE  t[x] # Writer!Fill <=> x \in f + 1 .. f + l \/ x = a + 1
      <3>1. CASE x = a + 1
        BY <1>0, <1>13, <3>1
      <3>2. CASE x # a + 1 /\ x \in f + 1 .. f + l
        BY <1>11, <1>12, <3>2
      <3>3. CASE x # a + 1 /\ x \notin f + 1 .. f + l
        BY <1>8, <1>10, <2>2, <3>3
      <3> QED BY <3>1, <3>2, <3>3
    <2>5. \A x \in f + 1 .. f + l : x \in 1 .. m
      BY <1>11
    <2> QED BY <2>1, <2>3, <2>4, <2>5
  <1>15. Writer!Signs(t) = {a + 1}
    BY <1>0, <1>11, <1>12, <1>14 DEF Writer!Signs
  <1>16. \A x \in Writer!Shown(t) : a + 1 <= x
    <2>1. a + 1 <= a + 1
      OBVIOUS
    <2>2. \A x \in f + 1 .. f + l : a + 1 <= x
      BY <1>11
    <2> QED BY <1>14, <2>1, <2>2
  <1>17. Cardinality(Writer!Shown(t)) = l + 1
    <2>1. PICK x : x = f + 1
      OBVIOUS
    <2>2. PICK y : y = f + l
      OBVIOUS
    <2>3. x \in Int /\ y \in Int /\ (IF x > y THEN 0 ELSE y - x + 1) = l
      BY <1>2, <1>6, <2>1, <2>2
    <2>4. IsFiniteSet(x .. y) /\ Cardinality(x .. y) = l
      <3>1. IsFiniteSet(x .. y) /\ Cardinality(x .. y) = IF x > y THEN 0 ELSE y - x + 1
        BY <2>3, FS_Interval
      <3> QED BY <2>3, <3>1
    <2>5. a + 1 \notin x .. y
      BY <1>6, <1>7, <2>1, <2>2
    <2>6. Cardinality((x .. y) \cup {a + 1}) = l + 1
      BY <2>4, <2>5, FS_AddElement
    <2> QED BY <1>14, <2>1, <2>2, <2>6
  <1>18. \A x \in 1 .. f : t[x] \in Skipped \/ t[x] = 0
    BY <1>0, <1>8 DEF Skipped
  <1>19. \A x \in f + l + 1 .. m : t[x] \in Skipped
    BY <1>10 DEF Skipped
  <1>20. Writer!NumberIn(t, 10) = Writer!NumberIn(d, 10)
    BY <1>0, <1>2, <1>4, <1>5, <1>6, <1>7, <1>9, <1>18, <1>19, ReadsThrough
  <1>21. Writer!NumberIn(d, 10) = n
    BY DigitsRead
  <1> QED BY <1>2, <1>15, <1>16, <1>17, <1>20, <1>21
(* The states of the writers.                                              *)
WriterInv ==
    /\ fillWidth \in Nat
    /\ adjust \in {"Left", "Right", "Internal"}
    /\ Writer!NumbersReadBack

(* The stream starts with nothing written.                                 *)
LEMMA WriterInit ==
    ASSUME Writer!Init PROVE WriterInv
  <1>1. text = <<>> /\ fillWidth = 0 /\ adjust = "Right"
    BY DEF Writer!Init
  <1>2. asked.kind = "text" /\ asked.value = 0 /\ asked.width = 0 /\ asked.buffer = 0
    BY DEF Writer!Init
  <1>3. Writer!Shown(<<>>) = {} /\ Writer!Signs(<<>>) = {}
    BY DEF Writer!Shown, Writer!Signs
  <1>4. Cardinality(Writer!Shown(<<>>)) = 0
    BY <1>3, FS_EmptySet
  <1>5. ReadsAs(<<>>, "text", 0, 0, 0)
    BY <1>3, <1>4 DEF ReadsAs
  <1>6. Writer!NumbersReadBack
    BY <1>1, <1>2, <1>5, ReadsBack
  <1> QED BY <1>1, <1>6 DEF WriterInv

(* A text is as wide as asked, and has no sign.                            *)
LEMMA TextReads ==
    ASSUME WriterInv, NEW l \in Nat, Writer!WriteText(l)
    PROVE  WriterInv'
  <1>1. PICK c : c = [i \in 1 .. l |-> Writer!Letter]
    OBVIOUS
  <1>2. c \in Seq(Int) /\ Len(c) = l /\ \A k \in 1 .. l : c[k] = Writer!Letter
    BY <1>1 DEF Writer!Letter
  <1>3. Writer!WriteField(c)
    BY <1>1 DEF Writer!WriteText
  <1>4. PICK a \in Nat : Field(text', c, a)
    BY <1>2, <1>3, FieldWritten DEF WriterInv
  <1>5. /\ Len(text') = (IF Len(c) < fillWidth THEN fillWidth ELSE Len(c))
        /\ fillWidth' \in Nat /\ adjust' = adjust
    BY <1>2, <1>3, FieldWritten DEF WriterInv
  <1>6. PICK t : t = text'
    OBVIOUS
  <1>7. Writer!Letter # Writer!Fill /\ Writer!Letter # Writer!Minus
    BY DEF Writer!Letter, Writer!Fill, Writer!Minus
  <1>8. /\ Cardinality(Writer!Shown(t)) = Len(c)
        /\ \A n \in Writer!Shown(t) : n - a \in 1 .. Len(c) /\ t[n] = c[n - a]
    <2>1. Field(t, c, a) /\ \A k \in 1 .. Len(c) : c[k] # Writer!Fill
      BY <1>2, <1>4, <1>6, <1>7
    <2> QED BY <1>2, <2>1, FieldShown
  <1>9. Writer!Signs(t) = {}
    BY <1>2, <1>7, <1>8 DEF Writer!Signs
  <1>10. ReadsAs(t, "text", l, fillWidth, l)
    BY <1>2, <1>5, <1>6, <1>8, <1>9 DEF ReadsAs
  <1>11. asked' = [kind |-> "text", value |-> l, width |-> fillWidth, buffer |-> l]
    BY DEF Writer!WriteText
  <1>12. Writer!NumbersReadBack'
    BY <1>6, <1>10, <1>11, ReadsBackNext
  <1> QED BY <1>5, <1>12 DEF WriterInv

(* The hexadecimal digits of a type's numbers.                             *)
LEMMA HexReads ==
    ASSUME Writer!FormatAssumption, WriterInv, NEW T \in Types, NEW v \in Writer!NumbersOf(T),
           NEW minWidth \in Nat, Writer!WriteHex(T, v, minWidth)
    PROVE  WriterInv'
  <1>1. PICK p : p = Writer!Possible(T)
    OBVIOUS
  <1>2. PICK s : s = 2 * T.size
    OBVIOUS
  <1>3. p \in Nat \ {0} /\ s \in Nat \ {0} /\ v \in Int
    <2>1. T.size \in Nat \ {0} /\ p \in Nat \ {0} /\ v \in Int
      BY <1>1, TypeNumbers
    <2> QED BY <1>2, <2>1
  <1>4. p = Writer!ShownBy(s)
    BY <1>1, <1>2 DEF Writer!FormatAssumption
  <1>5. PICK n : n = v % p
    OBVIOUS
  <1>6. n \in Nat /\ n < p
    BY <1>3, <1>5
  <1>7. PICK d : d = Len(Writer!Digits(n, 16))
    OBVIOUS
  <1>8. d \in Nat /\ d <= s
    <2>1. PICK q : q = s - 1 /\ q \in Nat /\ q + 1 = s
      BY <1>3
    <2>2. d \in Nat
      BY <1>6, <1>7, DigitsType
    <2>3. d <= q + 1
      BY <1>4, <1>6, <1>7, <2>1, HexFits
    <2> QED BY <2>1, <2>2, <2>3
  <1>9. PICK least : least = IF minWidth < s THEN minWidth ELSE s
    OBVIOUS
  <1>10. least \in Nat /\ least <= s
    BY <1>3, <1>9
  <1>11. PICK e : e = (IF least > d THEN least - d ELSE 0) /\ e \in Nat /\ e + d <= s
    BY <1>8, <1>10
  <1>12. [i \in 1 .. (least - d) |-> 0] = [i \in 1 .. e |-> 0]
    <2>1. 1 .. (least - d) = 1 .. e
      BY <1>8, <1>10, <1>11
    <2> QED BY <2>1
  <1>13. PICK c : c = ZeroDigits(e, n, 16)
    OBVIOUS
  <1>14. Writer!HexDigits(T, v, minWidth) = c
    BY <1>1, <1>2, <1>5, <1>7, <1>9, <1>12, <1>13 DEF Writer!HexDigits, ZeroDigits
  <1>15. Writer!WriteField(c)
    BY <1>14 DEF Writer!WriteHex
  <1>16. c \in Seq(Int)
    <2>1. [i \in 1 .. e |-> 0] \in Seq(Int)
      BY <1>11
    <2>2. Writer!Digits(n, 16) \in Seq(Int)
      BY <1>6, DigitsInt
    <2> QED BY <1>13, <2>1, <2>2, ConcatProperties DEF ZeroDigits
  <1>17. PICK t : t = text'
    OBVIOUS
  <1>18. PICK a \in Nat : Field(t, c, a)
    BY <1>15, <1>16, <1>17, FieldWritten DEF WriterInv
  <1>19. /\ Len(t) = (IF Len(c) < fillWidth THEN fillWidth ELSE Len(c))
         /\ fillWidth' \in Nat /\ adjust' = adjust
    BY <1>15, <1>16, <1>17, FieldWritten DEF WriterInv
  <1>20. /\ Writer!Signs(t) = {} /\ Writer!NumberIn(t, 16) = n
         /\ Len(c) = e + d /\ Cardinality(Writer!Shown(t)) = Len(c)
    BY <1>6, <1>7, <1>11, <1>13, <1>18, UnsignedReads
  <1>21. PICK z : z = Len(c)
    OBVIOUS
  <1>22. z <= s /\ Cardinality(Writer!Shown(t)) = z
    BY <1>8, <1>11, <1>20, <1>21
  <1>23. ReadsAs(t, "hex", n, fillWidth, s)
    BY <1>19, <1>20, <1>21, <1>22 DEF ReadsAs
  <1>24. asked' = [kind |-> "hex", value |-> n, width |-> fillWidth, buffer |-> s]
    BY <1>1, <1>2, <1>5 DEF Writer!WriteHex
  <1>25. Writer!NumbersReadBack'
    BY <1>17, <1>23, <1>24, ReadsBackNext
  <1> QED BY <1>19, <1>25 DEF WriterInv

(* A decimal number that is not negative.                                  *)
LEMMA NaturalReads ==
    ASSUME Writer!FormatAssumption, WriterInv, NEW T \in Types, NEW v \in Writer!NumbersOf(T),
           asked' = [kind |-> "decimal", value |-> v, width |-> fillWidth, buffer |-> Writer!BufferSize(T)],
           v >= 0, Writer!WriteField(Writer!Digits(v, 10))
    PROVE  WriterInv'
  <1>1. v \in Nat
    <2>1. v \in Int
      BY TypeNumbers
    <2> QED BY <2>1
  <1>2. PICK c : c = Writer!Digits(v, 10)
    OBVIOUS
  <1>3. c \in Seq(Int)
    BY <1>1, <1>2, DigitsInt
  <1>4. c = ZeroDigits(0, v, 10)
    <2>1. [i \in 1 .. 0 |-> 0] = <<>>
      OBVIOUS
    <2>2. <<>> \o c = c
      BY <1>3, ConcatEmptySeq
    <2> QED BY <1>2, <2>1, <2>2 DEF ZeroDigits
  <1>5. PICK t : t = text'
    OBVIOUS
  <1>6. PICK a \in Nat : Field(t, c, a)
    BY <1>2, <1>3, <1>5, FieldWritten DEF WriterInv
  <1>7. /\ Len(t) = (IF Len(c) < fillWidth THEN fillWidth ELSE Len(c))
        /\ fillWidth' \in Nat /\ adjust' = adjust
    BY <1>2, <1>3, <1>5, FieldWritten DEF WriterInv
  <1>8. /\ Writer!Signs(t) = {} /\ Writer!NumberIn(t, 10) = v
        /\ Cardinality(Writer!Shown(t)) = Len(c)
    BY <1>1, <1>4, <1>6, UnsignedReads
  <1>9. Len(c) <= Writer!BufferSize(T)
    BY <1>2, DecimalFits
  <1>10. ReadsAs(t, "decimal", v, fillWidth, Writer!BufferSize(T))
    <2>1. PICK b, z : b = Writer!BufferSize(T) /\ z = Len(c)
      OBVIOUS
    <2>2. z <= b /\ Cardinality(Writer!Shown(t)) = z /\ Len(t) = (IF z < fillWidth THEN fillWidth ELSE z)
      BY <1>7, <1>8, <1>9, <2>1
    <2>3. ReadsAs(t, "decimal", v, fillWidth, b)
      BY <1>8, <2>2 DEF ReadsAs
    <2> QED BY <2>1, <2>3
  <1>11. Writer!NumbersReadBack'
    BY <1>5, <1>10, ReadsBackNext
  <1> QED BY <1>7, <1>11 DEF WriterInv

(* A negative number, with its sign before the fill or next to the digits. *)
LEMMA NegativeReads ==
    ASSUME Writer!FormatAssumption, WriterInv, NEW T \in Types, NEW v \in Writer!NumbersOf(T),
           asked' = [kind |-> "decimal", value |-> v, width |-> fillWidth, buffer |-> Writer!BufferSize(T)],
           Writer!WriteNegative(v)
    PROVE  WriterInv'
  <1>1. v < 0 /\ v \in Int
    BY TypeNumbers DEF Writer!WriteNegative
  <1>2. PICK n : n = -v /\ n \in Nat /\ v = -n
    BY <1>1
  <1>3. PICK d : d = Writer!Digits(n, 10)
    OBVIOUS
  <1>4. d \in Seq(Int)
    BY <1>2, <1>3, DigitsInt
  <1>5. PICK l : l = Len(d) /\ l \in Nat
    BY <1>4, LenProperties
  <1>6. PICK c : c = <<Writer!Minus>> \o d
    OBVIOUS
  <1>7. <<Writer!Minus>> \in Seq(Int) /\ Len(<<Writer!Minus>>) = 1 /\ <<Writer!Minus>>[1] = Writer!Minus
    BY DEF Writer!Minus
  <1>8. /\ c \in Seq(Int) /\ Len(c) = l + 1 /\ c[1] = Writer!Minus
        /\ \A k \in 1 .. l : c[k + 1] = d[k]
    <2>1. PICK u : u = <<Writer!Minus>>
      OBVIOUS
    <2>2. /\ c \in Seq(Int) /\ Len(c) = 1 + l
          /\ \A i \in 1 .. 1 + l : c[i] = IF i <= 1 THEN u[i] ELSE d[i - 1]
      BY <1>4, <1>5, <1>6, <1>7, <2>1, ConcatProperties
    <2>3. c[1] = Writer!Minus
      <3>1. 1 \in 1 .. 1 + l /\ 1 <= 1
        BY <1>5
      <3> QED BY <1>7, <2>1, <2>2, <3>1
    <2>4. ASSUME NEW k \in 1 .. l PROVE c[k + 1] = d[k]
      <3>1. k + 1 \in 1 .. 1 + l /\ ~(k + 1 <= 1) /\ (k + 1) - 1 = k
        BY <1>5
      <3> QED BY <2>2, <3>1
    <2>5. 1 + l = l + 1
      BY <1>5
    <2> QED BY <2>2, <2>3, <2>4, <2>5
  <1>9. PICK b : b = Writer!BufferSize(T)
    OBVIOUS
  <1>10. l + 1 <= b
    BY <1>1, <1>2, <1>3, <1>5, <1>9, DecimalFits
  <1>11. PICK t : t = text'
    OBVIOUS
  <1>12. ASSUME NEW a \in Nat, NEW f \in Nat, SignedField(t, d, a, f),
                Len(t) = (IF l + 1 < fillWidth THEN fillWidth ELSE l + 1)
         PROVE  Writer!NumbersReadBack'
    <2>1. /\ Writer!Signs(t) = {a + 1}
          /\ \A m \in Writer!Shown(t) : a + 1 <= m
          /\ Writer!NumberIn(t, 10) = n
          /\ Cardinality(Writer!Shown(t)) = Len(d) + 1
      BY <1>2, <1>3, <1>12, SignedReads
    <2>2. ReadsAs(t, "decimal", v, fillWidth, b)
      BY <1>2, <1>5, <1>10, <1>12, <2>1 DEF ReadsAs
    <2> QED BY <1>9, <1>11, <2>2, ReadsBackNext
  <1>13. CASE Writer!WriteField(c)
    <2>1. PICK a \in Nat : Field(t, c, a)
      BY <1>8, <1>11, <1>13, FieldWritten DEF WriterInv
    <2>2. /\ Len(t) = (IF l + 1 < fillWidth THEN fillWidth ELSE l + 1)
          /\ fillWidth' \in Nat /\ adjust' = adjust
      BY <1>8, <1>11, <1>13, FieldWritten DEF WriterInv
    <2>3. /\ t \in Seq(Int) /\ a + (l + 1) <= Len(t)
          /\ \A x \in 1 .. a : t[x] = Writer!Fill
          /\ \A k \in 1 .. l + 1 : t[a + k] = c[k]
          /\ \A x \in a + (l + 1) + 1 .. Len(t) : t[x] = Writer!Fill
      BY <1>8, <2>1 DEF Field
    <2>4. PICK m : m = Len(t) /\ m \in Nat
      BY <2>3, LenProperties
    <2>5. t[a + 1] = Writer!Minus
      <3>1. 1 \in 1 .. l + 1
        BY <1>5
      <3> QED BY <1>8, <2>3, <3>1
    <2>6. ASSUME NEW k \in 1 .. l PROVE t[a + 0 + 1 + k] = d[k]
      <3>1. k + 1 \in 1 .. l + 1 /\ a + 0 + 1 + k = a + (k + 1)
        BY <1>5
      <3> QED BY <1>8, <2>3, <3>1
    <2>7. /\ a + 0 + l + 1 = a + (l + 1) /\ a + 0 + 1 + l + 1 = a + (l + 1) + 1
          /\ \A x \in a + 2 .. a + 0 + 1 : FALSE
      BY <1>5
    <2>8. SignedField(t, d, a, 0)
      BY <1>5, <2>3, <2>5, <2>6, <2>7 DEF SignedField
    <2>9. Writer!NumbersReadBack'
      BY <1>12, <2>2, <2>8
    <2> QED BY <2>2, <2>9 DEF WriterInv
  <1>14. CASE Len(c) >= fillWidth /\ text' = c /\ UNCHANGED <<fillWidth, adjust>>
    <2>1. t = c /\ Len(t) = l + 1 /\ ~(l + 1 < fillWidth)
      <3>1. l + 1 >= fillWidth
        BY <1>8, <1>14
      <3>2. ~(l + 1 < fillWidth)
        BY <1>5, <3>1 DEF WriterInv
      <3> QED BY <1>8, <1>11, <1>14, <3>2
    <2>2. ASSUME NEW k \in 1 .. l PROVE t[0 + 0 + 1 + k] = d[k]
      <3>1. 0 + 0 + 1 + k = k + 1
        OBVIOUS
      <3> QED BY <1>8, <2>1, <3>1
    <2>3. /\ 0 + 0 + l + 1 <= l + 1 /\ 0 + 1 = 1
          /\ \A x \in 1 .. 0 : FALSE
          /\ \A x \in 0 + 2 .. 0 + 0 + 1 : FALSE
          /\ \A x \in 0 + 0 + 1 + l + 1 .. l + 1 : FALSE
      BY <1>5
    <2>4. t \in Seq(Int) /\ t[0 + 1] = Writer!Minus
      BY <1>8, <2>1, <2>3
    <2>5. SignedField(t, d, 0, 0)
      BY <1>5, <2>1, <2>2, <2>3, <2>4 DEF SignedField
    <2>6. Writer!NumbersReadBack'
      BY <1>12, <2>1, <2>5
    <2>7. fillWidth' \in Nat /\ adjust' = adjust
      BY <1>14 DEF WriterInv
    <2> QED BY <2>6, <2>7 DEF WriterInv
  <1>15. CASE /\ Len(c) < fillWidth
              /\ text' = <<Writer!Minus>> \o Writer!Filler(Len(c)) \o Tail(c)
              /\ fillWidth' = 0 /\ UNCHANGED adjust
    <2>1. Tail(c) = d
      <3>1. c # <<>> /\ Tail(c) \in Seq(Int) /\ Len(Tail(c)) = l /\ \A i \in 1 .. l : Tail(c)[i] = c[i + 1]
        <4>1. c # <<>>
          BY <1>5, <1>8
        <4>2. /\ Tail(c) \in Seq(Int) /\ Len(Tail(c)) = Len(c) - 1
              /\ \A i \in 1 .. Len(Tail(c)) : Tail(c)[i] = c[i + 1]
          BY <1>8, <4>1, HeadTailProperties
        <4>3. Len(c) - 1 = l
          BY <1>5, <1>8
        <4> QED BY <4>1, <4>2, <4>3
      <3>2. \A i \in 1 .. l : Tail(c)[i] = d[i]
        BY <1>8, <3>1
      <3> QED BY <1>4, <1>5, <3>1, <3>2, SeqEqual
    <2>2. PICK f : f = fillWidth - (l + 1) /\ f \in Nat /\ l + 1 < fillWidth /\ 1 + f + l = fillWidth
      <3>1. fillWidth \in Nat /\ l + 1 < fillWidth
        BY <1>8, <1>15 DEF WriterInv
      <3> QED BY <1>5, <3>1
    <2>3. PICK g : g = Writer!Filler(l + 1)
      OBVIOUS
    <2>4. g \in Seq(Int) /\ Len(g) = f /\ \A i \in 1 .. f : g[i] = Writer!Fill
      <3>1. g = [i \in 1 .. f |-> Writer!Fill]
        BY <2>2, <2>3 DEF Writer!Filler
      <3>2. Writer!Fill \in Int
        BY DEF Writer!Fill
      <3> QED BY <2>2, <3>1, <3>2
    <2>5. PICK u : u = <<Writer!Minus>>
      OBVIOUS
    <2>6. PICK h : h = u \o g
      OBVIOUS
    <2>7. /\ h \in Seq(Int) /\ Len(h) = 1 + f
          /\ \A i \in 1 .. 1 + f : h[i] = IF i <= 1 THEN u[i] ELSE g[i - 1]
      BY <1>7, <2>4, <2>5, <2>6, ConcatProperties
    <2>8. t = h \o d
      <3>1. Writer!Filler(Len(c)) = g
        BY <1>8, <2>3
      <3> QED BY <1>11, <1>15, <2>1, <2>5, <2>6, <3>1
    <2>9. PICK y : y = 1 + f /\ y \in Nat /\ y + l = fillWidth
      BY <2>2
    <2>10. /\ t \in Seq(Int) /\ Len(t) = y + l
           /\ \A i \in 1 .. y + l : t[i] = IF i <= y THEN h[i] ELSE d[i - y]
      <3>1. h \in Seq(Int) /\ Len(h) = y
        BY <2>7, <2>9
      <3> QED BY <1>4, <1>5, <2>8, <3>1, ConcatProperties
    <2>11. Len(t) = fillWidth
      BY <2>2, <2>9, <2>10
    <2>12. t[0 + 1] = Writer!Minus
      <3>1. f \in Nat /\ l \in Nat /\ y = 1 + f
        BY <1>5, <2>2, <2>9
      <3>2. 1 \in 1 .. y + l /\ 1 <= y /\ 1 \in 1 .. 1 + f /\ 1 <= 1 /\ 0 + 1 = 1
        BY <3>1
      <3>3. t[1] = h[1] /\ h[1] = u[1]
        BY <2>7, <2>10, <3>2
      <3> QED BY <1>7, <2>5, <3>3
    <2>13. ASSUME NEW x \in 0 + 2 .. 0 + f + 1 PROVE t[x] = Writer!Fill
      <3>1. f \in Nat /\ l \in Nat /\ y = 1 + f
        BY <1>5, <2>2, <2>9
      <3>2. x \in 1 .. y + l /\ x <= y /\ x \in 1 .. 1 + f /\ ~(x <= 1) /\ x - 1 \in 1 .. f
        BY <3>1
      <3>3. t[x] = h[x] /\ h[x] = g[x - 1]
        BY <2>7, <2>10, <3>2
      <3> QED BY <2>4, <3>2, <3>3
    <2>14. ASSUME NEW k \in 1 .. l PROVE t[0 + f + 1 + k] = d[k]
      <3>1. PICK x : x = 0 + f + 1 + k
        OBVIOUS
      <3>2. f \in Nat /\ l \in Nat /\ y = 1 + f
        BY <1>5, <2>2, <2>9
      <3>3. x \in 1 .. y + l /\ ~(x <= y) /\ x - y = k
        BY <3>1, <3>2
      <3> QED BY <2>10, <3>1, <3>3
    <2>15. /\ 0 + f + l + 1 <= fillWidth
           /\ \A x \in 1 .. 0 : FALSE
           /\ \A x \in 0 + f + 1 + l + 1 .. fillWidth : FALSE
      BY <1>5, <2>2
    <2>16. SignedField(t, d, 0, f)
      BY <1>5, <2>10, <2>11, <2>12, <2>13, <2>14, <2>15 DEF SignedField
    <2>17. Len(t) = (IF l + 1 < fillWidth THEN fillWidth ELSE l + 1)
      BY <2>2, <2>11
    <2>18. Writer!NumbersReadBack'
      BY <1>12, <2>2, <2>16, <2>17
    <2> QED BY <1>15, <2>18 DEF WriterInv
  <1>16. Writer!WriteNegative(v) =>
           \/ Writer!WriteField(c)
           \/ Len(c) >= fillWidth /\ text' = c /\ UNCHANGED <<fillWidth, adjust>>
           \/ /\ Len(c) < fillWidth
              /\ text' = <<Writer!Minus>> \o Writer!Filler(Len(c)) \o Tail(c)
              /\ fillWidth' = 0 /\ UNCHANGED adjust
    <2>1. <<Writer!Minus>> \o Writer!Digits(-v, 10) = c
      BY <1>2, <1>3, <1>6
    <2> QED BY <2>1 DEF Writer!WriteNegative
  <1> QED BY <1>13, <1>14, <1>15, <1>16

(* Every write leaves a text that reads back, whatever was before.         *)
LEMMA WriterStep ==
    ASSUME Writer!FormatAssumption, WriterInv, [Writer!Next]_(Writer!vars)
    PROVE  WriterInv'
  <1>1. ASSUME NEW w \in Widths, NEW how \in {"Left", "Right", "Internal"}, Writer!SetFormat(w, how)
        PROVE  WriterInv'
    <2>1. fillWidth' \in Nat /\ adjust' \in {"Left", "Right", "Internal"}
      BY <1>1 DEF Writer!SetFormat, Writer!FormatAssumption
    <2>2. text' = text /\ asked' = asked
      BY <1>1 DEF Writer!SetFormat
    <2>3. Writer!NumbersReadBack'
      BY <2>2 DEF WriterInv, Writer!NumbersReadBack, Writer!ReadBack
    <2> QED BY <2>1, <2>3 DEF WriterInv
  <1>2. ASSUME NEW T \in Types, NEW v \in Writer!NumbersOf(T), Writer!WriteDecimal(T, v)
        PROVE  WriterInv'
    BY <1>2, NegativeReads, NaturalReads DEF Writer!WriteDecimal
  <1>3. ASSUME NEW T \in Types, NEW v \in Writer!NumbersOf(T), NEW minWidth \in MinWidths,
               Writer!WriteHex(T, v, minWidth)
        PROVE  WriterInv'
    <2>1. minWidth \in Nat
      BY DEF Writer!FormatAssumption
    <2> QED BY <1>3, <2>1, HexReads
  <1>4. ASSUME NEW length \in Lengths, Writer!WriteText(length)
        PROVE  WriterInv'
    <2>1. length \in Nat
      BY DEF Writer!FormatAssumption
    <2> QED BY <1>4, <2>1, TextReads
  <1>5. CASE UNCHANGED Writer!vars
    BY <1>5 DEF Writer!vars, WriterInv, Writer!NumbersReadBack, Writer!ReadBack
  <1>6. CASE Writer!Next
    BY <1>1, <1>2, <1>3, <1>4, <1>6 DEF Writer!Next
  <1> QED BY <1>5, <1>6

-----------------------------------------------------------------------------
(* The composition.                                                        *)

(* A behaviour of the composition is one of each of its parts.             *)
LEMMA SequentialBehaves ==
    /\ SequentialSpec => Spec
    /\ SequentialSpec => List!Spec
    /\ SequentialSpec => Words!Spec
    /\ SequentialSpec => Input!Spec
    /\ SequentialSpec => Writer!Spec
  <1>1. SequentialInit => Init /\ List!Init /\ Words!Init /\ Input!Init /\ Writer!Init
    BY DEF SequentialInit
  <1>2. ASSUME [SequentialNext]_allVars
        PROVE  /\ [Next]_vars /\ [List!Next]_(List!vars) /\ [Words!Next]_(Words!vars) /\ [Input!Next]_(Input!vars)
              /\ [Writer!Next]_(Writer!vars)
    BY <1>2 DEF SequentialNext, allVars, listVars, wordVars, inputVars, List!vars, List!linkVars, List!foreachVars,
           Words!vars, Input!vars, Input!deviceVars, writerVars, Writer!vars
  <1> QED BY <1>1, <1>2, PTL DEF SequentialSpec, Spec, List!Spec, Words!Spec, Input!Spec, Writer!Spec

(* Right after strobe() a client that only ever read edges and deltas knows*)
(* which plain keys and buttons are down and where the mouse is, however   *)
(* many reports came in whatever order and while the queue was pumped.     *)
THEOREM EdgesAreTrue == SequentialSpec => []EdgesTellStates
  <1>1. Input!Spec => []InputInv
    BY InputInit, InputStep, PTL DEF Input!Spec
  <1>2. InputInv => EdgesTellStates
    BY InputHolds DEF EdgesTellStates
  <1> QED BY <1>1, <1>2, SequentialBehaves, PTL

(* The fields of a descriptor word, of a bmRequestType, of a version and   *)
(* of an endpoint address read back what was last put into each, whatever  *)
(* was put into the others and in whatever order.                          *)
THEOREM FieldsStayApart == SequentialSpec => []FieldsAreIndependent
  <1>1. WordsInv /\ [Words!Next]_(Words!vars) => WordsInv'
    BY WordsStep
  <1>2. Words!Spec => []WordsInv
    BY <1>1, WordsInit, PTL DEF Words!Spec
  <1>3. WordsInv => FieldsAreIndependent
    BY WordsHold DEF FieldsAreIndependent
  <1> QED BY <1>2, <1>3, SequentialBehaves, PTL

(* foreach calls its functor exactly once with each item that was in the   *)
(* list from its beginning to its end, although the functor pushes items   *)
(* anywhere and removes any but the one it is called with.                 *)
THEOREM ForeachCallsOnce == SequentialSpec => []CallsWhatStays
  <1>1. List!Spec => []ListsInv
    BY ListInit, ListStep, PTL DEF List!Spec
  <1>2. ListsInv => CallsWhatStays
    BY ListsHold DEF CallsWhatStays
  <1> QED BY <1>1, <1>2, SequentialBehaves, PTL

(* Every list is a sequence: pushes and removals at any place and in any   *)
(* order keep the links of the rings, the owners and the sizes together.   *)
THEOREM ListsAreSequences == SequentialSpec => ImplementsSequences
  <1>1. List!Spec => []ListsInv
    BY ListInit, ListStep, PTL DEF List!Spec
  <1>2. ListsInv /\ ContentsTell /\ ContentsTell' /\ [List!Next]_(List!vars) => [List!Abstract!Next]_(List!Contents)
    BY ListsRefine
  <1>3. List!Spec => ImplementsSequences
    BY <1>1, <1>2, ListsTell, ListsStartEmpty, PTL
       DEF List!Spec, ImplementsSequences, List!ImplementsSequences, List!Abstract!Spec
  <1> QED BY <1>3, SequentialBehaves, PTL

(* Every number that is written in base 10 or 16 reads back as itself, for *)
(* types of any size, under every alignment and fill width and after any   *)
(* writes before it; an item is as wide as asked and no wider than it has  *)
(* to be; and its digits and sign fit the buffer sized from the limits.    *)
THEOREM NumbersAreRead == SequentialSpec => []NumbersReadBack
  <1>1. Writer!FormatAssumption
    BY PartsAssumption
  <1>2. WriterInv /\ [Writer!Next]_(Writer!vars) => WriterInv'
    BY <1>1, WriterStep
  <1>3. Writer!Spec => []WriterInv
    BY <1>2, WriterInit, PTL DEF Writer!Spec
  <1>4. WriterInv => NumbersReadBack
    BY DEF WriterInv, NumbersReadBack
  <1> QED BY <1>3, <1>4, SequentialBehaves, PTL
=============================================================================
