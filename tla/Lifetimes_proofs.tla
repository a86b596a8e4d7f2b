-------------------------- MODULE Lifetimes_proofs --------------------------
(***************************************************************************)
(* What lives as long as somebody holds it, for any number of threads,     *)
(* objects, devices and descriptor numbers: no COM object is touched after *)
(* its deletion and every count says how many hold it; the descriptors of  *)
(* a device that is opened are its own and none is left, and a device that *)
(* stays plugged is described whole; and a COM object finds the interfaces *)
(* of its class, overrides first.                                          *)
(***************************************************************************)
EXTENDS MCLifetimes, FiniteSetTheorems, SequenceTheorems, WellFoundedInduction, TLAPS

-----------------------------------------------------------------------------
(* Smart pointers: where each thread is in its program, by its goal.       *)
Maybe == Objects \cup {Null}
MaybePointer == Pointers \cup {Null}
Steps == [op : {"reset", "load", "detach", "store", "addRef", "release"},
          arg : Objects \cup Pointers \cup {Null}]
Tests == [op : {"test"}, arg : Objects, was : Nat]
Programs == Seq(Steps \cup Tests)

ToLoad(p, q) == << Do("load", q), Do("addRef", Null), Do("store", p),
                   Do("addRef", Null), Do("release", Null) >>
ToHold(p) == << Do("addRef", Null), Do("store", p), Do("addRef", Null), Do("release", Null) >>
ToStore(p) == << Do("store", p), Do("addRef", Null), Do("release", Null) >>
ToReturn == << Do("addRef", Null), Do("release", Null) >>
ToDrop == << Do("release", Null) >>
HoldAndStore(p) == << Do("addRef", Null), Do("store", p) >>
StoreOnly(p) == << Do("store", p) >>
ResetAndStore(p) == << Do("reset", p), Do("store", p) >>

(* What a thread has in its hands: the reference that its register counts  *)
(* for, the one that it is about to let go, and the object without a       *)
(* reference that it has made or is to delete.                             *)
Hands == [carries : Maybe, drops : Maybe, claims : Maybe]
Holding(carries, drops, claims) == [carries |-> carries, drops |-> drops, claims |-> claims]

(* A release or its test may come before the rest of a program.            *)
Before(t, rest, h) ==
    \/ code[t] = rest /\ h.drops = Null /\ h.claims = Null
    \/ h.drops \in Objects /\ h.claims = Null /\ code[t] = << Do("release", h.drops) >> \o rest
    \/ /\ h.drops = Null
       /\ \E o \in Objects, n \in Nat :
             /\ code[t] = << [op |-> "test", arg |-> o, was |-> n] >> \o rest
             /\ h.claims = IF n = 1 THEN o ELSE Null

Mine(t, p) == p \in Pointers /\ OwnerOf[p] = t
Reading(t) ==
    LET g == goal[t] IN g.source \in Pointers /\ ptr[g.source] = g.object

Assigning(t, h) ==
    LET p == goal[t].pointer  q == goal[t].source  o == goal[t].object IN
    \/ code[t] = AssignProgram(p, q) /\ p # q /\ Reading(t) /\ h = Holding(Null, Null, Null)
    \/ /\ code[t] = ToHold(p) /\ Reading(t) /\ ptr[p] = Null /\ reg[t] = o
       /\ h = Holding(Null, Null, Null)
    \/ code[t] = ToStore(p) /\ ptr[p] = Null /\ reg[t] = o /\ h = Holding(o, Null, Null)
    \/ code[t] = ToReturn /\ ptr[p] = o /\ reg[t] = o /\ h = Holding(Null, Null, Null)
    \/ code[t] = ToDrop /\ ptr[p] = o /\ reg[t] = o /\ h = Holding(o, Null, Null)

Copying(t, h) ==
    LET p == goal[t].pointer  q == goal[t].source  o == goal[t].object IN
    \/ /\ code[t] = CopyProgram(p, q) /\ Reading(t) /\ ptr[p] = Null
       /\ h = Holding(Null, Null, Null)
    \/ /\ code[t] = HoldAndStore(p) /\ Reading(t) /\ ptr[p] = Null /\ reg[t] = o
       /\ h = Holding(Null, Null, Null)
    \/ /\ code[t] = HoldAndStore(p) /\ q = Null /\ ptr[p] = Null /\ reg[t] = o
       /\ o \in Objects /\ h = Holding(Null, Null, o)

Moving(t, h) ==
    LET p == goal[t].pointer  q == goal[t].source  o == goal[t].object IN
    \/ /\ code[t] = MoveProgram(p, q) /\ p # q /\ Mine(t, q) /\ Reading(t)
       /\ h = Holding(Null, Null, Null)
    \/ code[t] = ResetAndStore(p) /\ reg[t] = o /\ h = Holding(o, Null, Null)

Resetting(t, h) ==
    /\ code[t] = ResetProgram(goal[t].pointer) /\ goal[t].object = Null
    /\ h = Holding(Null, Null, Null)

(* The rest of a program after a reset.                                    *)
Resumes(t, rest, carries) ==
    LET p == goal[t].pointer  q == goal[t].source  o == goal[t].object IN
    \/ rest = ToLoad(p, q) /\ p # q /\ Reading(t) /\ ptr[p] = Null /\ carries = Null
    \/ rest = StoreOnly(p) /\ ptr[p] = Null /\ reg[t] = o /\ carries = o
    \/ rest = <<>> /\ ptr[p] = o /\ carries = Null

Resuming(t, h) == \E rest \in Programs : Before(t, rest, h) /\ Resumes(t, rest, h.carries)

Place(t, h) ==
    \/ code[t] = <<>> /\ goal[t] = NoGoal /\ h = Holding(Null, Null, Null)
    \/ /\ Mine(t, goal[t].pointer)
       /\ Assigning(t, h) \/ Copying(t, h) \/ Moving(t, h) \/ Resetting(t, h) \/ Resuming(t, h)

Goals == [pointer : MaybePointer, source : MaybePointer, object : Maybe]

ComTypeOK ==
    /\ ptr \in [Pointers -> Maybe]
    /\ life \in [Objects -> {"none", "alive", "deleted"}]
    /\ refCount \in [Objects -> Nat]
    /\ implementer \in [Objects -> Maybe]
    /\ code \in [Threads -> Programs]
    /\ reg \in [Threads -> Maybe]
    /\ goal \in [Threads -> Goals]
    /\ wild = FALSE

(* A pointer that a thread reads is left alone by the others.              *)
Exclusive == \A t, u \in Threads :
    t # u /\ ~Quiet(t) /\ ~Quiet(u) /\ goal[t].source # Null =>
        /\ goal[t].source # goal[u].pointer
        /\ Head(code[u]).op = "detach" => goal[t].source # goal[u].source

(* A count says how many hold the object, hands included.                  *)
Carriers(hand, o) == {t \in Threads : hand[t].carries = o}
Droppers(hand, o) == {t \in Threads : hand[t].drops = o}
CountsFit(hand) == \A o \in Objects :
    refCount[o] = Cardinality(Holders(o)) + Cardinality(Delegates(o))
                  + Cardinality(Carriers(hand, o)) + Cardinality(Droppers(hand, o))

(* What lives without being held is in the hands of one thread.            *)
ClaimsFit(hand) == \A o \in Objects :
    /\ life[o] = "alive" <=> refCount[o] > 0 \/ \E t \in Threads : hand[t].claims = o
    /\ \A t, u \in Threads : hand[t].claims = o /\ hand[u].claims = o => t = u /\ refCount[o] = 0

Fits(hand) ==
    /\ hand \in [Threads -> Hands]
    /\ \A t \in Threads : Place(t, hand[t])
    /\ CountsFit(hand) /\ ClaimsFit(hand)

ComInv == ComTypeOK /\ Exclusive /\ \E hand : Fits(hand)

-----------------------------------------------------------------------------
(* The programs, step by step.                                             *)
LEMMA Prepended ==
    ASSUME NEW S, NEW s \in Seq(S), NEW x \in S
    PROVE  /\ <<x>> \o s \in Seq(S) /\ <<x>> \o s # <<>>
           /\ Head(<<x>> \o s) = x /\ Tail(<<x>> \o s) = s
           /\ <<>> \o s = s
  <1>1. <<x>> \in Seq(S) /\ Len(<<x>>) = 1 /\ <<x>>[1] = x
    OBVIOUS
  <1>2. /\ <<x>> \o s \in Seq(S) /\ Len(<<x>> \o s) = 1 + Len(s)
        /\ \A i \in 1 .. 1 + Len(s) : (<<x>> \o s)[i] = IF i <= 1 THEN <<x>>[i] ELSE s[i - 1]
    BY <1>1, ConcatProperties
  <1>3. Len(s) \in Nat
    OBVIOUS
  <1>4. Tail(<<x>> \o s) = s
    <2>1. Tail(<<x>> \o s) \in Seq(S) /\ Len(Tail(<<x>> \o s)) = Len(s)
      BY <1>2, <1>3
    <2>2. \A i \in 1..Len(s) : Tail(<<x>> \o s)[i] = s[i]
      BY <1>2, <1>3
    <2> QED BY <2>1, <2>2, SeqEqual
  <1>5. <<>> \o s = s
    BY ConcatEmptySeq
  <1> QED BY <1>1, <1>2, <1>3, <1>4, <1>5

Starts(program, op, arg, rest) ==
    program # <<>> /\ Head(program).op = op /\ Head(program).arg = arg /\ Tail(program) = rest

LEMMA ProgramSteps ==
    ASSUME NEW p, NEW q
    PROVE  /\ Starts(AssignProgram(p, q), "reset", p, ToLoad(p, q))
           /\ Starts(ToLoad(p, q), "load", q, ToHold(p))
           /\ Starts(ToHold(p), "addRef", Null, ToStore(p))
           /\ Starts(ToStore(p), "store", p, ToReturn)
           /\ Starts(ToReturn, "addRef", Null, ToDrop)
           /\ Starts(ToDrop, "release", Null, <<>>)
           /\ Starts(CopyProgram(p, q), "load", q, HoldAndStore(p))
           /\ Starts(HoldAndStore(p), "addRef", Null, StoreOnly(p))
           /\ Starts(StoreOnly(p), "store", p, <<>>)
           /\ Starts(MoveProgram(p, q), "detach", q, ResetAndStore(p))
           /\ Starts(ResetAndStore(p), "reset", p, StoreOnly(p))
           /\ Starts(ResetProgram(p), "reset", p, <<>>)
  <1>1. Starts(AssignProgram(p, q), "reset", p, ToLoad(p, q))
    BY DEF Starts, Do, AssignProgram, ToLoad
  <1>2. Starts(ToLoad(p, q), "load", q, ToHold(p))
    BY DEF Starts, Do, ToLoad, ToHold
  <1>3. Starts(ToHold(p), "addRef", Null, ToStore(p))
    BY DEF Starts, Do, ToHold, ToStore
  <1>4. Starts(ToStore(p), "store", p, ToReturn)
    BY DEF Starts, Do, ToStore, ToReturn
  <1>5. Starts(ToReturn, "addRef", Null, ToDrop)
    BY DEF Starts, Do, ToReturn, ToDrop
  <1>6. Starts(ToDrop, "release", Null, <<>>)
    BY DEF Starts, Do, ToDrop
  <1>7. Starts(CopyProgram(p, q), "load", q, HoldAndStore(p))
    BY DEF Starts, Do, CopyProgram, HoldAndStore
  <1>8. Starts(HoldAndStore(p), "addRef", Null, StoreOnly(p))
    BY DEF Starts, Do, HoldAndStore, StoreOnly
  <1>9. Starts(StoreOnly(p), "store", p, <<>>)
    BY DEF Starts, Do, StoreOnly
  <1>10. Starts(MoveProgram(p, q), "detach", q, ResetAndStore(p))
    BY DEF Starts, Do, MoveProgram, ResetAndStore
  <1>11. Starts(ResetAndStore(p), "reset", p, StoreOnly(p))
    BY DEF Starts, Do, ResetAndStore, StoreOnly
  <1>12. Starts(ResetProgram(p), "reset", p, <<>>)
    BY DEF Starts, Do, ResetProgram
  <1> QED BY <1>1, <1>2, <1>3, <1>4, <1>5, <1>6, <1>7, <1>8, <1>9, <1>10, <1>11, <1>12

LEMMA ProgramTypes ==
    ASSUME NEW p \in MaybePointer, NEW q \in MaybePointer
    PROVE  /\ AssignProgram(p, q) \in Programs /\ ToLoad(p, q) \in Programs /\ ToHold(p) \in Programs
           /\ ToStore(p) \in Programs /\ ToReturn \in Programs /\ ToDrop \in Programs
           /\ CopyProgram(p, q) \in Programs /\ HoldAndStore(p) \in Programs /\ StoreOnly(p) \in Programs
           /\ MoveProgram(p, q) \in Programs /\ ResetAndStore(p) \in Programs
           /\ ResetProgram(p) \in Programs /\ <<>> \in Programs
  <1>1. /\ Do("reset", p) \in Steps /\ Do("load", q) \in Steps /\ Do("addRef", Null) \in Steps
        /\ Do("store", p) \in Steps /\ Do("release", Null) \in Steps /\ Do("detach", q) \in Steps
    BY DEF Do, Steps, MaybePointer
  <1> QED BY <1>1 DEF Programs, AssignProgram, ToLoad, ToHold, ToStore, ToReturn, ToDrop, CopyProgram,
                      HoldAndStore, StoreOnly, MoveProgram, ResetAndStore, ResetProgram

-----------------------------------------------------------------------------
(* Counting: a set that changes at one element.                            *)
One(b) == IF b THEN 1 ELSE 0

LEMMA ChangesAtOne ==
    ASSUME NEW A, NEW B, NEW x, IsFiniteSet(A), A \ {x} = B \ {x}
    PROVE  /\ Cardinality(A) \in Nat /\ Cardinality(B) \in Nat
           /\ Cardinality(B) + One(x \in A) = Cardinality(A) + One(x \in B)
  <1>1. IsFiniteSet(A \ {x}) /\ Cardinality(A \ {x}) = IF x \in A THEN Cardinality(A) - 1 ELSE Cardinality(A)
    BY FS_RemoveElement
  <1>2. x \notin B \ {x}
    OBVIOUS
  <1>3. /\ IsFiniteSet((B \ {x}) \cup {x})
        /\ Cardinality((B \ {x}) \cup {x}) = Cardinality(B \ {x}) + 1
    BY <1>1, <1>2, FS_AddElement
  <1>4. IsFiniteSet(B) /\ (x \in B => B = (B \ {x}) \cup {x}) /\ (x \notin B => B = B \ {x})
    <2>1. B \subseteq (B \ {x}) \cup {x}
      OBVIOUS
    <2> QED BY <1>3, <2>1, FS_Subset
  <1>5. Cardinality(A) \in Nat /\ Cardinality(B) \in Nat
    BY <1>4, FS_CardinalityType
  <1>6. Cardinality(A) = Cardinality(A \ {x}) + One(x \in A)
    BY <1>1, <1>5 DEF One
  <1>7. Cardinality(B) = Cardinality(B \ {x}) + One(x \in B)
    <2>1. Cardinality(B \ {x}) \in Nat
      BY <1>1, FS_CardinalityType
    <2> QED BY <1>3, <1>4, <2>1 DEF One
  <1>8. Cardinality(A \ {x}) \in Nat
    BY <1>1, FS_CardinalityType
  <1> QED BY <1>5, <1>6, <1>7, <1>8 DEF One

(* Whoever holds an object keeps it counted, and so alive.                 *)
LEMMA CountedTypes ==
    ASSUME NEW hand, NEW o
    PROVE  /\ IsFiniteSet(Holders(o)) /\ IsFiniteSet(Delegates(o))
           /\ IsFiniteSet(Carriers(hand, o)) /\ IsFiniteSet(Droppers(hand, o))
           /\ Cardinality(Holders(o)) \in Nat /\ Cardinality(Delegates(o)) \in Nat
           /\ Cardinality(Carriers(hand, o)) \in Nat /\ Cardinality(Droppers(hand, o)) \in Nat
  <1>1. /\ Holders(o) \subseteq Pointers /\ Delegates(o) \subseteq Objects
        /\ Carriers(hand, o) \subseteq Threads /\ Droppers(hand, o) \subseteq Threads
    BY DEF Holders, Delegates, Carriers, Droppers
  <1>2. /\ IsFiniteSet(Holders(o)) /\ IsFiniteSet(Delegates(o))
        /\ IsFiniteSet(Carriers(hand, o)) /\ IsFiniteSet(Droppers(hand, o))
    BY <1>1, FiniteAssumption, FS_Subset
  <1> QED BY <1>2, FS_CardinalityType

LEMMA HeldIsCounted ==
    ASSUME NEW hand, CountsFit(hand), NEW o \in Objects,
           \/ \E p \in Pointers : ptr[p] = o
           \/ \E d \in Objects : life[d] = "alive" /\ implementer[d] = o
           \/ \E t \in Threads : hand[t].carries = o \/ hand[t].drops = o
    PROVE  refCount[o] > 0
  <1>1. \/ Holders(o) # {} \/ Delegates(o) # {} \/ Carriers(hand, o) # {} \/ Droppers(hand, o) # {}
    BY DEF Holders, Delegates, Carriers, Droppers
  <1>2. \/ Cardinality(Holders(o)) # 0 \/ Cardinality(Delegates(o)) # 0
        \/ Cardinality(Carriers(hand, o)) # 0 \/ Cardinality(Droppers(hand, o)) # 0
    BY <1>1, CountedTypes, FS_EmptySet
  <1> QED BY <1>2, CountedTypes DEF CountsFit

LEMMA HeldIsAlive ==
    ASSUME NEW hand, Fits(hand), NEW o \in Objects,
           \/ \E p \in Pointers : ptr[p] = o
           \/ \E d \in Objects : life[d] = "alive" /\ implementer[d] = o
           \/ \E t \in Threads : hand[t].carries = o \/ hand[t].drops = o
    PROVE  /\ life[o] = "alive" /\ refCount[o] > 0
           /\ \A t \in Threads : hand[t].claims # o
  <1>1. refCount[o] > 0
    BY HeldIsCounted DEF Fits
  <1>2. refCount[o] # 0
    BY <1>1
  <1> QED BY <1>1, <1>2 DEF Fits, ClaimsFit

(* A step of a thread passes references on, at most one pointer's, one     *)
(* delegate's and its own.                                                 *)
Content(x) == IF x \in Pointers THEN ptr[x] ELSE Null
Kept(d) == IF d \in Objects /\ life[d] = "alive" THEN implementer[d] ELSE Null
Passed(o, content, kept, h) ==
    One(content = o) + One(kept = o) + One(h.carries = o) + One(h.drops = o)

PassesOn(old, new, x, d) ==
    /\ \A y \in Pointers : y # x => ptr'[y] = ptr[y]
    /\ \A e \in Objects : e # d => life'[e] = life[e] /\ implementer'[e] = implementer[e]
    /\ \A o \in Objects :
          refCount'[o] + Passed(o, Content(x), Kept(d), old) = refCount[o] + Passed(o, Content(x)', Kept(d)', new)

LEMMA CountsPass ==
    ASSUME NEW hand \in [Threads -> Hands], CountsFit(hand), NEW t \in Threads, NEW new \in Hands,
           NEW now, now = [hand EXCEPT ![t] = new],
           refCount \in [Objects -> Nat], refCount' \in [Objects -> Nat],
           NEW x, NEW d, PassesOn(hand[t], new, x, d)
    PROVE  CountsFit(now)'
  <1> SUFFICES ASSUME NEW o \in Objects
               PROVE  refCount'[o] = Cardinality(Holders(o)') + Cardinality(Delegates(o)')
                         + Cardinality(Carriers(now, o)) + Cardinality(Droppers(now, o))
    BY DEF CountsFit, Carriers, Droppers
  <1>9. PICK content, nowContent, kept, nowKept :
           /\ content = Content(x) /\ nowContent = Content(x)' /\ kept = Kept(d) /\ nowKept = Kept(d)'
    OBVIOUS
  <1>0. o # Null
    BY NullAssumption
  <1>1. /\ Cardinality(Holders(o)') \in Nat
        /\ Cardinality(Holders(o)') + One(content = o)
             = Cardinality(Holders(o)) + One(nowContent = o)
    <2>1. Holders(o) \ {x} = Holders(o)' \ {x}
      BY DEF Holders, PassesOn
    <2>2. /\ x \in Holders(o) <=> content = o
          /\ x \in Holders(o)' <=> nowContent = o
      BY <1>0, <1>9 DEF Holders, Content
    <2>3. /\ Cardinality(Holders(o)') \in Nat
          /\ Cardinality(Holders(o)') + One(x \in Holders(o)) = Cardinality(Holders(o)) + One(x \in Holders(o)')
      BY <2>1, CountedTypes, ChangesAtOne
    <2> QED BY <2>2, <2>3 DEF One
  <1>2. /\ Cardinality(Delegates(o)') \in Nat
        /\ Cardinality(Delegates(o)') + One(kept = o)
             = Cardinality(Delegates(o)) + One(nowKept = o)
    <2>1. Delegates(o) \ {d} = Delegates(o)' \ {d}
      BY DEF Delegates, PassesOn
    <2>2. /\ d \in Delegates(o) <=> kept = o
          /\ d \in Delegates(o)' <=> nowKept = o
      BY <1>0, <1>9 DEF Delegates, Kept
    <2>3. /\ Cardinality(Delegates(o)') \in Nat
          /\ Cardinality(Delegates(o)') + One(d \in Delegates(o))
               = Cardinality(Delegates(o)) + One(d \in Delegates(o)')
      BY <2>1, CountedTypes, ChangesAtOne
    <2> QED BY <2>2, <2>3 DEF One
  <1>3. now[t] = new /\ \A u \in Threads : u # t => now[u] = hand[u]
    OBVIOUS
  <1>4. /\ Cardinality(Carriers(now, o)) \in Nat
        /\ Cardinality(Carriers(now, o)) + One(hand[t].carries = o)
             = Cardinality(Carriers(hand, o)) + One(new.carries = o)
    <2>1. Carriers(hand, o) \ {t} = Carriers(now, o) \ {t}
      BY <1>3 DEF Carriers
    <2>2. (t \in Carriers(hand, o) <=> hand[t].carries = o) /\ (t \in Carriers(now, o) <=> new.carries = o)
      BY <1>3 DEF Carriers
    <2>3. /\ Cardinality(Carriers(now, o)) \in Nat
          /\ Cardinality(Carriers(now, o)) + One(t \in Carriers(hand, o))
               = Cardinality(Carriers(hand, o)) + One(t \in Carriers(now, o))
      BY <2>1, CountedTypes, ChangesAtOne
    <2> QED BY <2>2, <2>3 DEF One
  <1>5. /\ Cardinality(Droppers(now, o)) \in Nat
        /\ Cardinality(Droppers(now, o)) + One(hand[t].drops = o)
             = Cardinality(Droppers(hand, o)) + One(new.drops = o)
    <2>1. Droppers(hand, o) \ {t} = Droppers(now, o) \ {t}
      BY <1>3 DEF Droppers
    <2>2. (t \in Droppers(hand, o) <=> hand[t].drops = o) /\ (t \in Droppers(now, o) <=> new.drops = o)
      BY <1>3 DEF Droppers
    <2>3. /\ Cardinality(Droppers(now, o)) \in Nat
          /\ Cardinality(Droppers(now, o)) + One(t \in Droppers(hand, o))
               = Cardinality(Droppers(hand, o)) + One(t \in Droppers(now, o))
      BY <2>1, CountedTypes, ChangesAtOne
    <2> QED BY <2>2, <2>3 DEF One
  <1>6. /\ refCount'[o] + (One(content = o)
              + One(kept = o)
              + One(hand[t].carries = o) + One(hand[t].drops = o))
          = refCount[o] + (One(nowContent = o)
              + One(nowKept = o)
              + One(new.carries = o) + One(new.drops = o))
    BY <1>9 DEF PassesOn, Passed
  <1>7. /\ refCount[o] = Cardinality(Holders(o)) + Cardinality(Delegates(o))
                         + Cardinality(Carriers(hand, o)) + Cardinality(Droppers(hand, o))
        /\ refCount[o] \in Nat /\ refCount'[o] \in Nat
    BY DEF CountsFit
  <1>8. \A b \in BOOLEAN : One(b) \in Nat
    BY DEF One
  <1> QED BY <1>1, <1>2, <1>4, <1>5, <1>6, <1>7, CountedTypes DEF One

(* An object's life changes with its count or with a claim to it.          *)
ClaimsMove(t, hand, new, w) ==
    /\ \A o \in Objects : o # w =>
          /\ life'[o] = "alive" <=> life[o] = "alive"
          /\ refCount'[o] > 0 <=> refCount[o] > 0
    /\ hand[t].claims \in {w, Null} /\ new.claims \in {w, Null}
    /\ w \in Objects =>
          /\ life'[w] = "alive" <=> refCount'[w] > 0 \/ new.claims = w
          /\ new.claims = w => refCount'[w] = 0
          /\ \A u \in Threads : u # t => hand[u].claims # w

LEMMA ClaimsPass ==
    ASSUME NEW hand \in [Threads -> Hands], ClaimsFit(hand), NEW t \in Threads, NEW new \in Hands,
           NEW now, now = [hand EXCEPT ![t] = new],
           refCount \in [Objects -> Nat], refCount' \in [Objects -> Nat],
           NEW w, ClaimsMove(t, hand, new, w)
    PROVE  ClaimsFit(now)'
  <1>1. now[t] = new /\ \A u \in Threads : u # t => now[u] = hand[u]
    OBVIOUS
  <1> SUFFICES ASSUME NEW o \in Objects
               PROVE  /\ life'[o] = "alive" <=> refCount'[o] > 0 \/ \E u \in Threads : now[u].claims = o
                      /\ \A u, v \in Threads : now[u].claims = o /\ now[v].claims = o
                                                  => u = v /\ refCount'[o] = 0
    BY DEF ClaimsFit
  <1>2. CASE o = w
    BY <1>1, <1>2 DEF ClaimsMove
  <1>3. CASE o # w
    <2>1. o # Null
      BY NullAssumption
    <2>2. \A u \in Threads : now[u].claims = o <=> hand[u].claims = o
      BY <1>1, <1>3, <2>1 DEF ClaimsMove
    <2>3. refCount[o] = 0 <=> refCount'[o] = 0
      <3>1. refCount[o] \in Nat /\ refCount'[o] \in Nat /\ (refCount'[o] > 0 <=> refCount[o] > 0)
        BY <1>3 DEF ClaimsMove
      <3> QED BY <3>1
    <2> QED BY <1>3, <2>2, <2>3 DEF ClaimsFit, ClaimsMove
  <1> QED BY <1>2, <1>3

(* What another thread does leaves the pointers alone that this one writes *)
(* or reads, so its place stays its place.                                 *)
LEMMA OthersStay ==
    ASSUME ComTypeOK, NEW t \in Threads, NEW u \in Threads, u # t, NEW h, Place(u, h), NEW x,
           code'[u] = code[u], reg'[u] = reg[u], goal'[u] = goal[u],
           \A y \in Pointers : y # x => ptr'[y] = ptr[y],
           x \in Pointers => OwnerOf[x] = t,
           x \in Pointers /\ ~Quiet(u) => goal[u].source # x
    PROVE  Place(u, h)'
  <1>1. CASE code[u] = <<>> /\ goal[u] = NoGoal /\ h = Holding(Null, Null, Null)
    BY <1>1 DEF Place, NoGoal, Holding
  <1>2. CASE Mine(u, goal[u].pointer) /\ (Assigning(u, h) \/ Copying(u, h) \/ Moving(u, h) \/ Resetting(u, h) \/ Resuming(u, h))
    <2>1. PICK p \in Pointers : p = goal[u].pointer /\ OwnerOf[p] = u
      BY <1>2 DEF Mine
    <2>2. PICK q \in MaybePointer : q = goal[u].source
      BY DEF ComTypeOK, Goals
    <2>3. p # x /\ ptr'[p] = ptr[p]
      BY <2>1
    <2>4. ~Quiet(u) /\ Reading(u) => Reading(u)'
      BY <2>2 DEF Reading
    <2>5. \A rest : Before(u, rest, h) => Before(u, rest, h)'
      BY DEF Before
    <2>6. /\ AssignProgram(p, q) # <<>> /\ ToHold(p) # <<>> /\ CopyProgram(p, q) # <<>>
          /\ HoldAndStore(p) # <<>> /\ MoveProgram(p, q) # <<>>
      BY ProgramSteps DEF Starts
    <2>7. Before(u, ToLoad(p, q), h) => ~Quiet(u)
      <3>1. ToLoad(p, q) \in Programs /\ ToLoad(p, q) # <<>>
        <4>1. ToLoad(p, q) \in Programs
          BY <2>1, <2>2, ProgramTypes DEF MaybePointer
        <4>2. ToLoad(p, q) # <<>>
          BY ProgramSteps DEF Starts
        <4> QED BY <4>1, <4>2
      <3>2. \A y : <<y>> \o ToLoad(p, q) # <<>>
        <4> TAKE y
        <4>1. ToLoad(p, q) \in Seq(Steps \cup Tests \cup {y})
          BY <3>1 DEF Programs
        <4> QED BY <4>1, Prepended
      <3> QED BY <3>1, <3>2 DEF Before, Quiet
    <2>8. CASE Assigning(u, h)
      BY <2>1, <2>2, <2>3, <2>4, <2>6, <2>8 DEF Assigning, Quiet, Place, Mine
    <2>9. CASE Copying(u, h)
      BY <2>1, <2>2, <2>3, <2>4, <2>6, <2>9 DEF Copying, Quiet, Place, Mine
    <2>10. CASE Moving(u, h)
      BY <2>1, <2>2, <2>3, <2>4, <2>6, <2>10 DEF Moving, Quiet, Place, Mine
    <2>11. CASE Resetting(u, h)
      BY <2>1, <2>11 DEF Resetting, Place, Mine
    <2>12. CASE Resuming(u, h)
      <3>1. PICK rest \in Programs : Before(u, rest, h) /\ Resumes(u, rest, h.carries)
        BY <2>12 DEF Resuming
      <3>2. Resumes(u, rest, h.carries)'
        BY <2>1, <2>2, <2>3, <2>4, <2>7, <3>1 DEF Resumes
      <3> QED BY <2>1, <2>5, <3>1, <3>2 DEF Resuming, Place, Mine
    <2> QED BY <1>2, <2>8, <2>9, <2>10, <2>11, <2>12
  <1> QED BY <1>1, <1>2 DEF Place

(* Where a thread is, by the step it is at.                                *)
Program(t, p, q, o) ==
    /\ p \in Pointers /\ q \in MaybePointer /\ o \in Maybe
    /\ p = goal[t].pointer /\ q = goal[t].source /\ o = goal[t].object
    /\ OwnerOf[p] = t

LEMMA HasProgram ==
    ASSUME ComTypeOK, NEW t \in Threads, NEW h \in Hands, Place(t, h), ~Quiet(t)
    PROVE  /\ \E p, q, o : Program(t, p, q, o)
           /\ Assigning(t, h) \/ Copying(t, h) \/ Moving(t, h) \/ Resetting(t, h) \/ Resuming(t, h)
  BY DEF ComTypeOK, Goals, Place, Mine, Quiet, Program

LEMMA BeforeSteps ==
    ASSUME ComTypeOK, NEW t \in Threads, NEW h \in Hands, NEW rest \in Programs, Before(t, rest, h)
    PROVE  \/ code[t] = rest /\ h = Holding(h.carries, Null, Null)
           \/ /\ h.drops \in Objects /\ h = Holding(h.carries, h.drops, Null)
              /\ Starts(code[t], "release", h.drops, rest)
           \/ \E o \in Objects, n \in Nat :
                 /\ h = Holding(h.carries, Null, IF n = 1 THEN o ELSE Null)
                 /\ Starts(code[t], "test", o, rest) /\ Head(code[t]).was = n
  <1>1. h = Holding(h.carries, h.drops, h.claims)
    BY DEF Hands, Holding
  <1>2. CASE code[t] = rest /\ h.drops = Null /\ h.claims = Null
    BY <1>1, <1>2
  <1>3. CASE h.drops \in Objects /\ h.claims = Null /\ code[t] = << Do("release", h.drops) >> \o rest
    <2>1. Do("release", h.drops) \in Steps \cup Tests
      BY <1>3 DEF Do, Steps
    <2>2. Starts(code[t], "release", h.drops, rest)
      BY <1>3, <2>1, Prepended DEF Programs, Starts, Do
    <2> QED BY <1>1, <1>3, <2>2
  <1>4. ASSUME h.drops = Null, NEW o \in Objects, NEW n \in Nat,
               code[t] = << [op |-> "test", arg |-> o, was |-> n] >> \o rest,
               h.claims = IF n = 1 THEN o ELSE Null
        PROVE  /\ h = Holding(h.carries, Null, IF n = 1 THEN o ELSE Null)
               /\ Starts(code[t], "test", o, rest) /\ Head(code[t]).was = n
    <2>1. PICK x \in Steps \cup Tests : x = [op |-> "test", arg |-> o, was |-> n]
      BY DEF Tests
    <2>2. code[t] # <<>> /\ Head(code[t]) = x /\ Tail(code[t]) = rest
      BY <1>4, <2>1, Prepended DEF Programs
    <2> QED BY <1>1, <1>4, <2>1, <2>2 DEF Starts
  <1> QED BY <1>2, <1>3, <1>4 DEF Before

LEMMA ResumesAt ==
    ASSUME NEW t \in Threads, NEW rest \in Programs, NEW carries,
           NEW p, NEW q, NEW o, Program(t, p, q, o), Resumes(t, rest, carries)
    PROVE  \/ /\ rest = ToLoad(p, q) /\ p # q /\ Reading(t) /\ ptr[p] = Null /\ carries = Null
              /\ Starts(rest, "load", q, ToHold(p))
           \/ /\ rest = StoreOnly(p) /\ ptr[p] = Null /\ reg[t] = o /\ carries = o
              /\ Starts(rest, "store", p, <<>>)
           \/ rest = <<>> /\ ptr[p] = o /\ carries = Null
  BY ProgramSteps DEF Resumes, Program

Empty == Holding(Null, Null, Null)

LEMMA Positions ==
    ASSUME ComTypeOK, NEW t \in Threads, NEW h \in Hands, Place(t, h), ~Quiet(t),
           NEW p, NEW q, NEW o, Program(t, p, q, o)
    PROVE  \/ Starts(code[t], "reset", p, ToLoad(p, q)) /\ p # q /\ Reading(t) /\ h = Empty
           \/ Starts(code[t], "reset", p, StoreOnly(p)) /\ reg[t] = o /\ h = Holding(o, Null, Null)
           \/ Starts(code[t], "reset", p, <<>>) /\ o = Null /\ h = Empty
           \/ /\ Starts(code[t], "load", q, ToHold(p)) \/ Starts(code[t], "load", q, HoldAndStore(p))
              /\ Reading(t) /\ ptr[p] = Null /\ h = Empty
           \/ /\ Starts(code[t], "detach", q, ResetAndStore(p))
              /\ p # q /\ Mine(t, q) /\ Reading(t) /\ h = Empty
           \/ /\ Starts(code[t], "store", p, ToReturn) \/ Starts(code[t], "store", p, <<>>)
              /\ ptr[p] = Null /\ reg[t] = o /\ h = Holding(o, Null, Null)
           \/ /\ Starts(code[t], "addRef", Null, ToStore(p)) \/ Starts(code[t], "addRef", Null, StoreOnly(p))
              /\ ptr[p] = Null /\ reg[t] = o /\ Reading(t) /\ h = Empty
           \/ /\ Starts(code[t], "addRef", Null, StoreOnly(p))
              /\ ptr[p] = Null /\ reg[t] = o /\ o \in Objects /\ h = Holding(Null, Null, o)
           \/ Starts(code[t], "addRef", Null, ToDrop) /\ ptr[p] = o /\ reg[t] = o /\ h = Empty
           \/ /\ Starts(code[t], "release", Null, <<>>)
              /\ reg[t] = o /\ ptr[p] = o /\ h = Holding(o, Null, Null)
           \/ \E rest \in Programs :
                 /\ Starts(code[t], "release", h.drops, rest)
                 /\ h.drops \in Objects /\ h = Holding(h.carries, h.drops, Null)
                 /\ Resumes(t, rest, h.carries)
           \/ \E rest \in Programs, a \in Objects, n \in Nat :
                 /\ Starts(code[t], "test", a, rest) /\ Head(code[t]).was = n
                 /\ h = Holding(h.carries, Null, IF n = 1 THEN a ELSE Null)
                 /\ Resumes(t, rest, h.carries)
  <1>1. p = goal[t].pointer /\ q = goal[t].source /\ o = goal[t].object
    BY DEF Program
  <1>2. Assigning(t, h) \/ Copying(t, h) \/ Moving(t, h) \/ Resetting(t, h) \/ Resuming(t, h)
    BY HasProgram
  <1>3. CASE Assigning(t, h)
    BY <1>1, <1>3, ProgramSteps DEF Assigning, Empty
  <1>4. CASE Copying(t, h)
    BY <1>1, <1>4, ProgramSteps DEF Copying, Empty
  <1>5. CASE Moving(t, h)
    BY <1>1, <1>5, ProgramSteps DEF Moving, Empty
  <1>6. CASE Resetting(t, h)
    BY <1>1, <1>6, ProgramSteps DEF Resetting, Empty
  <1>7. CASE Resuming(t, h)
    <2>1. PICK rest \in Programs : Before(t, rest, h) /\ Resumes(t, rest, h.carries)
      BY <1>7 DEF Resuming
    <2>2. CASE code[t] = rest /\ h = Holding(h.carries, Null, Null)
      BY <2>1, <2>2, ResumesAt DEF Quiet, Empty
    <2>3. CASE /\ h.drops \in Objects /\ h = Holding(h.carries, h.drops, Null)
               /\ Starts(code[t], "release", h.drops, rest)
      BY <2>1, <2>3
    <2>4. CASE \E a \in Objects, n \in Nat :
                  /\ h = Holding(h.carries, Null, IF n = 1 THEN a ELSE Null)
                  /\ Starts(code[t], "test", a, rest) /\ Head(code[t]).was = n
      BY <2>1, <2>4
    <2> QED BY <2>1, <2>2, <2>3, <2>4, BeforeSteps
  <1> QED BY <1>2, <1>3, <1>4, <1>5, <1>6, <1>7

(* Whoever acts changes what is its own.                                   *)
Alone(t, x) ==
    /\ \A u \in Threads : u # t => code'[u] = code[u] /\ reg'[u] = reg[u] /\ goal'[u] = goal[u]
    /\ x \in Pointers => OwnerOf[x] = t /\ \A u \in Threads : u # t /\ ~Quiet(u) => goal[u].source # x

LEMMA Acts ==
    ASSUME ComTypeOK, NEW hand, Fits(hand), NEW t \in Threads, NEW new \in Hands,
           NEW x, NEW d, NEW w,
           ComTypeOK', Exclusive', Alone(t, x), PassesOn(hand[t], new, x, d), ClaimsMove(t, hand, new, w),
           Place(t, new)'
    PROVE  ComInv'
  <1>1. /\ hand \in [Threads -> Hands] /\ CountsFit(hand) /\ ClaimsFit(hand)
        /\ refCount \in [Objects -> Nat] /\ refCount' \in [Objects -> Nat]
    BY DEF Fits, ComTypeOK
  <1> PICK now : now = [hand EXCEPT ![t] = new]
    OBVIOUS
  <1>2. CountsFit(now)'
    BY <1>1, CountsPass
  <1>3. ClaimsFit(now)'
    BY <1>1, ClaimsPass
  <1>5. ASSUME NEW u \in Threads PROVE Place(u, now[u])'
    <2>1. CASE u = t
      BY <1>1, <2>1
    <2>2. CASE u # t
      <3>1. now[u] = hand[u] /\ Place(u, hand[u])
        BY <1>1, <2>2 DEF Fits
      <3>2. x \in Pointers /\ ~Quiet(u) => goal[u].source # x
        BY <2>2 DEF Alone
      <3>3. Place(u, hand[u])'
        BY <2>2, <3>1, <3>2, OthersStay DEF Alone, PassesOn
      <3> QED BY <3>1, <3>3
    <2> QED BY <2>1, <2>2
  <1>6. now \in [Threads -> Hands]
    BY <1>1
  <1>7. Fits(now)'
    BY <1>2, <1>3, <1>5, <1>6 DEF Fits
  <1> QED BY <1>7 DEF ComInv

(* A step of a thread within its program.                                  *)
Writes(t, x) ==
    /\ goal' = goal
    /\ \A u \in Threads : u # t => code'[u] = code[u] /\ reg'[u] = reg[u]
    /\ code'[t] # <<>> => Head(code'[t]).op # "detach"
    /\ x \in Pointers =>
          /\ OwnerOf[x] = t
          /\ x = goal[t].pointer \/ (Head(code[t]).op = "detach" /\ x = goal[t].source)

LEMMA Advance ==
    ASSUME ComTypeOK, Exclusive, NEW hand, Fits(hand), NEW t \in Threads, ~Quiet(t), NEW new \in Hands,
           NEW x, NEW d, NEW w,
           ComTypeOK', Writes(t, x), PassesOn(hand[t], new, x, d), ClaimsMove(t, hand, new, w),
           Place(t, new)'
    PROVE  ComInv'
  <1>1. Exclusive'
    BY DEF Exclusive, Quiet, Writes
  <1>2. Alone(t, x)
    BY NullAssumption DEF Exclusive, Writes, Alone
  <1> QED BY <1>1, <1>2, Acts

LEMMA AtOnce ==
    ASSUME ComInv, NEW t \in Threads, ~Quiet(t)
    PROVE  \E hand, h, p, q, o :
              /\ Fits(hand) /\ h = hand[t] /\ h \in Hands /\ Place(t, h)
              /\ Program(t, p, q, o) /\ ComTypeOK /\ Exclusive
  <1>1. PICK hand : Fits(hand)
    BY DEF ComInv
  <1>2. hand[t] \in Hands /\ Place(t, hand[t])
    BY <1>1 DEF Fits
  <1>3. \E p, q, o : Program(t, p, q, o)
    BY <1>2, HasProgram DEF ComInv
  <1> QED BY <1>1, <1>2, <1>3 DEF ComInv

LEMMA HandFields == \A c, r, a :
    /\ Holding(c, r, a).carries = c /\ Holding(c, r, a).drops = r /\ Holding(c, r, a).claims = a
    /\ c \in Maybe /\ r \in Maybe /\ a \in Maybe => Holding(c, r, a) \in Hands
  BY DEF Holding, Hands

LEMMA DropDiffers == \A p : ToDrop # ToStore(p) /\ ToDrop # StoreOnly(p)
  <1> SUFFICES ASSUME NEW p PROVE ToDrop # ToStore(p) /\ ToDrop # StoreOnly(p)
    OBVIOUS
  <1>1. /\ Starts(ToStore(p), "store", p, ToReturn) /\ Starts(StoreOnly(p), "store", p, <<>>)
        /\ Starts(ToDrop, "release", Null, <<>>)
    BY ProgramSteps
  <1> QED BY <1>1 DEF Starts

LEMMA LoadKeeps ==
    ASSUME ComInv, NEW t \in Threads, Load(t)
    PROVE  ComInv'
  <1>1. ~Quiet(t)
    BY DEF Load, Next1, Quiet
  <1>2. PICK hand, h, p, q, o :
              /\ Fits(hand) /\ h = hand[t] /\ h \in Hands /\ Place(t, h)
              /\ Program(t, p, q, o) /\ ComTypeOK /\ Exclusive
    BY <1>1, AtOnce
  <1>3. /\ Starts(code[t], "load", q, ToHold(p)) \/ Starts(code[t], "load", q, HoldAndStore(p))
        /\ Reading(t) /\ ptr[p] = Null /\ h = Empty
    BY <1>1, <1>2, Positions DEF Load, Next1, Starts
  <1>4. /\ p \in Pointers /\ q \in Pointers /\ o \in Maybe /\ ptr[q] = o /\ OwnerOf[p] = t
        /\ p = goal[t].pointer /\ q = goal[t].source /\ o = goal[t].object
    BY <1>2, <1>3 DEF Program, Reading
  <1>5. PICK rest \in {ToHold(p), HoldAndStore(p)} : Starts(code[t], "load", q, rest)
    BY <1>3
  <1>6. rest \in Programs /\ Starts(rest, "addRef", Null, Tail(rest)) /\ <<>> \o rest = rest
    <2>1. rest \in Programs
      BY <1>4, ProgramTypes DEF MaybePointer
    <2>2. \/ Starts(rest, "addRef", Null, ToStore(p)) \/ Starts(rest, "addRef", Null, StoreOnly(p))
      BY ProgramSteps
    <2> QED BY <2>1, <2>2, ConcatEmptySeq DEF Programs, Starts
  <1>7. /\ code' = [code EXCEPT ![t] = rest] /\ reg' = [reg EXCEPT ![t] = o]
        /\ UNCHANGED <<ptr, life, refCount, implementer, goal, wild>>
    BY <1>4, <1>5, <1>6 DEF Load, Then, Arg, Starts
  <1>8. ComTypeOK'
    BY <1>2, <1>4, <1>6, <1>7 DEF ComTypeOK
  <1>9. /\ code'[t] = rest /\ reg'[t] = o
        /\ \A u \in Threads : u # t => code'[u] = code[u] /\ reg'[u] = reg[u]
    BY <1>2, <1>7 DEF ComTypeOK
  <1>10. Place(t, h)'
    <2>1. Reading(t)' /\ Mine(t, goal[t].pointer)'
      BY <1>3, <1>4, <1>7 DEF Reading, Mine
    <2> QED BY <1>3, <1>4, <1>5, <1>7, <1>9, <2>1 DEF Place, Assigning, Copying, Empty
  <1>11. Writes(t, Null)
    BY <1>6, <1>7, <1>9, NullAssumption DEF Writes, Starts
  <1>12. PassesOn(h, h, Null, Null)
    BY <1>7, NullAssumption DEF PassesOn, Content, Kept
  <1>13. ClaimsMove(t, hand, h, Null)
    BY <1>2, <1>3, <1>7, NullAssumption DEF ClaimsMove, Empty, Holding
  <1> QED BY <1>1, <1>2, <1>8, <1>10, <1>11, <1>12, <1>13, Advance

LEMMA DetachKeeps ==
    ASSUME ComInv, NEW t \in Threads, Detach(t)
    PROVE  ComInv'
  <1>1. ~Quiet(t)
    BY DEF Detach, Next1, Quiet
  <1>2. PICK hand, h, p, q, o :
              /\ Fits(hand) /\ h = hand[t] /\ h \in Hands /\ Place(t, h)
              /\ Program(t, p, q, o) /\ ComTypeOK /\ Exclusive
    BY <1>1, AtOnce
  <1>3. /\ Starts(code[t], "detach", q, ResetAndStore(p))
        /\ p # q /\ Mine(t, q) /\ Reading(t) /\ h = Empty
    BY <1>1, <1>2, Positions DEF Detach, Next1, Starts
  <1>4. /\ p \in Pointers /\ q \in Pointers /\ o \in Maybe /\ ptr[q] = o /\ OwnerOf[p] = t /\ OwnerOf[q] = t
        /\ p = goal[t].pointer /\ q = goal[t].source /\ o = goal[t].object
    BY <1>2, <1>3 DEF Program, Reading, Mine
  <1>5. PICK rest \in Programs : rest = ResetAndStore(p)
    BY <1>4, ProgramTypes DEF MaybePointer
  <1>6. Starts(rest, "reset", p, StoreOnly(p)) /\ <<>> \o rest = rest
    BY <1>5, ProgramSteps, ConcatEmptySeq DEF Programs
  <1>7. /\ code' = [code EXCEPT ![t] = rest] /\ reg' = [reg EXCEPT ![t] = o]
        /\ ptr' = [ptr EXCEPT ![q] = Null]
        /\ UNCHANGED <<life, refCount, implementer, goal, wild>>
    BY <1>3, <1>4, <1>5, <1>6 DEF Detach, Then, Arg, Starts
  <1>8. ComTypeOK'
    BY <1>2, <1>4, <1>7 DEF ComTypeOK, Maybe
  <1>9. /\ code'[t] = rest /\ reg'[t] = o /\ ptr'[q] = Null
        /\ \A u \in Threads : u # t => code'[u] = code[u] /\ reg'[u] = reg[u]
        /\ \A y \in Pointers : y # q => ptr'[y] = ptr[y]
    BY <1>2, <1>4, <1>7 DEF ComTypeOK
  <1>10. PICK new \in Hands : new = Holding(o, Null, Null) /\ new.carries = o /\ new.drops = Null /\ new.claims = Null
    BY <1>4, HandFields DEF Maybe
  <1>11. h.carries = Null /\ h.drops = Null /\ h.claims = Null
    BY <1>3, HandFields DEF Empty, Maybe
  <1>12. Place(t, new)'
    BY <1>4, <1>5, <1>7, <1>9, <1>10 DEF Place, Moving, Mine
  <1>13. Writes(t, q)
    BY <1>3, <1>4, <1>6, <1>7, <1>9 DEF Writes, Starts
  <1>14. PassesOn(h, new, q, Null)
    <2>1. Content(q) = o /\ Content(q)' = Null
      BY <1>4, <1>9 DEF Content
    <2>2. Kept(Null) = Null /\ Kept(Null)' = Null
      BY NullAssumption DEF Kept
    <2>3. \A a \in Objects : Passed(a, o, Null, h) = Passed(a, Null, Null, new)
      BY <1>10, <1>11, NullAssumption DEF Passed, One
    <2> QED BY <1>7, <1>9, <2>1, <2>2, <2>3 DEF PassesOn
  <1>15. ClaimsMove(t, hand, new, Null)
    BY <1>2, <1>7, <1>10, <1>11, NullAssumption DEF ClaimsMove
  <1> QED BY <1>1, <1>2, <1>8, <1>12, <1>13, <1>14, <1>15, Advance

LEMMA StoreKeeps ==
    ASSUME ComInv, NEW t \in Threads, Store(t)
    PROVE  ComInv'
  <1>1. ~Quiet(t)
    BY DEF Store, Next1, Quiet
  <1>2. PICK hand, h, p, q, o :
              /\ Fits(hand) /\ h = hand[t] /\ h \in Hands /\ Place(t, h)
              /\ Program(t, p, q, o) /\ ComTypeOK /\ Exclusive
    BY <1>1, AtOnce
  <1>3. /\ Starts(code[t], "store", p, ToReturn) \/ Starts(code[t], "store", p, <<>>)
        /\ ptr[p] = Null /\ reg[t] = o /\ h = Holding(o, Null, Null)
    BY <1>1, <1>2, Positions DEF Store, Next1, Starts
  <1>4. /\ p \in Pointers /\ o \in Maybe /\ OwnerOf[p] = t
        /\ p = goal[t].pointer /\ o = goal[t].object
    BY <1>2 DEF Program
  <1>5. PICK rest \in {ToReturn, <<>>} : Starts(code[t], "store", p, rest)
    BY <1>3
  <1>6. /\ rest \in Programs /\ <<>> \o rest = rest
        /\ rest # <<>> => Head(rest).op # "detach"
    <2>1. rest \in Programs
      BY <1>4, ProgramTypes DEF MaybePointer
    <2>2. Starts(ToReturn, "addRef", Null, ToDrop)
      BY ProgramSteps
    <2> QED BY <2>1, <2>2, ConcatEmptySeq DEF Programs, Starts
  <1>7. /\ code' = [code EXCEPT ![t] = rest] /\ ptr' = [ptr EXCEPT ![p] = o]
        /\ UNCHANGED <<life, refCount, implementer, reg, goal, wild>>
    BY <1>3, <1>4, <1>5, <1>6 DEF Store, Then, Arg, Starts
  <1>8. ComTypeOK'
    BY <1>2, <1>4, <1>6, <1>7 DEF ComTypeOK
  <1>9. /\ code'[t] = rest /\ reg'[t] = o /\ ptr'[p] = o
        /\ \A u \in Threads : u # t => code'[u] = code[u] /\ reg'[u] = reg[u]
        /\ \A y \in Pointers : y # p => ptr'[y] = ptr[y]
    BY <1>2, <1>3, <1>4, <1>7 DEF ComTypeOK
  <1>10. h.carries = o /\ h.drops = Null /\ h.claims = Null
    BY <1>3, <1>4, HandFields DEF Maybe
  <1>11. PICK new \in Hands : new = Empty /\ new.carries = Null /\ new.drops = Null /\ new.claims = Null
    BY HandFields DEF Empty, Maybe
  <1>12. Place(t, new)'
    <2>1. CASE rest = ToReturn
      BY <1>4, <1>7, <1>9, <1>11, <2>1 DEF Place, Assigning, Mine, Empty
    <2>2. CASE rest = <<>>
      <3>1. Before(t, rest, new)'
        BY <1>9, <1>11 DEF Before
      <3>2. Resumes(t, rest, new.carries)'
        BY <1>4, <1>7, <1>9, <1>11, <2>2 DEF Resumes
      <3> QED BY <1>4, <1>6, <1>7, <3>1, <3>2 DEF Place, Resuming, Mine
    <2> QED BY <2>1, <2>2
  <1>13. Writes(t, p)
    BY <1>4, <1>6, <1>7, <1>9 DEF Writes
  <1>14. PassesOn(h, new, p, Null)
    <2>1. Content(p) = Null /\ Content(p)' = o
      BY <1>3, <1>4, <1>9 DEF Content
    <2>2. Kept(Null) = Null /\ Kept(Null)' = Null
      BY NullAssumption DEF Kept
    <2>3. \A a \in Objects : Passed(a, Null, Null, h) = Passed(a, o, Null, new)
      BY <1>10, <1>11, NullAssumption DEF Passed, One
    <2> QED BY <1>7, <1>9, <2>1, <2>2, <2>3 DEF PassesOn
  <1>15. ClaimsMove(t, hand, new, Null)
    BY <1>2, <1>7, <1>10, <1>11, NullAssumption DEF ClaimsMove
  <1> QED BY <1>1, <1>2, <1>8, <1>12, <1>13, <1>14, <1>15, Advance

(* What is counted once more is held by a pointer or was just created.     *)
LEMMA AddRefKeeps ==
    ASSUME ComInv, NEW t \in Threads, AddRef(t)
    PROVE  ComInv'
  <1>1. ~Quiet(t)
    BY DEF AddRef, Next1, Quiet
  <1>2. PICK hand, h, p, q, o :
              /\ Fits(hand) /\ h = hand[t] /\ h \in Hands /\ Place(t, h)
              /\ Program(t, p, q, o) /\ ComTypeOK /\ Exclusive
    BY <1>1, AtOnce
  <1>3. \/ /\ Starts(code[t], "addRef", Null, ToStore(p)) \/ Starts(code[t], "addRef", Null, StoreOnly(p))
           /\ ptr[p] = Null /\ reg[t] = o /\ Reading(t) /\ h = Empty
        \/ /\ Starts(code[t], "addRef", Null, StoreOnly(p))
           /\ ptr[p] = Null /\ reg[t] = o /\ o \in Objects /\ h = Holding(Null, Null, o)
        \/ Starts(code[t], "addRef", Null, ToDrop) /\ ptr[p] = o /\ reg[t] = o /\ h = Empty
    BY <1>1, <1>2, Positions DEF AddRef, Next1, Starts
  <1>4. /\ p \in Pointers /\ o \in Maybe /\ OwnerOf[p] = t /\ reg[t] = o
        /\ p = goal[t].pointer /\ q = goal[t].source /\ o = goal[t].object
    BY <1>2, <1>3 DEF Program
  <1>5. PICK rest \in {ToStore(p), StoreOnly(p), ToDrop} :
           /\ Starts(code[t], "addRef", Null, rest)
           /\ IF rest = ToDrop THEN ptr[p] = o ELSE ptr[p] = Null
    BY <1>3, DropDiffers
  <1>6. /\ rest \in Programs /\ <<>> \o rest = rest
        /\ rest # <<>> => Head(rest).op # "detach"
    <2>1. rest \in Programs
      BY <1>4, ProgramTypes DEF MaybePointer
    <2>2. /\ Starts(ToStore(p), "store", p, ToReturn) /\ Starts(StoreOnly(p), "store", p, <<>>)
          /\ Starts(ToDrop, "release", Null, <<>>)
      BY ProgramSteps
    <2> QED BY <2>1, <2>2, ConcatEmptySeq DEF Programs, Starts
  <1>7. h.carries = Null /\ h.drops = Null /\ h.claims \in {o, Null}
    BY <1>3, <1>4, HandFields DEF Empty, Maybe
  <1>8. ASSUME o # Null
        PROVE  o \in Objects /\ life[o] = "alive" /\ \A u \in Threads : u # t => hand[u].claims # o
    <2>1. o \in Objects
      BY <1>4, <1>8 DEF Maybe
    <2>2. CASE \E y \in Pointers : ptr[y] = o
      BY <1>2, <2>1, <2>2, HeldIsAlive
    <2>3. CASE h = Holding(Null, Null, o)
      <3>1. h.claims = o
        BY <1>4, <2>3, HandFields DEF Maybe
      <3> QED BY <1>2, <2>1, <3>1 DEF Fits, ClaimsFit
    <2> QED BY <1>3, <1>4, <2>1, <2>2, <2>3 DEF Reading
  <1>9. /\ code' = [code EXCEPT ![t] = rest]
        /\ refCount' = IF o = Null THEN refCount ELSE [refCount EXCEPT ![o] = @ + 1]
        /\ wild' = FALSE
        /\ UNCHANGED <<ptr, life, implementer, reg, goal>>
    BY <1>2, <1>4, <1>5, <1>6, <1>8 DEF AddRef, Then, Touch, Starts, ComTypeOK
  <1>10. ComTypeOK'
    BY <1>2, <1>6, <1>8, <1>9 DEF ComTypeOK
  <1>11. /\ code'[t] = rest
         /\ \A u \in Threads : u # t => code'[u] = code[u]
         /\ \A a \in Objects : refCount'[a] = IF a = o THEN refCount[a] + 1 ELSE refCount[a]
    BY <1>2, <1>9, NullAssumption DEF ComTypeOK
  <1>12. PICK new \in Hands : new = Holding(o, Null, Null) /\ new.carries = o /\ new.drops = Null /\ new.claims = Null
    BY <1>4, HandFields DEF Maybe
  <1>13. Place(t, new)'
    <2>1. Mine(t, goal[t].pointer)'
      BY <1>4, <1>9 DEF Mine
    <2>2. CASE rest = ToStore(p)
      BY <1>4, <1>5, <1>9, <1>11, <1>12, <2>1, <2>2, DropDiffers DEF Place, Assigning
    <2>3. CASE rest = ToDrop
      BY <1>4, <1>5, <1>9, <1>11, <1>12, <2>1, <2>3 DEF Place, Assigning
    <2>4. CASE rest = StoreOnly(p)
      <3>2. Before(t, rest, new)'
        BY <1>11, <1>12 DEF Before
      <3>3. Resumes(t, rest, new.carries)'
        BY <1>4, <1>5, <1>9, <1>12, <2>4, DropDiffers DEF Resumes
      <3> QED BY <1>6, <2>1, <3>2, <3>3 DEF Place, Resuming
    <2> QED BY <2>2, <2>3, <2>4
  <1>14. Writes(t, Null)
    BY <1>6, <1>9, <1>11, NullAssumption DEF Writes
  <1>15. PassesOn(h, new, Null, Null)
    <2>1. /\ Content(Null) = Null /\ Content(Null)' = Null /\ Kept(Null) = Null /\ Kept(Null)' = Null
      BY NullAssumption DEF Content, Kept
    <2>2. \A a \in Objects : Passed(a, Null, Null, h) = 0 /\ Passed(a, Null, Null, new) = One(a = o)
      BY <1>7, <1>12, NullAssumption DEF Passed, One
    <2>3. \A a \in Objects : refCount[a] \in Nat
      BY <1>2 DEF ComTypeOK
    <2>4. \A a \in Objects : refCount'[a] = refCount[a] + One(a = o)
      BY <1>11, <2>3 DEF One
    <2>5. \A a \in Objects : refCount'[a] + 0 = refCount[a] + One(a = o)
      BY <2>3, <2>4 DEF One
    <2> QED BY <1>9, <2>1, <2>2, <2>5 DEF PassesOn
  <1>16. ClaimsMove(t, hand, new, o)
    <2>1. \A a \in Objects : refCount[a] \in Nat
      BY <1>2 DEF ComTypeOK
    <2>2. o \in Objects => refCount'[o] > 0 /\ o # Null
      BY <1>11, <2>1, NullAssumption
    <2> QED BY <1>2, <1>7, <1>8, <1>9, <1>11, <1>12, <2>2 DEF ClaimsMove
  <1> QED BY <1>1, <1>2, <1>10, <1>13, <1>14, <1>15, <1>16, Advance

(* A step that comes before the rest of a program.                         *)
LEMMA Interposed ==
    ASSUME NEW x \in Steps \cup Tests, NEW rest \in Programs
    PROVE  /\ <<x>> \o rest \in Programs /\ <<x>> \o rest # <<>> /\ Head(<<x>> \o rest) = x
           /\ <<>> \o rest = rest
  BY Prepended DEF Programs

LEMMA ResetKeeps ==
    ASSUME ComInv, NEW t \in Threads, ResetStep(t)
    PROVE  ComInv'
  <1>1. ~Quiet(t)
    BY DEF ResetStep, Next1, Quiet
  <1>2. PICK hand, h, p, q, o :
              /\ Fits(hand) /\ h = hand[t] /\ h \in Hands /\ Place(t, h)
              /\ Program(t, p, q, o) /\ ComTypeOK /\ Exclusive
    BY <1>1, AtOnce
  <1>3. \/ Starts(code[t], "reset", p, ToLoad(p, q)) /\ p # q /\ Reading(t) /\ h = Empty
        \/ Starts(code[t], "reset", p, StoreOnly(p)) /\ reg[t] = o /\ h = Holding(o, Null, Null)
        \/ Starts(code[t], "reset", p, <<>>) /\ o = Null /\ h = Empty
    BY <1>1, <1>2, Positions DEF ResetStep, Next1, Starts
  <1>4. /\ p \in Pointers /\ q \in MaybePointer /\ o \in Maybe /\ OwnerOf[p] = t
        /\ p = goal[t].pointer /\ q = goal[t].source /\ o = goal[t].object
    BY <1>2 DEF Program
  <1>5. PICK rest \in Programs :
           /\ Starts(code[t], "reset", p, rest)
           /\ \/ rest = ToLoad(p, q) /\ p # q /\ Reading(t) /\ h = Empty
              \/ rest = StoreOnly(p) /\ reg[t] = o /\ h = Holding(o, Null, Null)
              \/ rest = <<>> /\ o = Null /\ h = Empty
    BY <1>3, <1>4, ProgramTypes DEF MaybePointer
  <1>6. rest # <<>> => Head(rest).op # "detach"
    <2>1. Starts(ToLoad(p, q), "load", q, ToHold(p)) /\ Starts(StoreOnly(p), "store", p, <<>>)
      BY ProgramSteps
    <2> QED BY <1>5, <2>1 DEF Starts
  <1>7. PICK c \in Maybe : c = ptr[p]
    BY <1>2, <1>4 DEF ComTypeOK
  <1>8. PICK now \in Programs :
           /\ now = (IF c = Null THEN <<>> ELSE << Do("release", c) >>) \o rest
           /\ c = Null => now = rest
           /\ now # <<>> => Head(now).op # "detach"
    <2>1. CASE c = Null
      BY <1>6, <2>1, Interposed, ConcatEmptySeq DEF Programs
    <2>2. CASE c # Null
      <3>1. Do("release", c) \in Steps /\ Do("release", c).op = "release"
        BY <1>7 DEF Do, Steps, Maybe
      <3> QED BY <2>2, <3>1, Interposed
    <2> QED BY <2>1, <2>2
  <1>9. /\ code' = [code EXCEPT ![t] = now] /\ ptr' = [ptr EXCEPT ![p] = Null]
        /\ UNCHANGED <<life, refCount, implementer, reg, goal, wild>>
    BY <1>5, <1>7, <1>8 DEF ResetStep, Then, Arg, Starts
  <1>10. ComTypeOK'
    BY <1>2, <1>4, <1>8, <1>9 DEF ComTypeOK, Maybe
  <1>11. /\ code'[t] = now /\ ptr'[p] = Null
         /\ \A u \in Threads : u # t => code'[u] = code[u] /\ reg'[u] = reg[u]
         /\ \A y \in Pointers : y # p => ptr'[y] = ptr[y]
    BY <1>2, <1>4, <1>9 DEF ComTypeOK
  <1>12. PICK n \in Maybe : h.carries = n /\ h.drops = Null /\ h.claims = Null
    BY <1>4, <1>5, HandFields DEF Empty, Maybe
  <1>13. PICK new \in Hands : new = Holding(n, c, Null) /\ new.carries = n /\ new.drops = c /\ new.claims = Null
    BY HandFields DEF Maybe
  <1>14. Place(t, new)'
    <2>1. Mine(t, goal[t].pointer)'
      BY <1>4, <1>9 DEF Mine
    <2>2. Before(t, rest, new)'
      BY <1>7, <1>8, <1>11, <1>13 DEF Before, Maybe
    <2>3. Reading(t) /\ p # q => Reading(t)'
      BY <1>4, <1>9, <1>11 DEF Reading
    <2>4. n = Null \/ (rest = StoreOnly(p) /\ n = o)
      BY <1>4, <1>5, <1>12, HandFields DEF Empty, Maybe
    <2>5. Resumes(t, rest, n)'
      <3>1. CASE rest = ToLoad(p, q) /\ p # q /\ Reading(t) /\ h = Empty
        <4>1. n = Null
          BY <1>12, <3>1, HandFields DEF Empty, Maybe
        <4> QED BY <1>4, <1>9, <1>11, <2>3, <3>1, <4>1 DEF Resumes
      <3>2. CASE rest = StoreOnly(p) /\ reg[t] = o /\ h = Holding(o, Null, Null)
        <4>1. n = o
          BY <1>12, <3>2, HandFields DEF Maybe
        <4> QED BY <1>4, <1>9, <1>11, <3>2, <4>1 DEF Resumes
      <3>3. CASE rest = <<>> /\ o = Null /\ h = Empty
        <4>1. n = Null
          BY <1>12, <3>3, HandFields DEF Empty, Maybe
        <4> QED BY <1>4, <1>9, <1>11, <3>3, <4>1 DEF Resumes
      <3> QED BY <1>5, <3>1, <3>2, <3>3
    <2>6. Resumes(t, rest, new.carries)'
      BY <1>13, <2>5
    <2> QED BY <2>1, <2>2, <2>6 DEF Place, Resuming
  <1>15. Writes(t, p)
    BY <1>4, <1>8, <1>9, <1>11 DEF Writes
  <1>16. PassesOn(h, new, p, Null)
    <2>1. Content(p) = c /\ Content(p)' = Null
      BY <1>4, <1>7, <1>11 DEF Content
    <2>2. Kept(Null) = Null /\ Kept(Null)' = Null
      BY NullAssumption DEF Kept
    <2>3. \A a \in Objects : Passed(a, c, Null, h) = Passed(a, Null, Null, new)
      BY <1>12, <1>13, NullAssumption DEF Passed, One
    <2> QED BY <1>9, <1>11, <2>1, <2>2, <2>3 DEF PassesOn
  <1>17. ClaimsMove(t, hand, new, Null)
    BY <1>2, <1>9, <1>12, <1>13, NullAssumption DEF ClaimsMove
  <1> QED BY <1>1, <1>2, <1>10, <1>14, <1>15, <1>16, <1>17, Advance

(* The last reference is the one that finds a count of one; whoever takes  *)
(* it is left with the object in its hands.                                *)
LEMMA ReleaseKeeps ==
    ASSUME ComInv, NEW t \in Threads, Release(t)
    PROVE  ComInv'
  <1>1. ~Quiet(t)
    BY DEF Release, Next1, Quiet
  <1>2. PICK hand, h, p, q, o :
              /\ Fits(hand) /\ h = hand[t] /\ h \in Hands /\ Place(t, h)
              /\ Program(t, p, q, o) /\ ComTypeOK /\ Exclusive
    BY <1>1, AtOnce
  <1>3. \/ /\ Starts(code[t], "release", Null, <<>>)
           /\ reg[t] = o /\ ptr[p] = o /\ h = Holding(o, Null, Null)
        \/ \E rest \in Programs :
              /\ Starts(code[t], "release", h.drops, rest)
              /\ h.drops \in Objects /\ h = Holding(h.carries, h.drops, Null)
              /\ Resumes(t, rest, h.carries)
    BY <1>1, <1>2, Positions DEF Release, Next1, Starts
  <1>4. /\ p \in Pointers /\ q \in MaybePointer /\ o \in Maybe /\ OwnerOf[p] = t
        /\ p = goal[t].pointer /\ q = goal[t].source /\ o = goal[t].object
    BY <1>2 DEF Program
  <1>5. PICK rest \in Programs, r \in Maybe, c \in Maybe :
           /\ Starts(code[t], "release", Arg(t), rest) /\ Resumes(t, rest, c)
           /\ r = IF Arg(t) = Null THEN reg[t] ELSE Arg(t)
           /\ h.claims = Null
           /\ \/ h.carries = r /\ h.drops = Null /\ c = Null
              \/ h.carries = c /\ h.drops = r /\ r # Null
    <2>1. CASE /\ Starts(code[t], "release", Null, <<>>)
               /\ reg[t] = o /\ ptr[p] = o /\ h = Holding(o, Null, Null)
      <3>1. Arg(t) = Null /\ <<>> \in Programs /\ Null \in Maybe
        BY <2>1 DEF Arg, Starts, Maybe, Programs
      <3>2. Resumes(t, <<>>, Null)
        BY <1>4, <2>1 DEF Resumes
      <3>3. h.carries = o /\ h.drops = Null /\ h.claims = Null
        BY <1>4, <2>1, HandFields DEF Maybe
      <3> QED BY <1>4, <2>1, <3>1, <3>2, <3>3
    <2>2. CASE \E rest \in Programs :
              /\ Starts(code[t], "release", h.drops, rest)
              /\ h.drops \in Objects /\ h = Holding(h.carries, h.drops, Null)
              /\ Resumes(t, rest, h.carries)
      <3>1. PICK rest \in Programs :
              /\ Starts(code[t], "release", h.drops, rest)
              /\ h.drops \in Objects /\ h = Holding(h.carries, h.drops, Null)
              /\ Resumes(t, rest, h.carries)
        BY <2>2
      <3>2. Arg(t) = h.drops /\ h.drops # Null /\ h.claims = Null /\ h.drops \in Maybe /\ h.carries \in Maybe
        <4>1. Arg(t) = h.drops
          BY <3>1 DEF Arg, Starts
        <4>2. h.drops # Null /\ h.drops \in Maybe /\ h.carries \in Maybe
          BY <1>2, <3>1, NullAssumption DEF Maybe, Hands
        <4>3. h.claims = Null
          BY <3>1, <4>2, HandFields
        <4> QED BY <4>1, <4>2, <4>3
      <3> QED BY <3>1, <3>2
    <2> QED BY <1>3, <2>1, <2>2
  <1>6. rest # <<>> => Head(rest).op # "detach"
    <2>1. Starts(ToLoad(p, q), "load", q, ToHold(p)) /\ Starts(StoreOnly(p), "store", p, <<>>)
      BY ProgramSteps
    <2>2. rest = ToLoad(p, q) \/ rest = StoreOnly(p) \/ rest = <<>>
      BY <1>4, <1>5 DEF Resumes
    <2> QED BY <2>1, <2>2 DEF Starts
  <1>7. ASSUME r # Null
        PROVE  /\ r \in Objects /\ life[r] = "alive" /\ refCount[r] \in Nat /\ refCount[r] > 0
               /\ \A u \in Threads : hand[u].claims # r
    <2>1. r \in Objects /\ (h.carries = r \/ h.drops = r)
      BY <1>5, <1>7 DEF Maybe
    <2> QED BY <1>2, <2>1, HeldIsAlive DEF ComTypeOK
  <1>8. PICK now \in Programs :
           /\ now = (IF r = Null THEN <<>> ELSE << [op |-> "test", arg |-> r, was |-> refCount[r]] >>) \o rest
           /\ r = Null => now = rest
           /\ now # <<>> => Head(now).op # "detach"
    <2>1. CASE r = Null
      BY <1>6, <2>1, Interposed
    <2>2. CASE r # Null
      <3>1. PICK x \in Tests : x = [op |-> "test", arg |-> r, was |-> refCount[r]]
        BY <1>7, <2>2 DEF Tests
      <3>2. x.op = "test"
        BY <3>1
      <3>3. <<x>> \o rest \in Programs /\ Head(<<x>> \o rest) = x
        BY Interposed
      <3> QED BY <2>2, <3>1, <3>2, <3>3
    <2> QED BY <2>1, <2>2
  <1>9. /\ code' = [code EXCEPT ![t] = now]
        /\ refCount' = IF r = Null THEN refCount ELSE [refCount EXCEPT ![r] = @ - 1]
        /\ wild' = FALSE
        /\ UNCHANGED <<ptr, life, implementer, reg, goal>>
    <2>1. Tail(code[t]) = rest
      BY <1>5 DEF Starts
    <2>2. UNCHANGED <<ptr, life, implementer, reg, goal>>
      BY DEF Release
    <2>3. CASE r = Null
      BY <1>2, <1>5, <1>8, <2>1, <2>2, <2>3 DEF Release, Then, ComTypeOK
    <2>4. CASE r # Null
      BY <1>2, <1>5, <1>7, <1>8, <2>1, <2>2, <2>4 DEF Release, Then, Touch, ComTypeOK
    <2> QED BY <2>3, <2>4
  <1>10. /\ code'[t] = now
         /\ \A u \in Threads : u # t => code'[u] = code[u]
         /\ \A a \in Objects : refCount'[a] = IF a = r THEN refCount[a] - 1 ELSE refCount[a]
    BY <1>2, <1>9, NullAssumption DEF ComTypeOK
  <1>11. ComTypeOK'
    <2>1. refCount' \in [Objects -> Nat]
      <3>1. CASE r = Null
        BY <1>2, <1>9, <3>1 DEF ComTypeOK
      <3>2. CASE r # Null
        <4>1. refCount[r] - 1 \in Nat /\ r \in Objects
          BY <1>7, <3>2
        <4> QED BY <1>2, <1>9, <3>2, <4>1 DEF ComTypeOK
      <3> QED BY <3>1, <3>2
    <2> QED BY <1>2, <1>8, <1>9, <2>1 DEF ComTypeOK
  <1>12. PICK w \in Maybe : w = IF r # Null /\ refCount[r] = 1 THEN r ELSE Null
    BY DEF Maybe
  <1>13. PICK new \in Hands : new = Holding(c, Null, w) /\ new.carries = c /\ new.drops = Null /\ new.claims = w
    BY HandFields DEF Maybe
  <1>14. Place(t, new)'
    <2>1. Mine(t, goal[t].pointer)'
      BY <1>4, <1>9 DEF Mine
    <2>2. Before(t, rest, new)'
      <3>1. CASE r = Null
        BY <1>8, <1>10, <1>12, <1>13, <3>1 DEF Before
      <3>2. CASE r # Null
        <4>1. r \in Objects /\ refCount[r] \in Nat
          BY <1>7, <3>2
        <4>2. /\ code'[t] = << [op |-> "test", arg |-> r, was |-> refCount[r]] >> \o rest
              /\ new.claims = IF refCount[r] = 1 THEN r ELSE Null
          BY <1>8, <1>10, <1>12, <1>13, <3>2
        <4> QED BY <1>13, <4>1, <4>2 DEF Before
      <3> QED BY <3>1, <3>2
    <2>3. Resumes(t, rest, c)'
      BY <1>5, <1>9 DEF Resumes, Reading
    <2>4. Resumes(t, rest, new.carries)'
      BY <1>13, <2>3
    <2> QED BY <2>1, <2>2, <2>4 DEF Place, Resuming
  <1>15. Writes(t, Null)
    BY <1>8, <1>9, <1>10, NullAssumption DEF Writes
  <1>16. PassesOn(h, new, Null, Null)
    <2>1. /\ Content(Null) = Null /\ Content(Null)' = Null /\ Kept(Null) = Null /\ Kept(Null)' = Null
      BY NullAssumption DEF Content, Kept
    <2>2. \A a \in Objects : /\ Passed(a, Null, Null, h) = One(a = r) + One(a = c)
                             /\ Passed(a, Null, Null, new) = One(a = c)
      BY <1>5, <1>13, NullAssumption DEF Passed, One
    <2>3. \A a \in Objects : refCount[a] \in Nat /\ refCount'[a] \in Nat
      BY <1>2, <1>11 DEF ComTypeOK
    <2>4. \A a \in Objects : refCount'[a] + (One(a = r) + One(a = c)) = refCount[a] + One(a = c)
      BY <1>10, <2>3 DEF One
    <2> QED BY <1>9, <2>1, <2>2, <2>4 DEF PassesOn
  <1>17. ClaimsMove(t, hand, new, r)
    <2>1. \A a \in Objects : refCount[a] \in Nat /\ refCount'[a] \in Nat
      BY <1>2, <1>11 DEF ComTypeOK
    <2>2. \A a \in Objects : a # r => life'[a] = life[a] /\ refCount'[a] = refCount[a]
      BY <1>9, <1>10
    <2>3. h.claims \in {r, Null} /\ new.claims \in {r, Null}
      BY <1>5, <1>12, <1>13
    <2>4. ASSUME r \in Objects
          PROVE  /\ life'[r] = "alive" <=> refCount'[r] > 0 \/ new.claims = r
                 /\ new.claims = r => refCount'[r] = 0
                 /\ \A u \in Threads : u # t => hand[u].claims # r
      <3>1. r # Null
        BY <2>4, NullAssumption
      <3>2. refCount'[r] = refCount[r] - 1 /\ life'[r] = "alive" /\ new.claims = IF refCount[r] = 1 THEN r ELSE Null
        BY <1>7, <1>9, <1>10, <1>12, <1>13, <2>4, <3>1
      <3> QED BY <1>7, <2>1, <2>4, <3>1, <3>2
    <2> QED BY <1>2, <2>2, <2>3, <2>4 DEF ClaimsMove
  <1> QED BY <1>1, <1>2, <1>11, <1>14, <1>15, <1>16, <1>17, Advance

(* Who has an object in its hands is alone with it when it deletes it, and *)
(* takes over what the object held.                                        *)
LEMMA TestKeeps ==
    ASSUME ComInv, NEW t \in Threads, TestLast(t)
    PROVE  ComInv'
  <1>1. ~Quiet(t)
    BY DEF TestLast, Next1, Quiet
  <1>2. PICK hand, h, p, q, o :
              /\ Fits(hand) /\ h = hand[t] /\ h \in Hands /\ Place(t, h)
              /\ Program(t, p, q, o) /\ ComTypeOK /\ Exclusive
    BY <1>1, AtOnce
  <1>3. PICK rest \in Programs, a \in Objects, n \in Nat :
                 /\ Starts(code[t], "test", a, rest) /\ Head(code[t]).was = n
                 /\ h = Holding(h.carries, Null, IF n = 1 THEN a ELSE Null)
                 /\ Resumes(t, rest, h.carries)
    BY <1>1, <1>2, Positions DEF TestLast, Next1, Starts
  <1>4. /\ p \in Pointers /\ q \in MaybePointer /\ o \in Maybe /\ OwnerOf[p] = t
        /\ p = goal[t].pointer /\ q = goal[t].source /\ o = goal[t].object
    BY <1>2 DEF Program
  <1>5. PICK c \in Maybe, i \in Maybe, d \in Maybe :
           /\ c = h.carries /\ h.drops = Null /\ h.claims = d
           /\ d = IF n = 1 THEN a ELSE Null
           /\ i = IF n = 1 THEN implementer[a] ELSE Null
    <2>1. h.carries \in Maybe /\ implementer[a] \in Maybe
      BY <1>2 DEF Hands, ComTypeOK
    <2>2. a \in Maybe /\ Null \in Maybe
      BY DEF Maybe
    <2>3. h.drops = Null /\ h.claims = IF n = 1 THEN a ELSE Null
      BY <1>3, HandFields
    <2> QED BY <2>1, <2>2, <2>3
  <1>6. rest # <<>> => Head(rest).op # "detach"
    <2>1. Starts(ToLoad(p, q), "load", q, ToHold(p)) /\ Starts(StoreOnly(p), "store", p, <<>>)
      BY ProgramSteps
    <2>2. rest = ToLoad(p, q) \/ rest = StoreOnly(p) \/ rest = <<>>
      BY <1>3, <1>4 DEF Resumes
    <2> QED BY <2>1, <2>2 DEF Starts
  <1>7. ASSUME n = 1
        PROVE  /\ d = a /\ i = implementer[a] /\ life[a] = "alive" /\ refCount[a] = 0
               /\ \A u \in Threads : u # t => hand[u].claims # a
    <2>1. d = a /\ i = implementer[a]
      BY <1>5, <1>7
    <2> QED BY <1>2, <1>5, <2>1 DEF Fits, ClaimsFit
  <1>8. PICK now \in Programs :
           /\ now = (IF i = Null THEN <<>> ELSE << Do("release", i) >>) \o rest
           /\ i = Null => now = rest
           /\ now # <<>> => Head(now).op # "detach"
    <2>1. CASE i = Null
      BY <1>6, <2>1, Interposed
    <2>2. CASE i # Null
      <3>1. Do("release", i) \in Steps /\ Do("release", i).op = "release"
        BY <1>5 DEF Do, Steps, Maybe
      <3> QED BY <2>2, <3>1, Interposed
    <2> QED BY <2>1, <2>2
  <1>9. /\ code' = [code EXCEPT ![t] = now]
        /\ life' = IF n = 1 THEN [life EXCEPT ![a] = "deleted"] ELSE life
        /\ wild' = FALSE
        /\ UNCHANGED <<ptr, refCount, implementer, reg, goal>>
    <2>1. Tail(code[t]) = rest /\ Arg(t) = a /\ Head(code[t]).was = n
      BY <1>3 DEF Starts, Arg
    <2>2. UNCHANGED <<ptr, refCount, implementer, reg, goal>>
      BY DEF TestLast
    <2>3. CASE n # 1
      BY <1>2, <1>5, <1>8, <2>1, <2>2, <2>3, Interposed DEF TestLast, Then, ComTypeOK
    <2>4. CASE n = 1
      <3>1. DestroyProgram(a) = IF i = Null THEN <<>> ELSE << Do("release", i) >>
        BY <1>7, <2>4 DEF DestroyProgram
      <3> QED BY <1>2, <1>7, <1>8, <2>1, <2>2, <2>4, <3>1 DEF TestLast, Then, Touch, ComTypeOK
    <2> QED BY <2>3, <2>4
  <1>10. /\ code'[t] = now
         /\ \A u \in Threads : u # t => code'[u] = code[u]
         /\ \A b \in Objects : life'[b] = IF n = 1 /\ b = a THEN "deleted" ELSE life[b]
    BY <1>2, <1>9 DEF ComTypeOK
  <1>11. ComTypeOK'
    <2>1. life' \in [Objects -> {"none", "alive", "deleted"}]
      BY <1>2, <1>9 DEF ComTypeOK
    <2> QED BY <1>2, <1>8, <1>9, <2>1 DEF ComTypeOK
  <1>12. PICK new \in Hands : new = Holding(c, i, Null) /\ new.carries = c /\ new.drops = i /\ new.claims = Null
    BY HandFields DEF Maybe
  <1>13. Place(t, new)'
    <2>1. Mine(t, goal[t].pointer)'
      BY <1>4, <1>9 DEF Mine
    <2>2. Before(t, rest, new)'
      BY <1>5, <1>8, <1>10, <1>12 DEF Before, Maybe
    <2>3. Resumes(t, rest, c)'
      BY <1>3, <1>5, <1>9 DEF Resumes, Reading
    <2>4. Resumes(t, rest, new.carries)'
      BY <1>12, <2>3
    <2> QED BY <2>1, <2>2, <2>4 DEF Place, Resuming
  <1>14. Writes(t, Null)
    BY <1>8, <1>9, <1>10, NullAssumption DEF Writes
  <1>15. PassesOn(h, new, Null, d)
    <2>1. Content(Null) = Null /\ Content(Null)' = Null
      BY NullAssumption DEF Content
    <2>2. Kept(d) = i /\ Kept(d)' = Null
      BY <1>5, <1>7, <1>10, NullAssumption DEF Kept
    <2>3. \A b \in Objects : Passed(b, Null, i, h) = Passed(b, Null, Null, new)
      BY <1>5, <1>12, NullAssumption DEF Passed, One
    <2>4. \A e \in Objects : e # d => life'[e] = life[e] /\ implementer'[e] = implementer[e]
      BY <1>5, <1>9, <1>10
    <2> QED BY <1>9, <2>1, <2>2, <2>3, <2>4 DEF PassesOn
  <1>16. ClaimsMove(t, hand, new, d)
    <2>1. \A b \in Objects : b # d => life'[b] = life[b]
      BY <1>5, <1>10
    <2>2. d \in Objects => n = 1
      BY <1>5, NullAssumption
    <2>3. n = 1 => life'[a] # "alive" /\ ~(refCount'[a] > 0) /\ new.claims # a /\ d = a
      BY <1>7, <1>9, <1>10, <1>12, NullAssumption
    <2> QED BY <1>2, <1>5, <1>7, <1>9, <1>12, <2>1, <2>2, <2>3 DEF ClaimsMove
  <1> QED BY <1>1, <1>2, <1>11, <1>13, <1>14, <1>15, <1>16, Advance

-----------------------------------------------------------------------------
(* A thread between two calls has nothing in its hands.                    *)
LEMMA QuietIsEmpty ==
    ASSUME ComTypeOK, NEW t \in Threads, NEW h \in Hands, Place(t, h), Quiet(t)
    PROVE  /\ h = Empty
           /\ goal[t] = NoGoal \/ (Mine(t, goal[t].pointer) /\ ptr[goal[t].pointer] = goal[t].object)
  <1>1. PICK p, q : p = goal[t].pointer /\ q = goal[t].source
    OBVIOUS
  <1>2. /\ AssignProgram(p, q) # <<>> /\ ToHold(p) # <<>> /\ ToStore(p) # <<>> /\ ToReturn # <<>>
        /\ ToDrop # <<>> /\ CopyProgram(p, q) # <<>> /\ HoldAndStore(p) # <<>>
        /\ MoveProgram(p, q) # <<>> /\ ResetAndStore(p) # <<>> /\ ResetProgram(p) # <<>>
        /\ ToLoad(p, q) # <<>> /\ StoreOnly(p) # <<>>
    BY ProgramSteps DEF Starts
  <1>3. ~Assigning(t, h) /\ ~Copying(t, h) /\ ~Moving(t, h) /\ ~Resetting(t, h)
    BY <1>1, <1>2 DEF Quiet, Assigning, Copying, Moving, Resetting
  <1>4. CASE code[t] = <<>> /\ goal[t] = NoGoal /\ h = Holding(Null, Null, Null)
    BY <1>4 DEF Empty
  <1>5. CASE Mine(t, goal[t].pointer) /\ Resuming(t, h)
    <2>1. PICK rest \in Programs : Before(t, rest, h) /\ Resumes(t, rest, h.carries)
      BY <1>5 DEF Resuming
    <2>2. code[t] = rest /\ h = Holding(h.carries, Null, Null)
      BY <2>1, BeforeSteps DEF Quiet, Starts
    <2>3. ptr[p] = goal[t].object /\ h.carries = Null
      BY <1>1, <1>2, <2>1, <2>2 DEF Quiet, Resumes
    <2> QED BY <1>1, <1>5, <2>2, <2>3 DEF Empty
  <1> QED BY <1>3, <1>4, <1>5 DEF Place

(* A thread writes pointers of its own.                                    *)
LEMMA Owners ==
    ASSUME ComTypeOK, NEW u \in Threads, NEW h \in Hands, Place(u, h), ~Quiet(u)
    PROVE  /\ OwnerOf[goal[u].pointer] = u
           /\ Head(code[u]).op = "detach" => OwnerOf[goal[u].source] = u
  <1>1. PICK p, q, o : Program(u, p, q, o)
    BY HasProgram
  <1>2. p = goal[u].pointer /\ q = goal[u].source /\ OwnerOf[p] = u
    BY <1>1 DEF Program
  <1>3. ASSUME Head(code[u]).op = "detach" PROVE Mine(u, q)
    BY <1>1, <1>3, Positions DEF Starts
  <1> QED BY <1>2, <1>3 DEF Mine

(* A call begins.                                                          *)
Starting(t, p, q, program) ==
    /\ Quiet(t) /\ code' = [code EXCEPT ![t] = program]
    /\ program \in Programs /\ program # <<>> /\ p \in Pointers /\ q \in MaybePointer
    /\ \E o \in Maybe : goal' = [goal EXCEPT ![t] = [pointer |-> p, source |-> q, object |-> o]]
    /\ Free(t, p) /\ (q # Null => MayRead(t, q)) /\ (Head(program).op = "detach" => Free(t, q))

LEMMA BeginExclusive ==
    ASSUME ComTypeOK, Exclusive, NEW hand, Fits(hand), NEW t \in Threads, NEW p, NEW q, NEW program,
           Starting(t, p, q, program)
    PROVE  Exclusive'
  <1>1. /\ code'[t] = program /\ goal'[t].pointer = p /\ goal'[t].source = q
        /\ \A u \in Threads : u # t => code'[u] = code[u] /\ goal'[u] = goal[u]
    BY DEF Starting, ComTypeOK
  <1> SUFFICES ASSUME NEW v \in Threads, NEW u \in Threads, v # u,
                      code'[v] # <<>>, code'[u] # <<>>, goal'[v].source # Null
               PROVE  /\ goal'[v].source # goal'[u].pointer
                      /\ Head(code'[u]).op = "detach" => goal'[v].source # goal'[u].source
    BY DEF Exclusive, Quiet
  <1>2. CASE v = t
    <2>1. ~Quiet(u) /\ code'[u] = code[u] /\ goal'[u] = goal[u] /\ goal'[v].source = q
      BY <1>1, <1>2 DEF Quiet
    <2>2. hand[u] \in Hands /\ Place(u, hand[u])
      BY DEF Fits
    <2>3. /\ OwnerOf[goal[u].pointer] = u
          /\ Head(code[u]).op = "detach" => OwnerOf[goal[u].source] = u
      BY <2>1, <2>2, Owners
    <2>4. OwnerOf[q] # u
      BY <1>1, <1>2, <2>1 DEF Starting, MayRead
    <2> QED BY <2>1, <2>3, <2>4
  <1>3. CASE u = t
    <2>1. ~Quiet(v) /\ goal'[v] = goal[v]
      BY <1>1, <1>3 DEF Quiet
    <2>2. goal[v].source # p /\ (Head(program).op = "detach" => goal[v].source # q)
      BY <2>1 DEF Starting, Free, Reads
    <2> QED BY <1>1, <1>3, <2>1, <2>2
  <1>4. CASE v # t /\ u # t
    BY <1>1, <1>4 DEF Exclusive, Quiet
  <1> QED BY <1>2, <1>3, <1>4

LEMMA BeginKeeps ==
    ASSUME ComInv, NEW t \in Threads, NEW p, NEW q, NEW program,
           Starting(t, p, q, program), Begin(t, program, p, q), Place(t, Empty)'
    PROVE  ComInv'
  <1>1. PICK hand : Fits(hand)
    BY DEF ComInv
  <1>2. ComTypeOK /\ Exclusive
    BY DEF ComInv
  <1>3. /\ UNCHANGED <<ptr, life, refCount, implementer, reg, wild>>
        /\ code' = [code EXCEPT ![t] = program] /\ program \in Programs
    BY DEF Begin, Starting
  <1>4. PICK o \in Maybe : goal' = [goal EXCEPT ![t] = [pointer |-> p, source |-> q, object |-> o]]
    BY DEF Starting
  <1>5. ComTypeOK'
    <2>1. [pointer |-> p, source |-> q, object |-> o] \in Goals
      BY DEF Starting, Goals, MaybePointer
    <2> QED BY <1>2, <1>3, <1>4, <2>1 DEF ComTypeOK
  <1>6. Exclusive'
    BY <1>1, <1>2, BeginExclusive
  <1>7. hand[t] = Empty /\ hand[t] \in Hands
    BY <1>1, <1>2, QuietIsEmpty DEF Fits, Starting
  <1>8. PICK new \in Hands : new = Empty /\ new.carries = Null /\ new.drops = Null /\ new.claims = Null
    BY HandFields DEF Empty, Maybe
  <1>9. Alone(t, Null)
    BY <1>2, <1>3, <1>4, NullAssumption DEF Alone, ComTypeOK
  <1>10. PassesOn(hand[t], new, Null, Null)
    BY <1>3, <1>7, <1>8, NullAssumption DEF PassesOn, Content, Kept
  <1>11. ClaimsMove(t, hand, new, Null)
    BY <1>3, <1>7, <1>8, NullAssumption DEF ClaimsMove
  <1>12. Place(t, new)'
    BY <1>8
  <1> QED BY <1>1, <1>2, <1>5, <1>6, <1>9, <1>10, <1>11, <1>12, Acts

(* What a call sets out to do; p need not be read when q is Null.          *)
LEMMA Begins ==
    ASSUME ComTypeOK, NEW t \in Threads, NEW p \in Pointers, NEW q \in MaybePointer, NEW program,
           Begin(t, program, p, q)
    PROVE  /\ code' = [code EXCEPT ![t] = program] /\ code'[t] = program /\ Quiet(t)
           /\ goal'[t].pointer = p /\ goal'[t].source = q
           /\ q # Null => goal'[t].object = ptr[q]
           /\ q = Null => goal'[t].object = Null
           /\ UNCHANGED ptr
           /\ \E o \in Maybe : goal' = [goal EXCEPT ![t] = [pointer |-> p, source |-> q, object |-> o]]
  <1>1. PICK o \in Maybe : o = IF q = Null THEN Null ELSE ptr[q]
    BY DEF ComTypeOK, Maybe, MaybePointer
  <1>2. goal' = [goal EXCEPT ![t] = [pointer |-> p, source |-> q, object |-> o]]
    BY <1>1 DEF Begin
  <1>3. code' = [code EXCEPT ![t] = program] /\ UNCHANGED ptr /\ Quiet(t)
    BY DEF Begin
  <1> QED BY <1>1, <1>2, <1>3 DEF ComTypeOK

LEMMA AssignKeeps ==
    ASSUME ~SelfAssigns, ComInv, NEW t \in Threads, Assign(t)
    PROVE  ComInv'
  <1>1. PICK p \in Pointers, q \in Pointers :
           Free(t, p) /\ MayRead(t, q) /\ p # q /\ Begin(t, AssignProgram(p, q), p, q)
    BY DEF Assign
  <1>2. q \in MaybePointer /\ q # Null /\ ComTypeOK
    BY NullAssumption DEF MaybePointer, ComInv
  <1>3. AssignProgram(p, q) \in Programs
    BY <1>2, ProgramTypes DEF MaybePointer
  <1>4. Starts(AssignProgram(p, q), "reset", p, ToLoad(p, q))
    BY ProgramSteps
  <1>5. Starting(t, p, q, AssignProgram(p, q))
    BY <1>1, <1>2, <1>3, <1>4, Begins DEF Starting, Starts
  <1>6. /\ code'[t] = AssignProgram(p, q) /\ goal'[t].pointer = p /\ goal'[t].source = q
        /\ goal'[t].object = ptr[q] /\ UNCHANGED ptr
    BY <1>1, <1>2, Begins
  <1>7. Reading(t)' /\ Mine(t, goal[t].pointer)'
    BY <1>1, <1>6 DEF Reading, Mine, Free
  <1>8. Place(t, Empty)'
    BY <1>1, <1>6, <1>7 DEF Place, Assigning, Empty
  <1> QED BY <1>1, <1>5, <1>8, BeginKeeps

LEMMA CopyKeeps ==
    ASSUME ComInv, NEW t \in Threads, Copy(t)
    PROVE  ComInv'
  <1>1. PICK p \in Pointers, q \in Pointers :
           Free(t, p) /\ ptr[p] = Null /\ MayRead(t, q) /\ Begin(t, CopyProgram(p, q), p, q)
    BY DEF Copy
  <1>2. q \in MaybePointer /\ q # Null /\ ComTypeOK
    BY NullAssumption DEF MaybePointer, ComInv
  <1>3. CopyProgram(p, q) \in Programs
    BY <1>2, ProgramTypes DEF MaybePointer
  <1>4. Starts(CopyProgram(p, q), "load", q, HoldAndStore(p))
    BY ProgramSteps
  <1>5. Starting(t, p, q, CopyProgram(p, q))
    BY <1>1, <1>2, <1>3, <1>4, Begins DEF Starting, Starts
  <1>6. /\ code'[t] = CopyProgram(p, q) /\ goal'[t].pointer = p /\ goal'[t].source = q
        /\ goal'[t].object = ptr[q] /\ UNCHANGED ptr
    BY <1>1, <1>2, Begins
  <1>7. Reading(t)' /\ Mine(t, goal[t].pointer)'
    BY <1>1, <1>6 DEF Reading, Mine, Free
  <1>8. Place(t, Empty)'
    BY <1>1, <1>6, <1>7 DEF Place, Copying, Empty
  <1> QED BY <1>1, <1>5, <1>8, BeginKeeps

LEMMA MoveKeeps ==
    ASSUME ComInv, NEW t \in Threads, Move(t)
    PROVE  ComInv'
  <1>1. PICK p \in Pointers, q \in Pointers :
           p # q /\ Free(t, p) /\ Free(t, q) /\ Begin(t, MoveProgram(p, q), p, q)
    BY DEF Move
  <1>2. q \in MaybePointer /\ q # Null /\ ComTypeOK
    BY NullAssumption DEF MaybePointer, ComInv
  <1>3. MoveProgram(p, q) \in Programs
    BY <1>2, ProgramTypes DEF MaybePointer
  <1>4. Starts(MoveProgram(p, q), "detach", q, ResetAndStore(p))
    BY ProgramSteps
  <1>5. Starting(t, p, q, MoveProgram(p, q))
    <2>1. MayRead(t, q)
      BY <1>1 DEF Free, MayRead
    <2> QED BY <1>1, <1>2, <1>3, <1>4, <2>1, Begins DEF Starting, Starts
  <1>6. /\ code'[t] = MoveProgram(p, q) /\ goal'[t].pointer = p /\ goal'[t].source = q
        /\ goal'[t].object = ptr[q] /\ UNCHANGED ptr
    BY <1>1, <1>2, Begins
  <1>7. Reading(t)' /\ Mine(t, goal[t].pointer)' /\ Mine(t, q)'
    BY <1>1, <1>6 DEF Reading, Mine, Free
  <1>8. Place(t, Empty)'
    <2>1. Moving(t, Empty)'
      BY <1>1, <1>6, <1>7 DEF Moving, Empty
    <2> QED BY <1>7, <2>1 DEF Place
  <1> QED BY <1>1, <1>5, <1>8, BeginKeeps

LEMMA ResetCallKeeps ==
    ASSUME ComInv, NEW t \in Threads, Reset(t)
    PROVE  ComInv'
  <1>1. PICK p \in Pointers : Free(t, p) /\ Begin(t, ResetProgram(p), p, Null)
    BY DEF Reset
  <1>2. Null \in MaybePointer /\ ComTypeOK
    BY DEF MaybePointer, ComInv
  <1>3. ResetProgram(p) \in Programs
    BY <1>2, ProgramTypes DEF MaybePointer
  <1>4. Starts(ResetProgram(p), "reset", p, <<>>)
    BY ProgramSteps
  <1>5. Starting(t, p, Null, ResetProgram(p))
    BY <1>1, <1>2, <1>3, <1>4, Begins DEF Starting, Starts
  <1>6. /\ code'[t] = ResetProgram(p) /\ goal'[t].pointer = p /\ goal'[t].source = Null
        /\ goal'[t].object = Null /\ UNCHANGED ptr
    BY <1>1, <1>2, Begins
  <1>7. Mine(t, goal[t].pointer)'
    BY <1>1, <1>6 DEF Mine, Free
  <1>8. Place(t, Empty)'
    BY <1>6, <1>7 DEF Place, Resetting, Empty
  <1> QED BY <1>1, <1>5, <1>8, BeginKeeps

(* A new object is in the hands of the thread that makes it.               *)
LEMMA CreateKeeps ==
    ASSUME ComInv, NEW t \in Threads, Create(t)
    PROVE  ComInv'
  <1>1. PICK p \in Pointers, o \in Objects, i \in Maybe :
           /\ Quiet(t) /\ Free(t, p) /\ ptr[p] = Null /\ life[o] = "none"
           /\ i # Null => \E q \in Pointers : OwnerOf[q] = t /\ ptr[q] = i
           /\ life' = [life EXCEPT ![o] = "alive"]
           /\ refCount' = HeldByDelegate(i)
           /\ implementer' = [implementer EXCEPT ![o] = i]
           /\ reg' = [reg EXCEPT ![t] = o]
           /\ code' = [code EXCEPT ![t] = << Do("addRef", Null), Do("store", p) >>]
           /\ goal' = [goal EXCEPT ![t] = [pointer |-> p, source |-> Null, object |-> o]]
           /\ UNCHANGED <<ptr, wild>>
    BY DEF Create, Maybe
  <1>2. PICK hand : Fits(hand)
    BY DEF ComInv
  <1>3. ComTypeOK /\ Exclusive
    BY DEF ComInv
  <1>4. hand[t] = Empty /\ hand[t] \in Hands
    BY <1>1, <1>2, <1>3, QuietIsEmpty DEF Fits
  <1>5. i \in Objects => life[i] = "alive" /\ refCount[i] > 0 /\ refCount[i] \in Nat
    BY <1>1, <1>2, <1>3, HeldIsAlive, NullAssumption DEF ComTypeOK
  <1>6. i # o /\ o # Null /\ i \in Maybe
    BY <1>1, <1>5, NullAssumption
  <1>7. \A a \in Objects : refCount'[a] = IF a = i THEN refCount[a] + 1 ELSE refCount[a]
    BY <1>1 DEF HeldByDelegate
  <1>8. code' = [code EXCEPT ![t] = HoldAndStore(p)] /\ HoldAndStore(p) \in Programs
    <2>1. HoldAndStore(p) \in Programs
      BY ProgramTypes DEF MaybePointer
    <2> QED BY <1>1, <2>1 DEF HoldAndStore
  <1>9. ComTypeOK'
    <2>1. refCount' \in [Objects -> Nat]
      BY <1>1, <1>3, <1>7 DEF ComTypeOK, HeldByDelegate
    <2>2. [pointer |-> p, source |-> Null, object |-> o] \in Goals
      BY DEF Goals, MaybePointer, Maybe
    <2>3. o \in Maybe
      BY DEF Maybe
    <2>4. goal' \in [Threads -> Goals] /\ code' \in [Threads -> Programs] /\ reg' \in [Threads -> Maybe]
      BY <1>1, <1>3, <1>8, <2>2, <2>3 DEF ComTypeOK
    <2>5. /\ ptr' \in [Pointers -> Maybe] /\ implementer' \in [Objects -> Maybe]
          /\ life' \in [Objects -> {"none", "alive", "deleted"}] /\ wild' = FALSE
      BY <1>1, <1>3 DEF ComTypeOK
    <2> QED BY <2>1, <2>4, <2>5 DEF ComTypeOK
  <1>10. Starts(HoldAndStore(p), "addRef", Null, StoreOnly(p))
    BY ProgramSteps
  <1>11. Exclusive'
    <2>1. Starting(t, p, Null, HoldAndStore(p))
      <3>1. \E a \in Maybe : goal' = [goal EXCEPT ![t] = [pointer |-> p, source |-> Null, object |-> a]]
        BY <1>1 DEF Maybe
      <3> QED BY <1>1, <1>8, <1>10, <3>1 DEF Starting, Starts, MaybePointer
    <2> QED BY <1>2, <1>3, <2>1, BeginExclusive
  <1>12. PICK new \in Hands : new = Holding(Null, Null, o) /\ new.carries = Null /\ new.drops = Null /\ new.claims = o
    BY HandFields DEF Maybe
  <1>13. Alone(t, Null)
    BY <1>1, <1>3, NullAssumption DEF Alone, ComTypeOK
  <1>14. /\ life'[o] = "alive" /\ implementer'[o] = i /\ reg'[t] = o
         /\ \A e \in Objects : e # o => life'[e] = life[e] /\ implementer'[e] = implementer[e]
         /\ goal'[t].pointer = p /\ goal'[t].source = Null /\ goal'[t].object = o
         /\ code'[t] = HoldAndStore(p)
    BY <1>1, <1>3, <1>8 DEF ComTypeOK
  <1>15. hand[t].carries = Null /\ hand[t].drops = Null /\ hand[t].claims = Null
    BY <1>4, HandFields DEF Empty
  <1>16. PassesOn(hand[t], new, Null, o)
    <2>1. Content(Null) = Null /\ Content(Null)' = Null
      BY NullAssumption DEF Content
    <2>2. Kept(o) = Null /\ Kept(o)' = i
      BY <1>1, <1>14 DEF Kept
    <2>3. \A a \in Objects : Passed(a, Null, Null, hand[t]) = 0 /\ Passed(a, Null, i, new) = One(a = i)
      BY <1>12, <1>15, NullAssumption DEF Passed, One
    <2>4. \A a \in Objects : refCount'[a] + 0 = refCount[a] + One(a = i)
      <3>1. \A a \in Objects : refCount[a] \in Nat
        BY <1>3 DEF ComTypeOK
      <3> QED BY <1>7, <3>1 DEF One
    <2> QED BY <1>1, <1>14, <2>1, <2>2, <2>3, <2>4 DEF PassesOn
  <1>17. life[o] # "alive" /\ refCount[o] = 0 /\ \A u \in Threads : hand[u].claims # o
    <2>1. refCount[o] \in Nat
      BY <1>3 DEF ComTypeOK
    <2> QED BY <1>1, <1>2, <2>1 DEF Fits, ClaimsFit
  <1>18. ClaimsMove(t, hand, new, o)
    <2>1. \A a \in Objects : refCount[a] \in Nat
      BY <1>3 DEF ComTypeOK
    <2>2. \A a \in Objects : a # o => (refCount'[a] > 0 <=> refCount[a] > 0)
      BY <1>5, <1>7, <2>1
    <2>3. refCount'[o] = 0
      BY <1>6, <1>7, <1>17
    <2> QED BY <1>12, <1>14, <1>15, <1>17, <2>2, <2>3 DEF ClaimsMove
  <1>19. Place(t, new)'
    <2>1. Mine(t, goal[t].pointer)'
      BY <1>1, <1>14 DEF Mine, Free
    <2>2. Copying(t, new)'
      BY <1>1, <1>12, <1>14 DEF Copying
    <2> QED BY <2>1, <2>2 DEF Place
  <1> QED BY <1>2, <1>3, <1>9, <1>11, <1>13, <1>16, <1>18, <1>19, Acts

-----------------------------------------------------------------------------
LEMMA ComInit == Init => ComInv
  <1> SUFFICES ASSUME Init PROVE ComInv
    OBVIOUS
  <1> PICK hand : hand = [t \in Threads |-> Empty]
    OBVIOUS
  <1>1. Empty \in Hands /\ Empty.carries = Null /\ Empty.drops = Null /\ Empty.claims = Null
    BY HandFields DEF Empty, Maybe
  <1>2. NoGoal \in Goals /\ <<>> \in Programs
    BY DEF NoGoal, Goals, MaybePointer, Maybe, Programs
  <1>3. ComTypeOK
    BY <1>2 DEF Init, ComTypeOK, Maybe
  <1>4. Exclusive
    BY DEF Init, Exclusive, Quiet
  <1>5. ASSUME NEW o \in Objects
        PROVE  Holders(o) = {} /\ Delegates(o) = {} /\ Carriers(hand, o) = {} /\ Droppers(hand, o) = {}
    BY <1>1, NullAssumption DEF Init, Holders, Delegates, Carriers, Droppers
  <1>6. CountsFit(hand)
    <2> SUFFICES ASSUME NEW o \in Objects
                 PROVE  refCount[o] = Cardinality(Holders(o)) + Cardinality(Delegates(o))
                           + Cardinality(Carriers(hand, o)) + Cardinality(Droppers(hand, o))
      BY DEF CountsFit
    <2>1. Cardinality(Holders(o)) = 0 /\ Cardinality(Delegates(o)) = 0
      BY <1>5, FS_EmptySet
    <2>2. Cardinality(Carriers(hand, o)) = 0 /\ Cardinality(Droppers(hand, o)) = 0
      BY <1>5, FS_EmptySet
    <2>3. refCount[o] = 0
      BY DEF Init
    <2> QED BY <2>1, <2>2, <2>3
  <1>7. ClaimsFit(hand)
    BY <1>1, NullAssumption DEF Init, ClaimsFit
  <1>8. \A t \in Threads : Place(t, hand[t])
    BY DEF Init, Place, Empty
  <1>9. Fits(hand)
    BY <1>1, <1>6, <1>7, <1>8 DEF Fits
  <1> QED BY <1>3, <1>4, <1>9 DEF ComInv

LEMMA ComStays ==
    ASSUME ComInv, UNCHANGED vars
    PROVE  ComInv'
  <1>1. UNCHANGED <<ptr, life, refCount, implementer, code, reg, goal, wild>>
    BY DEF vars
  <1>2. ComTypeOK'
    BY <1>1 DEF ComInv, ComTypeOK
  <1>3. Exclusive'
    BY <1>1 DEF ComInv, Exclusive, Quiet
  <1>4. PICK hand : Fits(hand)
    BY DEF ComInv
  <1>5. CountsFit(hand)' /\ ClaimsFit(hand)'
    BY <1>1, <1>4 DEF Fits, CountsFit, ClaimsFit, Holders, Delegates, Carriers, Droppers
  <1>6. ASSUME NEW t \in Threads PROVE Place(t, hand[t])'
    <2>1. Place(t, hand[t])
      BY <1>4 DEF Fits
    <2> QED BY <1>1, <2>1 DEF Place, Mine, Reading, Assigning, Copying, Moving, Resetting, Resuming,
                             Before, Resumes
  <1>7. Fits(hand)'
    BY <1>4, <1>5, <1>6 DEF Fits
  <1> QED BY <1>2, <1>3, <1>7 DEF ComInv

LEMMA ComSteps ==
    ASSUME ~SelfAssigns, ComInv, [Next]_vars
    PROVE  ComInv'
  <1>1. CASE UNCHANGED vars
    BY <1>1, ComStays
  <1>2. ASSUME NEW t \in Threads, Call(t)
        PROVE  ComInv'
    BY <1>2, AssignKeeps, CopyKeeps, MoveKeeps, ResetCallKeeps, CreateKeeps DEF Call
  <1>3. ASSUME NEW t \in Threads, Step(t)
        PROVE  ComInv'
    BY <1>3, ResetKeeps, LoadKeeps, DetachKeeps, StoreKeeps, AddRefKeeps, ReleaseKeeps, TestKeeps DEF Step
  <1> QED BY <1>1, <1>2, <1>3 DEF Next

LEMMA ComHolds == ComInv => NothingDangles /\ CountsHolders
  <1> SUFFICES ASSUME ComInv PROVE NothingDangles /\ CountsHolders
    OBVIOUS
  <1>1. PICK hand : Fits(hand)
    BY DEF ComInv
  <1>2. ComTypeOK
    BY DEF ComInv
  <1>3. NothingDangles
    <2>1. ~wild
      BY <1>2 DEF ComTypeOK
    <2>2. ASSUME NEW p \in Pointers, ptr[p] # Null PROVE life[ptr[p]] = "alive"
      <3>1. ptr[p] \in Objects
        BY <1>2, <2>2 DEF ComTypeOK, Maybe
      <3> QED BY <1>1, <3>1, HeldIsAlive
    <2>3. ASSUME NEW o \in Objects, life[o] = "alive", implementer[o] # Null
          PROVE  life[implementer[o]] = "alive"
      <3>1. implementer[o] \in Objects
        BY <1>2, <2>3 DEF ComTypeOK, Maybe
      <3> QED BY <1>1, <2>3, <3>1, HeldIsAlive
    <2> QED BY <2>1, <2>2, <2>3 DEF NothingDangles
  <1>4. ASSUME NEW t \in Threads, Quiet(t)
        PROVE  /\ hand[t].carries = Null /\ hand[t].drops = Null /\ hand[t].claims = Null
               /\ goal[t] = NoGoal \/ ptr[goal[t].pointer] = goal[t].object
    <2>1. hand[t] \in Hands /\ Place(t, hand[t])
      BY <1>1 DEF Fits
    <2>2. hand[t] = Empty /\ (goal[t] = NoGoal \/ ptr[goal[t].pointer] = goal[t].object)
      BY <1>2, <1>4, <2>1, QuietIsEmpty
    <2> QED BY <2>2, HandFields DEF Empty
  <1>5. HoldsTheGoal
    BY <1>4 DEF HoldsTheGoal
  <1>6. ASSUME \A t \in Threads : Quiet(t), NEW o \in Objects
        PROVE  /\ refCount[o] = Cardinality(Holders(o)) + Cardinality(Delegates(o))
               /\ life[o] = "alive" <=> refCount[o] > 0
    <2>1. Carriers(hand, o) = {} /\ Droppers(hand, o) = {} /\ \A t \in Threads : hand[t].claims # o
      BY <1>4, <1>6, NullAssumption DEF Carriers, Droppers
    <2>2. Cardinality(Carriers(hand, o)) = 0 /\ Cardinality(Droppers(hand, o)) = 0
      BY <2>1, FS_EmptySet
    <2>3. refCount[o] = Cardinality(Holders(o)) + Cardinality(Delegates(o)) + 0 + 0
      BY <1>1, <2>2 DEF Fits, CountsFit
    <2>4. refCount[o] = Cardinality(Holders(o)) + Cardinality(Delegates(o))
      BY <2>3, CountedTypes
    <2> QED BY <1>1, <2>1, <2>4 DEF Fits, ClaimsFit
  <1> QED BY <1>3, <1>5, <1>6 DEF CountsHolders

LEMMA ComBehaves ==
    ASSUME ~SelfAssigns
    PROVE  LifetimesSpec => []ComInv
  <1>1. LifetimesInit => ComInv
    BY ComInit DEF LifetimesInit
  <1>2. ComInv /\ [LifetimesNext]_<<part, vars, openVars, lookupVars>> => ComInv'
    <2> SUFFICES ASSUME ComInv, [LifetimesNext]_<<part, vars, openVars, lookupVars>>
                 PROVE  ComInv'
      OBVIOUS
    <2>1. [Next]_vars
      BY DEF LifetimesNext
    <2> QED BY <2>1, ComSteps
  <1> QED BY <1>1, <1>2, PTL DEF LifetimesSpec

-----------------------------------------------------------------------------
(* Opened devices: what an object is made of.                              *)
OpenPlaces == {"idle", "product", "found", "node", "epoll", "list", "interfaces", "attributes",
    "endpoints", "addresses", "open", "destroying", "unwinding", "failed", "destroyed", "crashed"}
MaybeNumber == Numbers \cup {Opened!Closed}
Addresses == 1..255
InterfaceRecords == [name : Nat, number : Nat, in : SUBSET Addresses, out : SUBSET Addresses]
UnwindTails == {Opened!Unwind, Opened!UnwindWithoutEpoll, <<"device">>}
DestroyTails == {Opened!Destroy, <<"epoll", "device">>, <<"device">>}
ObjectRecords == [
    at : OpenPlaces,
    vid : Nat, pid : Nat, node : Nat,
    fd : MaybeNumber, epoll : MaybeNumber, directory : MaybeNumber, endpoints : MaybeNumber,
    names : SUBSET Nat, addresses : SUBSET Addresses,
    current : InterfaceRecords, interfaces : SUBSET InterfaceRecords,
    left : UnwindTails \cup DestroyTails \cup {<<>>}]
Entries == [what : {"device", "epoll", "directory"}, by : Devices]

OpenTypeOK ==
    /\ plugs \in 0..Len(Contents) /\ plugged \in {0, plugs}
    /\ table \in [Numbers -> Entries \cup {Unused}]
    /\ obj \in [Devices -> ObjectRecords]

(* What an object has open, by how far it has come.                        *)
NoListing(s) == s.directory = Opened!Closed /\ s.endpoints = Opened!Closed /\ s.addresses = {}
HasDevice(s) == s.fd # Opened!Closed
HasEpoll(s) == s.fd # Opened!Closed /\ s.epoll # Opened!Closed
HasNothing(s) ==
    /\ s.fd = Opened!Closed /\ s.epoll = Opened!Closed /\ s.interfaces = {}
    /\ s.directory = Opened!Closed /\ s.endpoints = Opened!Closed

FitsOpening(s) ==
    /\ s.at \in {"idle", "product", "found", "node", "destroyed"} => HasNothing(s) /\ s.addresses = {}
    /\ s.at = "failed" => HasNothing(s)
    /\ s.at = "epoll" => HasDevice(s) /\ s.epoll = Opened!Closed /\ s.interfaces = {} /\ NoListing(s)
    /\ s.at = "list" => HasEpoll(s) /\ s.interfaces = {} /\ NoListing(s)
    /\ s.at \in {"interfaces", "attributes", "endpoints"} =>
          HasEpoll(s) /\ s.directory # Opened!Closed /\ s.endpoints = Opened!Closed /\ s.addresses = {}
    /\ s.at = "addresses" =>
          HasEpoll(s) /\ s.directory # Opened!Closed /\ s.endpoints # Opened!Closed
    /\ s.at = "crashed" => HasDevice(s)

FitsClosing(s) ==
    /\ s.at = "open" => HasEpoll(s) /\ NoListing(s)
    /\ s.at = "unwinding" =>
          /\ HasDevice(s) /\ s.left \in UnwindTails
          /\ s.left # Opened!Unwind => s.epoll = Opened!Closed
          /\ s.left = <<"device">> => s.interfaces = {}
          /\ s.addresses = {} => NoListing(s)
    /\ s.at = "destroying" =>
          /\ HasDevice(s) /\ s.left \in DestroyTails /\ NoListing(s)
          /\ s.left # Opened!Destroy => s.interfaces = {}
          /\ s.left = <<"device">> => s.epoll = Opened!Closed
    /\ s.at \notin {"unwinding", "destroying"} => s.left = <<>>

(* A number that an object has denotes what the object thinks, and what is *)
(* in the table is known to an object, or was leaked by a listing.         *)
Denotes(n, what, o) == n # Opened!Closed => n \in Numbers /\ table[n] = [what |-> what, by |-> o]
OwnsNumbers(o) ==
    /\ Denotes(obj[o].fd, "device", o) /\ Denotes(obj[o].epoll, "epoll", o)
    /\ Denotes(obj[o].directory, "directory", o) /\ Denotes(obj[o].endpoints, "directory", o)
    /\ obj[o].directory # Opened!Closed => obj[o].directory # obj[o].endpoints

Knows(s, what, n) ==
    \/ what = "device" /\ s.fd = n
    \/ what = "epoll" /\ s.epoll = n
    \/ /\ what = "directory"
       /\ n \in {s.directory, s.endpoints} \/ (s.at = "failed" /\ s.addresses # {})
KnownTo(o) == \A n \in Numbers : table[n] # Unused /\ table[n].by = o => Knows(obj[o], table[n].what, n)

OpenInv ==
    /\ OpenTypeOK
    /\ \A o \in Devices : FitsOpening(obj[o]) /\ FitsClosing(obj[o]) /\ OwnsNumbers(o) /\ KnownTo(o)

LEMMA ClosedIsNoNumber == Opened!Closed \notin Numbers
  BY PartsAssumption DEF Opened!Closed, Opened!NumbersAssumption

LEMMA EntriesAreUsed ==
    ASSUME NEW what \in {"device", "epoll", "directory"}, NEW o \in Devices
    PROVE  [what |-> what, by |-> o] # Unused
  BY PartsAssumption DEF Opened!UnusedAssumption

LEMMA OpenInit == Opened!Init => OpenInv
  <1> SUFFICES ASSUME Opened!Init PROVE OpenInv
    OBVIOUS
  <1>1. Opened!NewObject \in ObjectRecords
    BY DEF Opened!NewObject, Opened!NoInterface, Opened!Closed, ObjectRecords, OpenPlaces, MaybeNumber,
           InterfaceRecords
  <1>2. OpenTypeOK
    BY <1>1, PartsAssumption DEF Opened!Init, OpenTypeOK, Opened!ContentsAssumption
  <1>3. \A o \in Devices : FitsOpening(obj[o]) /\ FitsClosing(obj[o]) /\ OwnsNumbers(o) /\ KnownTo(o)
    BY DEF Opened!Init, Opened!NewObject, FitsOpening, FitsClosing, HasNothing, OwnsNumbers, Denotes, KnownTo
  <1> QED BY <1>2, <1>3 DEF OpenInv

-----------------------------------------------------------------------------
(* A step of an object concerns its own numbers only.                      *)
LEMMA ObjectKeeps ==
    ASSUME OpenInv, NEW o \in Devices, NEW s \in ObjectRecords,
           obj' = [obj EXCEPT ![o] = s], UNCHANGED Opened!System,
           table' \in [Numbers -> Entries \cup {Unused}],
           \A n \in Numbers : table'[n] = table[n] \/
               /\ table[n] # Unused => table[n].by = o
               /\ table'[n] # Unused => table'[n].by = o,
           FitsOpening(s), FitsClosing(s), OwnsNumbers(o)', KnownTo(o)'
    PROVE  OpenInv'
  <1>1. OpenTypeOK'
    BY DEF OpenInv, OpenTypeOK, Opened!System
  <1>2. obj'[o] = s /\ \A q \in Devices : q # o => obj'[q] = obj[q]
    BY DEF OpenInv, OpenTypeOK
  <1>3. ASSUME NEW q \in Devices, q # o
        PROVE  (FitsOpening(obj[q]) /\ FitsClosing(obj[q]) /\ OwnsNumbers(q) /\ KnownTo(q))'
    <2>1. obj'[q] = obj[q] /\ FitsOpening(obj[q]) /\ FitsClosing(obj[q]) /\ OwnsNumbers(q) /\ KnownTo(q)
      BY <1>2, <1>3 DEF OpenInv
    <2>2. ASSUME NEW n, NEW what \in {"device", "epoll", "directory"}, Denotes(n, what, q)
          PROVE  n # Opened!Closed => n \in Numbers /\ table'[n] = [what |-> what, by |-> q]
      <3>1. CASE n # Opened!Closed
        <4>1. n \in Numbers /\ table[n] = [what |-> what, by |-> q]
          BY <2>2, <3>1 DEF Denotes
        <4>2. table[n] # Unused /\ table[n].by = q
          BY <4>1, EntriesAreUsed
        <4> QED BY <1>3, <4>1, <4>2
      <3> QED BY <3>1
    <2>3. OwnsNumbers(q)'
      BY <2>1, <2>2 DEF OwnsNumbers, Denotes
    <2>4. KnownTo(q)'
      BY <1>3, <2>1 DEF KnownTo
    <2> QED BY <2>1, <2>3, <2>4
  <1> QED BY <1>1, <1>2, <1>3 DEF OpenInv

(* A step that opens and closes nothing.                                   *)
LEMMA RecordKeeps ==
    ASSUME OpenInv, NEW o \in Devices, NEW s \in ObjectRecords,
           obj' = [obj EXCEPT ![o] = s], UNCHANGED <<Opened!System, table>>,
           FitsOpening(s), FitsClosing(s), obj[o].at # "failed",
           s.fd = obj[o].fd, s.epoll = obj[o].epoll,
           s.directory = obj[o].directory, s.endpoints = obj[o].endpoints
    PROVE  OpenInv'
  <1>1. obj'[o] = s /\ table' = table
    BY DEF OpenInv, OpenTypeOK
  <1>2. OwnsNumbers(o) /\ KnownTo(o)
    BY DEF OpenInv
  <1>3. OwnsNumbers(o)'
    BY <1>1, <1>2 DEF OwnsNumbers, Denotes
  <1>4. KnownTo(o)'
    BY <1>1, <1>2 DEF KnownTo, Knows
  <1>5. table' \in [Numbers -> Entries \cup {Unused}]
    BY <1>1 DEF OpenInv, OpenTypeOK
  <1> QED BY <1>1, <1>3, <1>4, <1>5, ObjectKeeps

(* Opening: a number that was free becomes that of one of the four.        *)
LEMMA OpenKeeps ==
    ASSUME OpenInv, NEW o \in Devices, NEW s \in ObjectRecords, NEW n \in Numbers,
           NEW what \in {"device", "epoll", "directory"},
           obj' = [obj EXCEPT ![o] = s], UNCHANGED Opened!System,
           table[n] = Unused, table' = [table EXCEPT ![n] = [what |-> what, by |-> o]],
           FitsOpening(s), FitsClosing(s), obj[o].at # "failed",
           IF what = "device" THEN obj[o].fd = Opened!Closed /\ s.fd = n ELSE s.fd = obj[o].fd,
           IF what = "epoll" THEN obj[o].epoll = Opened!Closed /\ s.epoll = n ELSE s.epoll = obj[o].epoll,
           \/ what # "directory" /\ s.directory = obj[o].directory /\ s.endpoints = obj[o].endpoints
           \/ /\ what = "directory" /\ obj[o].endpoints = Opened!Closed
              /\ \/ s.directory = obj[o].directory /\ s.endpoints = n
                 \/ obj[o].directory = Opened!Closed /\ s.directory = n /\ s.endpoints = Opened!Closed
    PROVE  OpenInv'
  <1>1. /\ obj'[o] = s /\ [what |-> what, by |-> o] \in Entries
        /\ table' \in [Numbers -> Entries \cup {Unused}]
        /\ table'[n] = [what |-> what, by |-> o]
        /\ \A m \in Numbers : m # n => table'[m] = table[m]
    BY DEF OpenInv, OpenTypeOK, Entries
  <1>2. OwnsNumbers(o) /\ KnownTo(o)
    BY DEF OpenInv
  <1>3. ASSUME NEW m, NEW w \in {"device", "epoll", "directory"}, Denotes(m, w, o)
        PROVE  Denotes(m, w, o)' /\ m # n
    <2>1. CASE m = Opened!Closed
      BY <2>1, ClosedIsNoNumber DEF Denotes
    <2>2. CASE m # Opened!Closed
      <3>1. m \in Numbers /\ table[m] = [what |-> w, by |-> o]
        BY <1>3, <2>2 DEF Denotes
      <3>2. m # n
        BY <3>1, EntriesAreUsed
      <3> QED BY <1>1, <3>1, <3>2 DEF Denotes
    <2> QED BY <2>1, <2>2
  <1>4. Denotes(n, what, o)'
    BY <1>1 DEF Denotes
  <1>5. OwnsNumbers(o)'
    BY <1>1, <1>2, <1>3, <1>4 DEF OwnsNumbers
  <1>6. KnownTo(o)'
    BY <1>1, <1>2, ClosedIsNoNumber DEF KnownTo, Knows
  <1>7. \A m \in Numbers : table'[m] = table[m] \/
               /\ table[m] # Unused => table[m].by = o
               /\ table'[m] # Unused => table'[m].by = o
    BY <1>1
  <1> QED BY <1>1, <1>5, <1>6, <1>7, ObjectKeeps

LEMMA CloseKeeps ==
    ASSUME OpenInv, NEW o \in Devices, NEW s \in ObjectRecords, NEW n \in Numbers,
           NEW what \in {"device", "epoll", "directory"},
           obj' = [obj EXCEPT ![o] = s], UNCHANGED Opened!System,
           table' = [table EXCEPT ![n] = Unused],
           FitsOpening(s), FitsClosing(s), obj[o].at # "failed",
           IF what = "device" THEN obj[o].fd = n /\ s.fd = Opened!Closed ELSE s.fd = obj[o].fd,
           IF what = "epoll" THEN obj[o].epoll = n /\ s.epoll = Opened!Closed ELSE s.epoll = obj[o].epoll,
           \/ what # "directory" /\ s.directory = obj[o].directory /\ s.endpoints = obj[o].endpoints
           \/ /\ what = "directory" /\ s.endpoints = Opened!Closed
              /\ \/ obj[o].endpoints = n /\ s.directory = obj[o].directory
                 \/ /\ obj[o].endpoints = Opened!Closed
                    /\ obj[o].directory = n /\ s.directory = Opened!Closed
    PROVE  OpenInv'
  <1>1. /\ obj'[o] = s /\ table'[n] = Unused
        /\ table' \in [Numbers -> Entries \cup {Unused}]
        /\ \A m \in Numbers : m # n => table'[m] = table[m]
    BY DEF OpenInv, OpenTypeOK
  <1>2. OwnsNumbers(o) /\ KnownTo(o)
    BY DEF OpenInv
  <1>3. table[n] = [what |-> what, by |-> o]
    BY <1>2, ClosedIsNoNumber DEF OwnsNumbers, Denotes
  <1>4. ASSUME NEW m, NEW w \in {"device", "epoll", "directory"}, Denotes(m, w, o), m # n
        PROVE  Denotes(m, w, o)'
    BY <1>1, <1>4 DEF Denotes
  <1>5. ASSUME NEW m, NEW w \in {"device", "epoll", "directory"}, Denotes(m, w, o), w # what
        PROVE  m # n
    BY <1>3, <1>5, ClosedIsNoNumber DEF Denotes
  <1>6. \A w \in {"device", "epoll", "directory"} : Denotes(Opened!Closed, w, o)'
    BY DEF Denotes
  <1>7. Denotes(s.fd, "device", o)' /\ Denotes(s.epoll, "epoll", o)'
    BY <1>2, <1>4, <1>5, <1>6 DEF OwnsNumbers
  <1>8. Denotes(s.directory, "directory", o)' /\ Denotes(s.endpoints, "directory", o)'
    <2>1. CASE what # "directory"
      BY <1>2, <1>4, <1>5, <2>1 DEF OwnsNumbers
    <2>2. CASE what = "directory"
      BY <1>2, <1>4, <1>6, <2>2, ClosedIsNoNumber DEF OwnsNumbers
    <2> QED BY <2>1, <2>2
  <1>9. OwnsNumbers(o)'
    BY <1>1, <1>2, <1>7, <1>8 DEF OwnsNumbers
  <1>10. KnownTo(o)'
    BY <1>1, <1>2, <1>3, ClosedIsNoNumber DEF KnownTo, Knows
  <1>11. \A m \in Numbers : table'[m] = table[m] \/
               /\ table[m] # Unused => table[m].by = o
               /\ table'[m] # Unused => table'[m].by = o
    BY <1>1, <1>3
  <1> QED BY <1>1, <1>9, <1>10, <1>11, ObjectKeeps

-----------------------------------------------------------------------------
LEMMA NewObjectFits ==
    /\ Opened!NewObject \in ObjectRecords
    /\ FitsOpening(Opened!NewObject) /\ FitsClosing(Opened!NewObject)
  <1>1. Opened!NewObject \in ObjectRecords
    BY DEF Opened!NewObject, Opened!NoInterface, Opened!Closed, ObjectRecords, OpenPlaces, MaybeNumber,
           InterfaceRecords
  <1>2. FitsOpening(Opened!NewObject) /\ FitsClosing(Opened!NewObject)
    BY DEF Opened!NewObject, FitsOpening, FitsClosing, HasNothing
  <1> QED BY <1>1, <1>2

LEMMA FindingKeeps ==
    ASSUME OpenInv, NEW o \in Devices,
           Opened!ReadVendor(o) \/ Opened!ReadProduct(o) \/ Opened!ReadNode(o)
    PROVE  OpenInv'
  <1>1. /\ obj[o] \in ObjectRecords /\ FitsOpening(obj[o]) /\ FitsClosing(obj[o])
        /\ plugged \in Nat
    BY PartsAssumption DEF OpenInv, OpenTypeOK, Opened!ContentsAssumption
  <1>2. /\ obj[o].at \in {"idle", "product", "found"}
        /\ UNCHANGED <<Opened!System, table>>
        /\ HasNothing(obj[o]) /\ obj[o].addresses = {} /\ obj[o].left = <<>>
    BY <1>1 DEF Opened!ReadVendor, Opened!ReadProduct, Opened!ReadNode, FitsOpening, FitsClosing
  <1>3. ASSUME obj' = [obj EXCEPT ![o] = Opened!NewObject] PROVE OpenInv'
    <2>1. /\ Opened!NewObject.fd = obj[o].fd /\ Opened!NewObject.epoll = obj[o].epoll
          /\ Opened!NewObject.directory = obj[o].directory
          /\ Opened!NewObject.endpoints = obj[o].endpoints
      BY <1>2 DEF HasNothing, Opened!NewObject
    <2> QED BY <1>2, <1>3, <2>1, NewObjectFits, RecordKeeps
  <1>4. ASSUME NEW s, obj' = [obj EXCEPT ![o] = s],
               \/ s = [obj[o] EXCEPT !.at = "product", !.vid = plugged]
               \/ s = [obj[o] EXCEPT !.at = "found", !.pid = plugged]
               \/ s = [obj[o] EXCEPT !.at = "node", !.node = plugged]
        PROVE  OpenInv'
    <2>1. s \in ObjectRecords
      <3>1. CASE s = [obj[o] EXCEPT !.at = "product", !.vid = plugged]
        BY <1>1, <3>1 DEF ObjectRecords, OpenPlaces
      <3>2. CASE s = [obj[o] EXCEPT !.at = "found", !.pid = plugged]
        BY <1>1, <3>2 DEF ObjectRecords, OpenPlaces
      <3>3. CASE s = [obj[o] EXCEPT !.at = "node", !.node = plugged]
        BY <1>1, <3>3 DEF ObjectRecords, OpenPlaces
      <3> QED BY <1>4, <3>1, <3>2, <3>3
    <2>2. /\ s.at \in {"product", "found", "node"}
          /\ s.fd = obj[o].fd /\ s.epoll = obj[o].epoll
          /\ s.directory = obj[o].directory /\ s.endpoints = obj[o].endpoints
          /\ s.interfaces = obj[o].interfaces /\ s.addresses = obj[o].addresses /\ s.left = obj[o].left
      BY <1>1, <1>4 DEF ObjectRecords
    <2>3. FitsOpening(s) /\ FitsClosing(s)
      BY <1>2, <2>2 DEF FitsOpening, FitsClosing, HasNothing
    <2> QED BY <1>2, <1>4, <2>1, <2>2, <2>3, RecordKeeps
  <1>5. CASE Opened!ReadVendor(o)
    BY <1>4, <1>5 DEF Opened!ReadVendor, OpenInv, OpenTypeOK
  <1>6. CASE Opened!ReadProduct(o)
    BY <1>3, <1>4, <1>6 DEF Opened!ReadProduct, OpenInv, OpenTypeOK
  <1>7. CASE Opened!ReadNode(o)
    BY <1>4, <1>7 DEF Opened!ReadNode, OpenInv, OpenTypeOK
  <1> QED BY <1>5, <1>6, <1>7

LEMMA EndedFits ==
    ASSUME NEW how \in {"failed", "destroyed"}, NEW addresses \in SUBSET Addresses,
           how = "destroyed" => addresses = {},
           NEW s, s = Opened!Ended(how, addresses)
    PROVE  /\ s \in ObjectRecords /\ FitsOpening(s) /\ FitsClosing(s)
           /\ HasNothing(s) /\ s.at = how /\ s.addresses = addresses
  <1>1. /\ s.at = how /\ s.addresses = addresses /\ s.left = <<>>
        /\ s.fd = Opened!Closed /\ s.epoll = Opened!Closed /\ s.interfaces = {}
        /\ s.directory = Opened!Closed /\ s.endpoints = Opened!Closed
    BY DEF Opened!Ended, Opened!NewObject
  <1>2. s \in ObjectRecords
    BY DEF Opened!Ended, Opened!NewObject, Opened!NoInterface, Opened!Closed, ObjectRecords,
           OpenPlaces, MaybeNumber, InterfaceRecords
  <1> QED BY <1>1, <1>2 DEF FitsOpening, FitsClosing, HasNothing

LEMMA ThrowKeeps ==
    ASSUME OpenInv, NEW o \in Devices, UNCHANGED <<Opened!System, table>>,
           obj' = [obj EXCEPT ![o].at = "unwinding", ![o].left = Opened!Unwind],
           obj[o].at = "epoll" \/ (obj[o].at = "addresses" /\ obj[o].addresses # {})
    PROVE  OpenInv'
  <1>1. obj[o] \in ObjectRecords /\ FitsOpening(obj[o])
    BY DEF OpenInv, OpenTypeOK
  <1>2. PICK s : s = [obj[o] EXCEPT !.at = "unwinding", !.left = Opened!Unwind]
    OBVIOUS
  <1>3. obj' = [obj EXCEPT ![o] = s]
    BY <1>2 DEF OpenInv, OpenTypeOK
  <1>4. s \in ObjectRecords
    BY <1>1, <1>2 DEF ObjectRecords, OpenPlaces, UnwindTails
  <1>5. /\ s.at = "unwinding" /\ s.left = Opened!Unwind
        /\ s.fd = obj[o].fd /\ s.epoll = obj[o].epoll
        /\ s.directory = obj[o].directory /\ s.endpoints = obj[o].endpoints
        /\ s.interfaces = obj[o].interfaces /\ s.addresses = obj[o].addresses
    BY <1>1, <1>2 DEF ObjectRecords
  <1>6. HasDevice(s) /\ (s.addresses = {} => NoListing(s))
    BY <1>1, <1>5 DEF FitsOpening, HasDevice, HasEpoll, NoListing
  <1>7. FitsOpening(s) /\ FitsClosing(s)
    BY <1>5, <1>6 DEF FitsOpening, FitsClosing, UnwindTails, Opened!Unwind
  <1> QED BY <1>3, <1>4, <1>5, <1>7, RecordKeeps

LEMMA OpenNodeKeeps ==
    ASSUME OpenInv, NEW o \in Devices, Opened!OpenNode(o)
    PROVE  OpenInv'
  <1>1. /\ obj[o] \in ObjectRecords /\ obj[o].at = "node" /\ UNCHANGED Opened!System
        /\ HasNothing(obj[o]) /\ obj[o].addresses = {} /\ obj[o].left = <<>>
    BY DEF OpenInv, OpenTypeOK, Opened!OpenNode, FitsOpening, FitsClosing
  <1>2. ASSUME NEW n \in Numbers, Opened!Lowest(n), Opened!Open(n, "device", o),
               obj' = [obj EXCEPT ![o].at = "epoll", ![o].fd = n]
        PROVE  OpenInv'
    <2>1. PICK s : s = [obj[o] EXCEPT !.at = "epoll", !.fd = n]
      OBVIOUS
    <2>2. obj' = [obj EXCEPT ![o] = s]
      BY <1>2, <2>1 DEF OpenInv, OpenTypeOK
    <2>3. s \in ObjectRecords
      BY <1>1, <2>1 DEF ObjectRecords, OpenPlaces, MaybeNumber
    <2>4. /\ s.at = "epoll" /\ s.fd = n /\ s.left = obj[o].left
          /\ s.epoll = obj[o].epoll /\ s.directory = obj[o].directory /\ s.endpoints = obj[o].endpoints
          /\ s.interfaces = obj[o].interfaces /\ s.addresses = obj[o].addresses
      BY <1>1, <2>1 DEF ObjectRecords
    <2>5. FitsOpening(s) /\ FitsClosing(s)
      BY <1>1, <2>4, ClosedIsNoNumber DEF FitsOpening, FitsClosing, HasNothing, HasDevice, NoListing
    <2>6. table[n] = Unused /\ table' = [table EXCEPT ![n] = [what |-> "device", by |-> o]]
      BY <1>2 DEF Opened!Lowest, Opened!Open
    <2> QED BY <1>1, <2>2, <2>3, <2>4, <2>5, <2>6, OpenKeeps DEF HasNothing
  <1>3. ASSUME obj' = [obj EXCEPT ![o] = Opened!Ended("failed", {})], UNCHANGED table
        PROVE  OpenInv'
    <2>1. PICK s : s = Opened!Ended("failed", {})
      OBVIOUS
    <2>2. s \in ObjectRecords /\ FitsOpening(s) /\ FitsClosing(s) /\ HasNothing(s)
      BY <2>1, EndedFits
    <2>3. UNCHANGED <<Opened!System, table>> /\ obj' = [obj EXCEPT ![o] = s]
      BY <1>1, <1>3, <2>1
    <2> QED BY <1>1, <2>2, <2>3, RecordKeeps DEF HasNothing
  <1> QED BY <1>2, <1>3 DEF Opened!OpenNode

LEMMA OpenEpollKeeps ==
    ASSUME OpenInv, NEW o \in Devices, Opened!OpenEpoll(o)
    PROVE  OpenInv'
  <1>1. /\ obj[o] \in ObjectRecords /\ obj[o].at = "epoll" /\ UNCHANGED Opened!System
        /\ HasDevice(obj[o]) /\ obj[o].epoll = Opened!Closed /\ obj[o].interfaces = {}
        /\ NoListing(obj[o]) /\ obj[o].left = <<>>
    BY DEF OpenInv, OpenTypeOK, Opened!OpenEpoll, FitsOpening, FitsClosing
  <1>2. ASSUME NEW n \in Numbers, Opened!Lowest(n), Opened!Open(n, "epoll", o),
               obj' = [obj EXCEPT ![o].at = "list", ![o].epoll = n]
        PROVE  OpenInv'
    <2>1. PICK s : s = [obj[o] EXCEPT !.at = "list", !.epoll = n]
      OBVIOUS
    <2>2. obj' = [obj EXCEPT ![o] = s]
      BY <1>2, <2>1 DEF OpenInv, OpenTypeOK
    <2>3. s \in ObjectRecords
      BY <1>1, <2>1 DEF ObjectRecords, OpenPlaces, MaybeNumber
    <2>4. /\ s.at = "list" /\ s.epoll = n /\ s.left = obj[o].left
          /\ s.fd = obj[o].fd /\ s.directory = obj[o].directory /\ s.endpoints = obj[o].endpoints
          /\ s.interfaces = obj[o].interfaces /\ s.addresses = obj[o].addresses
      BY <1>1, <2>1 DEF ObjectRecords
    <2>5. FitsOpening(s) /\ FitsClosing(s)
      BY <1>1, <2>4, ClosedIsNoNumber DEF FitsOpening, FitsClosing, HasDevice, HasEpoll, NoListing
    <2>6. table[n] = Unused /\ table' = [table EXCEPT ![n] = [what |-> "epoll", by |-> o]]
      BY <1>2 DEF Opened!Lowest, Opened!Open
    <2> QED BY <1>1, <2>2, <2>3, <2>4, <2>5, <2>6, OpenKeeps
  <1>3. ASSUME Opened!Throw(o), UNCHANGED table PROVE OpenInv'
    <2>1. UNCHANGED <<Opened!System, table>>
      BY <1>1, <1>3
    <2>2. obj[o].at = "epoll"
      BY <1>1
    <2> QED BY <1>3, <2>1, <2>2, ThrowKeeps DEF Opened!Throw
  <1> QED BY <1>2, <1>3 DEF Opened!OpenEpoll

(* The places of a listing, and what an object has there.                  *)
LEMMA ListInterfacesKeeps ==
    ASSUME OpenInv, NEW o \in Devices, Opened!ListInterfaces(o)
    PROVE  OpenInv'
  <1>1. /\ obj[o] \in ObjectRecords /\ obj[o].at = "list" /\ UNCHANGED Opened!System
        /\ HasEpoll(obj[o]) /\ obj[o].interfaces = {} /\ NoListing(obj[o]) /\ obj[o].left = <<>>
    BY DEF OpenInv, OpenTypeOK, Opened!ListInterfaces, FitsOpening, FitsClosing
  <1>2. ASSUME NEW n \in Numbers, Opened!Lowest(n), Opened!Open(n, "directory", o), plugged # 0,
               obj' = [obj EXCEPT ![o].at = "interfaces", ![o].directory = n,
                                  ![o].names = DOMAIN Contents[plugged]]
        PROVE  OpenInv'
    <2>1. PICK s : s = [obj[o] EXCEPT !.at = "interfaces", !.directory = n,
                                      !.names = DOMAIN Contents[plugged]]
      OBVIOUS
    <2>2. obj' = [obj EXCEPT ![o] = s]
      BY <1>2, <2>1 DEF OpenInv, OpenTypeOK
    <2>3. DOMAIN Contents[plugged] \in SUBSET Nat
      BY <1>2, PartsAssumption DEF OpenInv, OpenTypeOK, Opened!ContentsAssumption
    <2>4. s \in ObjectRecords
      BY <1>1, <2>1, <2>3 DEF ObjectRecords, OpenPlaces, MaybeNumber
    <2>5. /\ s.at = "interfaces" /\ s.directory = n /\ s.left = obj[o].left
          /\ s.fd = obj[o].fd /\ s.epoll = obj[o].epoll /\ s.endpoints = obj[o].endpoints
          /\ s.interfaces = obj[o].interfaces /\ s.addresses = obj[o].addresses
      BY <1>1, <2>1 DEF ObjectRecords
    <2>6. FitsOpening(s) /\ FitsClosing(s)
      BY <1>1, <2>5, ClosedIsNoNumber DEF FitsOpening, FitsClosing, HasEpoll, NoListing
    <2>7. table[n] = Unused /\ table' = [table EXCEPT ![n] = [what |-> "directory", by |-> o]]
      BY <1>2 DEF Opened!Lowest, Opened!Open
    <2> QED BY <1>1, <2>2, <2>4, <2>5, <2>6, <2>7, OpenKeeps DEF NoListing
  <1>3. ASSUME Opened!Go(o, "crashed"), UNCHANGED table PROVE OpenInv'
    <2>1. PICK s : s = [obj[o] EXCEPT !.at = "crashed"]
      OBVIOUS
    <2>2. obj' = [obj EXCEPT ![o] = s]
      BY <1>3, <2>1 DEF Opened!Go, OpenInv, OpenTypeOK
    <2>3. s \in ObjectRecords
      BY <1>1, <2>1 DEF ObjectRecords, OpenPlaces
    <2>4. /\ s.at = "crashed" /\ s.left = obj[o].left
          /\ s.fd = obj[o].fd /\ s.epoll = obj[o].epoll
          /\ s.directory = obj[o].directory /\ s.endpoints = obj[o].endpoints
      BY <1>1, <2>1 DEF ObjectRecords
    <2>5. FitsOpening(s) /\ FitsClosing(s)
      BY <1>1, <2>4 DEF FitsOpening, FitsClosing, HasEpoll, HasDevice
    <2>6. UNCHANGED <<Opened!System, table>>
      BY <1>1, <1>3
    <2> QED BY <1>1, <2>2, <2>3, <2>4, <2>5, <2>6, RecordKeeps
  <1> QED BY <1>2, <1>3 DEF Opened!ListInterfaces

(* Going from one interface to the next, and reading what it is.           *)
LEMMA ReadInterfaceKeeps ==
    ASSUME OpenInv, NEW o \in Devices, Opened!NextInterface(o) \/ Opened!ReadAttributes(o)
    PROVE  OpenInv'
  <1>1. /\ obj[o] \in ObjectRecords /\ obj[o].at \in {"interfaces", "attributes"}
        /\ UNCHANGED <<Opened!System, table>>
        /\ HasEpoll(obj[o]) /\ obj[o].directory # Opened!Closed /\ obj[o].endpoints = Opened!Closed
        /\ obj[o].addresses = {} /\ obj[o].left = <<>>
    BY DEF OpenInv, OpenTypeOK, Opened!NextInterface, Opened!ReadAttributes, FitsOpening, FitsClosing
  <1>2. ASSUME NEW s \in ObjectRecords, obj' = [obj EXCEPT ![o] = s],
               s.at \in {"interfaces", "attributes", "endpoints"},
               s.left = obj[o].left, s.fd = obj[o].fd, s.epoll = obj[o].epoll,
               s.directory = obj[o].directory, s.endpoints = obj[o].endpoints,
               s.addresses = obj[o].addresses
        PROVE  OpenInv'
    <2>1. FitsOpening(s) /\ FitsClosing(s)
      BY <1>1, <1>2 DEF FitsOpening, FitsClosing, HasEpoll
    <2> QED BY <1>1, <1>2, <2>1, RecordKeeps
  <1>3. CASE Opened!NextInterface(o)
    <2>1. PICK name \in obj[o].names :
             obj' = [obj EXCEPT ![o].names = @ \ {name},
                ![o].at = IF Opened!Listed(name) THEN "attributes" ELSE "interfaces",
                ![o].current = IF Opened!Listed(name) THEN [Opened!NoInterface EXCEPT !.name = name] ELSE @]
      BY <1>3 DEF Opened!NextInterface
    <2>2. PICK place, new :
             /\ place = IF Opened!Listed(name) THEN "attributes" ELSE "interfaces"
             /\ new = IF Opened!Listed(name) THEN [Opened!NoInterface EXCEPT !.name = name]
                      ELSE obj[o].current
      OBVIOUS
    <2>3. PICK s : s = [obj[o] EXCEPT !.names = @ \ {name}, !.at = place, !.current = new]
      OBVIOUS
    <2>4. obj' = [obj EXCEPT ![o] = s]
      BY <2>1, <2>2, <2>3 DEF OpenInv, OpenTypeOK
    <2>5. name \in Nat /\ obj[o].current \in InterfaceRecords
      BY <1>1 DEF ObjectRecords
    <2>6. new \in InterfaceRecords
      BY <2>2, <2>5 DEF Opened!NoInterface, InterfaceRecords
    <2>7. s \in ObjectRecords /\ s.at \in {"interfaces", "attributes"}
      BY <1>1, <2>2, <2>3, <2>6 DEF ObjectRecords, OpenPlaces
    <2>8. /\ s.left = obj[o].left /\ s.fd = obj[o].fd /\ s.epoll = obj[o].epoll
          /\ s.directory = obj[o].directory /\ s.endpoints = obj[o].endpoints
          /\ s.addresses = obj[o].addresses
      BY <1>1, <2>3 DEF ObjectRecords
    <2> QED BY <1>2, <2>4, <2>7, <2>8
  <1>4. CASE Opened!ReadAttributes(o)
    <2>1. PICK number : number = IF Opened!Listed(obj[o].current.name) THEN obj[o].current.name ELSE 0
      OBVIOUS
    <2>2. PICK new : new = [obj[o].current EXCEPT !.number = number]
      OBVIOUS
    <2>3. PICK s : s = [obj[o] EXCEPT !.at = "endpoints", !.current = new]
      OBVIOUS
    <2>4. obj' = [obj EXCEPT ![o] = s]
      BY <1>4, <2>1, <2>2, <2>3 DEF Opened!ReadAttributes, OpenInv, OpenTypeOK
    <2>5. obj[o].current \in InterfaceRecords
      BY <1>1 DEF ObjectRecords
    <2>6. new \in InterfaceRecords
      BY <2>1, <2>2, <2>5 DEF InterfaceRecords
    <2>7. s \in ObjectRecords /\ s.at = "endpoints"
      BY <1>1, <2>3, <2>6 DEF ObjectRecords, OpenPlaces
    <2>8. /\ s.left = obj[o].left /\ s.fd = obj[o].fd /\ s.epoll = obj[o].epoll
          /\ s.directory = obj[o].directory /\ s.endpoints = obj[o].endpoints
          /\ s.addresses = obj[o].addresses
      BY <1>1, <2>3 DEF ObjectRecords
    <2> QED BY <1>2, <2>4, <2>7, <2>8
  <1> QED BY <1>3, <1>4

(* An interface that has all its endpoints is one of _interfaces.          *)
LEMMA MadeKeepsTypes ==
    ASSUME OpenInv, NEW o \in Devices,
           NEW s, s = [obj[o] EXCEPT !.at = "interfaces", !.interfaces = @ \cup {obj[o].current},
                                     !.endpoints = Opened!Closed, !.current = Opened!NoInterface]
    PROVE  /\ s \in ObjectRecords
           /\ s.at = "interfaces" /\ s.endpoints = Opened!Closed
           /\ s.left = obj[o].left /\ s.fd = obj[o].fd /\ s.epoll = obj[o].epoll
           /\ s.directory = obj[o].directory /\ s.addresses = obj[o].addresses
  <1>1. obj[o] \in ObjectRecords
    BY DEF OpenInv, OpenTypeOK
  <1>2. Opened!NoInterface \in InterfaceRecords /\ obj[o].interfaces \cup {obj[o].current} \in SUBSET InterfaceRecords
    BY <1>1 DEF ObjectRecords, Opened!NoInterface, InterfaceRecords
  <1>3. s \in ObjectRecords
    BY <1>1, <1>2 DEF ObjectRecords, OpenPlaces, MaybeNumber
  <1> QED BY <1>1, <1>3 DEF ObjectRecords

LEMMA ListEndpointsKeeps ==
    ASSUME OpenInv, NEW o \in Devices, Opened!ListEndpoints(o)
    PROVE  OpenInv'
  <1>1. /\ obj[o] \in ObjectRecords /\ obj[o].at = "endpoints" /\ UNCHANGED Opened!System
        /\ HasEpoll(obj[o]) /\ obj[o].directory # Opened!Closed /\ obj[o].endpoints = Opened!Closed
        /\ obj[o].addresses = {} /\ obj[o].left = <<>>
    BY DEF OpenInv, OpenTypeOK, Opened!ListEndpoints, FitsOpening, FitsClosing
  <1>2. PICK name : name = obj[o].current.name
    OBVIOUS
  <1>3. ASSUME NEW n \in Numbers, Opened!Lowest(n), Opened!Open(n, "directory", o), Opened!Listed(name),
               obj' = [obj EXCEPT ![o].at = "addresses", ![o].endpoints = n,
                                  ![o].addresses = Contents[plugged][name]]
        PROVE  OpenInv'
    <2>1. PICK s : s = [obj[o] EXCEPT !.at = "addresses", !.endpoints = n,
                                      !.addresses = Contents[plugged][name]]
      OBVIOUS
    <2>2. obj' = [obj EXCEPT ![o] = s]
      BY <1>3, <2>1 DEF OpenInv, OpenTypeOK
    <2>3. Contents[plugged][name] \in SUBSET Addresses
      <3>1. plugged \in DOMAIN Contents /\ name \in DOMAIN Contents[plugged]
        BY <1>3, PartsAssumption DEF Opened!Listed, OpenInv, OpenTypeOK, Opened!ContentsAssumption
      <3> QED BY <3>1, PartsAssumption DEF Opened!ContentsAssumption, Addresses
    <2>4. s \in ObjectRecords
      BY <1>1, <2>1, <2>3 DEF ObjectRecords, OpenPlaces, MaybeNumber
    <2>5. /\ s.at = "addresses" /\ s.endpoints = n /\ s.left = obj[o].left
          /\ s.fd = obj[o].fd /\ s.epoll = obj[o].epoll /\ s.directory = obj[o].directory
      BY <1>1, <2>1 DEF ObjectRecords
    <2>6. FitsOpening(s) /\ FitsClosing(s)
      BY <1>1, <2>5, ClosedIsNoNumber DEF FitsOpening, FitsClosing, HasEpoll
    <2>7. table[n] = Unused /\ table' = [table EXCEPT ![n] = [what |-> "directory", by |-> o]]
      BY <1>3 DEF Opened!Lowest, Opened!Open
    <2> QED BY <1>1, <2>2, <2>4, <2>5, <2>6, <2>7, OpenKeeps
  <1>4. ASSUME obj' = Opened!Made(o), UNCHANGED table PROVE OpenInv'
    <2>1. PICK s : s = [obj[o] EXCEPT !.at = "interfaces", !.interfaces = @ \cup {obj[o].current},
                                      !.endpoints = Opened!Closed, !.current = Opened!NoInterface]
      OBVIOUS
    <2>2. /\ s \in ObjectRecords
          /\ s.at = "interfaces" /\ s.endpoints = obj[o].endpoints
          /\ s.left = obj[o].left /\ s.fd = obj[o].fd /\ s.epoll = obj[o].epoll
          /\ s.directory = obj[o].directory /\ s.addresses = obj[o].addresses
      BY <1>1, <2>1, MadeKeepsTypes
    <2>3. FitsOpening(s) /\ FitsClosing(s)
      BY <1>1, <2>2 DEF FitsOpening, FitsClosing, HasEpoll
    <2>4. UNCHANGED <<Opened!System, table>> /\ obj' = [obj EXCEPT ![o] = s]
      BY <1>1, <1>4, <2>1 DEF Opened!Made, OpenInv, OpenTypeOK
    <2> QED BY <1>1, <2>2, <2>3, <2>4, RecordKeeps
  <1> QED BY <1>2, <1>3, <1>4 DEF Opened!ListEndpoints

LEMMA SortKeepsTypes ==
    ASSUME NEW i \in InterfaceRecords, NEW a \in Addresses
    PROVE  Opened!Sort(i, a) \in InterfaceRecords
  BY DEF Opened!Sort, InterfaceRecords

LEMMA ReadEndpointKeeps ==
    ASSUME OpenInv, NEW o \in Devices, Opened!ReadEndpoint(o)
    PROVE  OpenInv'
  <1>1. /\ obj[o] \in ObjectRecords /\ obj[o].at = "addresses"
        /\ UNCHANGED Opened!System /\ UNCHANGED table
        /\ HasEpoll(obj[o]) /\ obj[o].directory # Opened!Closed /\ obj[o].endpoints # Opened!Closed
        /\ obj[o].left = <<>>
    BY DEF OpenInv, OpenTypeOK, Opened!ReadEndpoint, FitsOpening, FitsClosing
  <1>2. UNCHANGED <<Opened!System, table>>
    BY <1>1
  <1>3. ASSUME NEW address \in obj[o].addresses,
               obj' = [obj EXCEPT ![o].addresses = @ \ {address},
                                  ![o].current = Opened!Sort(@, address)]
        PROVE  OpenInv'
    <2>1. PICK new : new = Opened!Sort(obj[o].current, address)
      OBVIOUS
    <2>2. PICK s : s = [obj[o] EXCEPT !.addresses = @ \ {address}, !.current = new]
      OBVIOUS
    <2>3. obj' = [obj EXCEPT ![o] = s]
      BY <1>3, <2>1, <2>2 DEF OpenInv, OpenTypeOK
    <2>4. new \in InterfaceRecords
      BY <1>1, <2>1, SortKeepsTypes DEF ObjectRecords
    <2>5. s \in ObjectRecords
      BY <1>1, <2>2, <2>4 DEF ObjectRecords
    <2>6. /\ s.at = "addresses" /\ s.left = obj[o].left /\ s.fd = obj[o].fd /\ s.epoll = obj[o].epoll
          /\ s.directory = obj[o].directory /\ s.endpoints = obj[o].endpoints
      BY <1>1, <2>2 DEF ObjectRecords
    <2>7. FitsOpening(s) /\ FitsClosing(s)
      BY <1>1, <2>6 DEF FitsOpening, FitsClosing, HasEpoll
    <2> QED BY <1>1, <1>2, <2>3, <2>5, <2>6, <2>7, RecordKeeps
  <1>4. ASSUME NEW address \in obj[o].addresses, Opened!Throw(o) PROVE OpenInv'
    <2>1. obj[o].addresses # {}
      OBVIOUS
    <2> QED BY <1>1, <1>2, <1>4, <2>1, ThrowKeeps DEF Opened!Throw
  <1> QED BY <1>3, <1>4 DEF Opened!ReadEndpoint

LEMMA EndEndpointsKeeps ==
    ASSUME OpenInv, NEW o \in Devices, Opened!EndEndpoints(o)
    PROVE  OpenInv'
  <1>1. /\ obj[o] \in ObjectRecords /\ obj[o].at = "addresses" /\ UNCHANGED Opened!System
        /\ HasEpoll(obj[o]) /\ obj[o].directory # Opened!Closed /\ obj[o].endpoints # Opened!Closed
        /\ obj[o].addresses = {} /\ obj[o].left = <<>>
        /\ obj' = Opened!Made(o)
    BY DEF OpenInv, OpenTypeOK, Opened!EndEndpoints, FitsOpening, FitsClosing
  <1>2. PICK s : s = [obj[o] EXCEPT !.at = "interfaces", !.interfaces = @ \cup {obj[o].current},
                                    !.endpoints = Opened!Closed, !.current = Opened!NoInterface]
    OBVIOUS
  <1>3. /\ s \in ObjectRecords
        /\ s.at = "interfaces" /\ s.endpoints = Opened!Closed
        /\ s.left = obj[o].left /\ s.fd = obj[o].fd /\ s.epoll = obj[o].epoll
        /\ s.directory = obj[o].directory /\ s.addresses = obj[o].addresses
    BY <1>2, MadeKeepsTypes
  <1>4. FitsOpening(s) /\ FitsClosing(s)
    BY <1>1, <1>3 DEF FitsOpening, FitsClosing, HasEpoll
  <1>5. PICK n \in Numbers : n = obj[o].endpoints /\ table' = [table EXCEPT ![n] = Unused]
    BY <1>1 DEF Opened!EndEndpoints, Opened!Close, ObjectRecords, MaybeNumber
  <1>6. obj' = [obj EXCEPT ![o] = s]
    BY <1>1, <1>2 DEF Opened!Made, OpenInv, OpenTypeOK
  <1> QED BY <1>1, <1>3, <1>4, <1>5, <1>6, CloseKeeps

LEMMA EndInterfacesKeeps ==
    ASSUME OpenInv, NEW o \in Devices, Opened!EndInterfaces(o)
    PROVE  OpenInv'
  <1>1. /\ obj[o] \in ObjectRecords /\ obj[o].at = "interfaces" /\ UNCHANGED Opened!System
        /\ HasEpoll(obj[o]) /\ obj[o].directory # Opened!Closed /\ obj[o].endpoints = Opened!Closed
        /\ obj[o].addresses = {} /\ obj[o].left = <<>>
    BY DEF OpenInv, OpenTypeOK, Opened!EndInterfaces, FitsOpening, FitsClosing
  <1>2. PICK s : s = [obj[o] EXCEPT !.at = "open", !.directory = Opened!Closed]
    OBVIOUS
  <1>3. obj' = [obj EXCEPT ![o] = s]
    BY <1>2 DEF Opened!EndInterfaces, OpenInv, OpenTypeOK
  <1>4. s \in ObjectRecords
    BY <1>1, <1>2 DEF ObjectRecords, OpenPlaces, MaybeNumber
  <1>5. /\ s.at = "open" /\ s.directory = Opened!Closed /\ s.endpoints = obj[o].endpoints
        /\ s.left = obj[o].left /\ s.fd = obj[o].fd /\ s.epoll = obj[o].epoll
        /\ s.addresses = obj[o].addresses
    BY <1>1, <1>2 DEF ObjectRecords
  <1>6. FitsOpening(s) /\ FitsClosing(s)
    BY <1>1, <1>5 DEF FitsOpening, FitsClosing, HasEpoll, NoListing
  <1>7. PICK n \in Numbers : n = obj[o].directory /\ table' = [table EXCEPT ![n] = Unused]
    BY <1>1 DEF Opened!EndInterfaces, Opened!Close, ObjectRecords, MaybeNumber
  <1> QED BY <1>1, <1>3, <1>4, <1>5, <1>6, <1>7, CloseKeeps

-----------------------------------------------------------------------------
LEMMA BeginDestroyKeeps ==
    ASSUME OpenInv, NEW o \in Devices, Opened!BeginDestroy(o)
    PROVE  OpenInv'
  <1>1. /\ obj[o] \in ObjectRecords /\ obj[o].at = "open" /\ UNCHANGED <<Opened!System, table>>
        /\ HasEpoll(obj[o]) /\ NoListing(obj[o])
    BY DEF OpenInv, OpenTypeOK, Opened!BeginDestroy, FitsClosing
  <1>2. PICK s : s = [obj[o] EXCEPT !.at = "destroying", !.left = Opened!Destroy]
    OBVIOUS
  <1>3. obj' = [obj EXCEPT ![o] = s]
    BY <1>2 DEF Opened!BeginDestroy, OpenInv, OpenTypeOK
  <1>4. s \in ObjectRecords
    BY <1>1, <1>2 DEF ObjectRecords, OpenPlaces, DestroyTails
  <1>5. /\ s.at = "destroying" /\ s.left = Opened!Destroy
        /\ s.fd = obj[o].fd /\ s.epoll = obj[o].epoll
        /\ s.directory = obj[o].directory /\ s.endpoints = obj[o].endpoints
        /\ s.addresses = obj[o].addresses
    BY <1>1, <1>2 DEF ObjectRecords
  <1>6. FitsOpening(s) /\ FitsClosing(s)
    BY <1>1, <1>5 DEF FitsOpening, FitsClosing, HasEpoll, HasDevice, NoListing, DestroyTails, Opened!Destroy
  <1> QED BY <1>1, <1>3, <1>4, <1>5, <1>6, RecordKeeps

(* What is taken down next, and what then.                                 *)
LEMMA Tails ==
    ASSUME NEW left \in UnwindTails \cup DestroyTails
    PROVE  \/ left = Opened!Unwind /\ Head(left) = "epoll" /\ Tail(left) = Opened!UnwindWithoutEpoll
           \/ left = Opened!UnwindWithoutEpoll /\ Head(left) = "interfaces" /\ Tail(left) = <<"device">>
           \/ left = Opened!Destroy /\ Head(left) = "interfaces" /\ Tail(left) = <<"epoll", "device">>
           \/ left = <<"epoll", "device">> /\ Head(left) = "epoll" /\ Tail(left) = <<"device">>
           \/ left = <<"device">> /\ Head(left) = "device" /\ Tail(left) = <<>>
  <1>1. /\ Head(<<"epoll", "interfaces", "device">>) = "epoll"
        /\ Tail(<<"epoll", "interfaces", "device">>) = <<"interfaces", "device">>
    OBVIOUS
  <1>2. /\ Head(<<"interfaces", "device">>) = "interfaces"
        /\ Tail(<<"interfaces", "device">>) = <<"device">>
    OBVIOUS
  <1>3. /\ Head(<<"interfaces", "epoll", "device">>) = "interfaces"
        /\ Tail(<<"interfaces", "epoll", "device">>) = <<"epoll", "device">>
    OBVIOUS
  <1>4. Head(<<"epoll", "device">>) = "epoll" /\ Tail(<<"epoll", "device">>) = <<"device">>
    OBVIOUS
  <1>5. Head(<<"device">>) = "device" /\ Tail(<<"device">>) = <<>>
    OBVIOUS
  <1>6. \/ left = Opened!Unwind \/ left = Opened!UnwindWithoutEpoll \/ left = <<"device">>
        \/ left = Opened!Destroy \/ left = <<"epoll", "device">>
    BY DEF UnwindTails, DestroyTails
  <1> QED
    BY <1>1, <1>2, <1>3, <1>4, <1>5, <1>6
    DEF Opened!Unwind, Opened!UnwindWithoutEpoll, Opened!Destroy

LEMMA TailsDiffer ==
    /\ Opened!Unwind \notin DestroyTails /\ Opened!UnwindWithoutEpoll \notin DestroyTails
    /\ Opened!Destroy \notin UnwindTails /\ <<"epoll", "device">> \notin UnwindTails
    /\ Opened!Unwind # Opened!UnwindWithoutEpoll /\ Opened!Unwind # <<"device">>
    /\ Opened!UnwindWithoutEpoll # <<"device">>
    /\ Opened!Destroy # <<"epoll", "device">> /\ Opened!Destroy # <<"device">>
    /\ <<"epoll", "device">> # <<"device">>
    /\ <<>> \notin UnwindTails \cup DestroyTails
  BY DEF UnwindTails, DestroyTails, Opened!Unwind, Opened!UnwindWithoutEpoll, Opened!Destroy

LEMMA TakeDownInterfaces ==
    ASSUME OpenInv, NEW o \in Devices, Opened!TakeDown(o), Head(obj[o].left) = "interfaces"
    PROVE  OpenInv'
  <1>1. obj[o] \in ObjectRecords /\ FitsClosing(obj[o]) /\ obj[o].left # <<>>
    BY DEF OpenInv, OpenTypeOK, Opened!TakeDown
  <1>2. /\ obj[o].at \in {"unwinding", "destroying"} /\ HasDevice(obj[o])
        /\ \/ obj[o].left = Opened!UnwindWithoutEpoll /\ Tail(obj[o].left) = <<"device">>
              /\ obj[o].at = "unwinding" /\ obj[o].epoll = Opened!Closed
              /\ (obj[o].addresses = {} => NoListing(obj[o]))
           \/ obj[o].left = Opened!Destroy /\ Tail(obj[o].left) = <<"epoll", "device">>
              /\ obj[o].at = "destroying" /\ NoListing(obj[o])
    BY <1>1, Tails, TailsDiffer DEF FitsClosing
  <1>3. PICK s : s = [obj[o] EXCEPT !.interfaces = {}, !.left = Tail(@)]
    OBVIOUS
  <1>4. s \in ObjectRecords
    BY <1>1, <1>2, <1>3 DEF ObjectRecords, UnwindTails, DestroyTails
  <1>5. /\ s.at = obj[o].at /\ s.left = Tail(obj[o].left) /\ s.interfaces = {}
        /\ s.fd = obj[o].fd /\ s.epoll = obj[o].epoll
        /\ s.directory = obj[o].directory /\ s.endpoints = obj[o].endpoints
        /\ s.addresses = obj[o].addresses
    BY <1>1, <1>3 DEF ObjectRecords
  <1>6. s.left # <<>>
    BY <1>2, <1>5, TailsDiffer DEF UnwindTails, DestroyTails
  <1>7. obj' = [obj EXCEPT ![o] = s] /\ UNCHANGED <<Opened!System, table>>
    <2>1. Opened!After(Opened!Without(o, "interfaces")) = s
      <3>1. Opened!Without(o, "interfaces") = s
        BY <1>3 DEF Opened!Without
      <3>2. Opened!After(s) = s
        BY <1>6 DEF Opened!After
      <3> QED BY <3>1, <3>2
    <2>2. Opened!NumberOf(o, "interfaces") = Opened!Closed
      BY DEF Opened!NumberOf
    <2> QED BY <2>1, <2>2 DEF Opened!TakeDown
  <1>8. FitsOpening(s) /\ FitsClosing(s)
    BY <1>2, <1>5, TailsDiffer DEF FitsOpening, FitsClosing, HasDevice, NoListing, UnwindTails, DestroyTails
  <1> QED BY <1>2, <1>4, <1>5, <1>7, <1>8, RecordKeeps

LEMMA TakeDownEpoll ==
    ASSUME OpenInv, NEW o \in Devices, Opened!TakeDown(o), Head(obj[o].left) = "epoll"
    PROVE  OpenInv'
  <1>1. obj[o] \in ObjectRecords /\ FitsClosing(obj[o]) /\ obj[o].left # <<>>
    BY DEF OpenInv, OpenTypeOK, Opened!TakeDown
  <1>2. /\ obj[o].at \in {"unwinding", "destroying"} /\ HasDevice(obj[o])
        /\ \/ obj[o].left = Opened!Unwind /\ Tail(obj[o].left) = Opened!UnwindWithoutEpoll
              /\ obj[o].at = "unwinding"
              /\ (obj[o].addresses = {} => NoListing(obj[o]))
           \/ obj[o].left = <<"epoll", "device">> /\ Tail(obj[o].left) = <<"device">>
              /\ obj[o].at = "destroying" /\ NoListing(obj[o]) /\ obj[o].interfaces = {}
    BY <1>1, Tails, TailsDiffer DEF FitsClosing
  <1>3. PICK s : s = [obj[o] EXCEPT !.epoll = Opened!Closed, !.left = Tail(@)]
    OBVIOUS
  <1>4. s \in ObjectRecords
    BY <1>1, <1>2, <1>3 DEF ObjectRecords, MaybeNumber, UnwindTails, DestroyTails
  <1>5. /\ s.at = obj[o].at /\ s.left = Tail(obj[o].left) /\ s.interfaces = obj[o].interfaces
        /\ s.fd = obj[o].fd /\ s.epoll = Opened!Closed
        /\ s.directory = obj[o].directory /\ s.endpoints = obj[o].endpoints
        /\ s.addresses = obj[o].addresses
    BY <1>1, <1>3 DEF ObjectRecords
  <1>6. s.left # <<>>
    BY <1>2, <1>5, TailsDiffer DEF UnwindTails, DestroyTails
  <1>7. /\ obj' = [obj EXCEPT ![o] = s] /\ UNCHANGED Opened!System
        /\ IF obj[o].epoll = Opened!Closed THEN UNCHANGED table
           ELSE table' = [table EXCEPT ![obj[o].epoll] = Unused]
    <2>1. Opened!After(Opened!Without(o, "epoll")) = s
      <3>1. Opened!Without(o, "epoll") = s
        BY <1>3 DEF Opened!Without
      <3>2. Opened!After(s) = s
        BY <1>6 DEF Opened!After
      <3> QED BY <3>1, <3>2
    <2>2. Opened!NumberOf(o, "epoll") = obj[o].epoll
      BY DEF Opened!NumberOf
    <2> QED BY <2>1, <2>2 DEF Opened!TakeDown, Opened!Close
  <1>8. FitsOpening(s) /\ FitsClosing(s)
    BY <1>2, <1>5, TailsDiffer DEF FitsOpening, FitsClosing, HasDevice, NoListing, UnwindTails, DestroyTails
  <1>9. CASE obj[o].epoll = Opened!Closed
    BY <1>2, <1>4, <1>5, <1>7, <1>8, <1>9, RecordKeeps
  <1>10. CASE obj[o].epoll # Opened!Closed
    <2>1. PICK n \in Numbers : n = obj[o].epoll /\ table' = [table EXCEPT ![n] = Unused]
      BY <1>1, <1>7, <1>10 DEF ObjectRecords, MaybeNumber
    <2> QED BY <1>2, <1>4, <1>5, <1>7, <1>8, <2>1, CloseKeeps
  <1> QED BY <1>9, <1>10

(* With the device goes the object.  The directories of a listing that has *)
(* failed are nobody's from then on.                                       *)
LEMMA TakeDownDevice ==
    ASSUME OpenInv, NEW o \in Devices, Opened!TakeDown(o), Head(obj[o].left) = "device"
    PROVE  OpenInv'
  <1>1. /\ obj[o] \in ObjectRecords /\ FitsClosing(obj[o]) /\ obj[o].left # <<>>
        /\ OwnsNumbers(o) /\ KnownTo(o)
    BY DEF OpenInv, OpenTypeOK, Opened!TakeDown
  <1>2. /\ obj[o].left = <<"device">> /\ HasDevice(obj[o])
        /\ obj[o].epoll = Opened!Closed /\ obj[o].interfaces = {}
        /\ \/ obj[o].at = "unwinding" /\ (obj[o].addresses = {} => NoListing(obj[o]))
           \/ obj[o].at = "destroying" /\ NoListing(obj[o])
    BY <1>1, Tails, TailsDiffer DEF FitsClosing, UnwindTails, DestroyTails
  <1>3. PICK how \in {"failed", "destroyed"}, addresses \in SUBSET Addresses :
           /\ how = IF obj[o].at = "unwinding" THEN "failed" ELSE "destroyed"
           /\ addresses = IF obj[o].at = "unwinding" THEN obj[o].addresses ELSE {}
    BY <1>1 DEF ObjectRecords
  <1>4. PICK s : s = Opened!Ended(how, addresses)
    OBVIOUS
  <1>5. /\ s \in ObjectRecords /\ FitsOpening(s) /\ FitsClosing(s)
        /\ HasNothing(s) /\ s.at = how /\ s.addresses = addresses
    BY <1>3, <1>4, EndedFits
  <1>6. PICK n \in Numbers : n = obj[o].fd /\ table[n] = [what |-> "device", by |-> o]
    BY <1>1, <1>2 DEF HasDevice, OwnsNumbers, Denotes
  <1>7. /\ obj' = [obj EXCEPT ![o] = s] /\ UNCHANGED Opened!System
        /\ table' = [table EXCEPT ![n] = Unused]
    <2>1. PICK r : r = [obj[o] EXCEPT !.fd = Opened!Closed, !.left = Tail(@)]
      OBVIOUS
    <2>2. Opened!Without(o, "device") = r
      BY <2>1 DEF Opened!Without
    <2>3. r.left = <<>> /\ r.at = obj[o].at /\ r.addresses = obj[o].addresses
      BY <1>1, <1>2, <2>1, Tails DEF ObjectRecords, UnwindTails
    <2>4. Opened!After(r) = s
      BY <1>3, <1>4, <2>3 DEF Opened!After
    <2>5. Opened!NumberOf(o, "device") = n /\ n # Opened!Closed
      BY <1>6, ClosedIsNoNumber DEF Opened!NumberOf
    <2> QED BY <2>2, <2>4, <2>5 DEF Opened!TakeDown, Opened!Close
  <1>8. /\ table' \in [Numbers -> Entries \cup {Unused}]
        /\ table'[n] = Unused /\ \A m \in Numbers : m # n => table'[m] = table[m]
        /\ obj'[o] = s
    BY <1>7 DEF OpenInv, OpenTypeOK
  <1>9. OwnsNumbers(o)'
    BY <1>5, <1>8 DEF OwnsNumbers, Denotes, HasNothing
  <1>10. KnownTo(o)'
    <2> SUFFICES ASSUME NEW m \in Numbers, table'[m] # Unused, table'[m].by = o
                 PROVE  Knows(s, table'[m].what, m)
      BY <1>8 DEF KnownTo
    <2>1. m # n /\ table'[m] = table[m] /\ Knows(obj[o], table[m].what, m)
      BY <1>1, <1>8 DEF KnownTo
    <2>2. table[m].what = "directory" /\ m \in {obj[o].directory, obj[o].endpoints}
      BY <1>2, <1>6, <2>1, ClosedIsNoNumber DEF Knows
    <2>3. ~NoListing(obj[o])
      BY <2>2, ClosedIsNoNumber DEF NoListing
    <2>4. s.at = "failed" /\ s.addresses # {}
      BY <1>2, <1>3, <1>5, <2>3
    <2> QED BY <2>1, <2>2, <2>4 DEF Knows
  <1>11. \A m \in Numbers : table'[m] = table[m] \/
               /\ table[m] # Unused => table[m].by = o
               /\ table'[m] # Unused => table'[m].by = o
    BY <1>6, <1>8
  <1> QED BY <1>5, <1>7, <1>8, <1>9, <1>10, <1>11, ObjectKeeps

LEMMA TakeDownKeeps ==
    ASSUME OpenInv, NEW o \in Devices, Opened!TakeDown(o)
    PROVE  OpenInv'
  <1>1. obj[o].left \in UnwindTails \cup DestroyTails
    BY DEF OpenInv, OpenTypeOK, ObjectRecords, Opened!TakeDown
  <1> QED BY <1>1, Tails, TakeDownInterfaces, TakeDownEpoll, TakeDownDevice

LEMMA PlugKeeps ==
    ASSUME OpenInv, Opened!Plug \/ Opened!Unplug \/ UNCHANGED Opened!vars
    PROVE  OpenInv'
  <1>1. UNCHANGED <<table, obj>> /\ plugs' \in 0..Len(Contents) /\ plugged' \in {0, plugs'}
    BY PartsAssumption
    DEF OpenInv, OpenTypeOK, Opened!Plug, Opened!Unplug, Opened!vars, Opened!ContentsAssumption
  <1> QED BY <1>1 DEF OpenInv, OpenTypeOK, OwnsNumbers, Denotes, KnownTo

LEMMA ObjectStepKeeps ==
    ASSUME OpenInv, NEW o \in Devices, Opened!ObjectStep(o)
    PROVE  OpenInv'
  BY FindingKeeps, OpenNodeKeeps, OpenEpollKeeps, ListInterfacesKeeps, ReadInterfaceKeeps,
     ListEndpointsKeeps, ReadEndpointKeeps, EndEndpointsKeeps, EndInterfacesKeeps,
     BeginDestroyKeeps, TakeDownKeeps
  DEF Opened!ObjectStep

LEMMA OpenStepKeeps == OpenInv /\ [Opened!Next]_(Opened!vars) => OpenInv'
  BY PlugKeeps, ObjectStepKeeps DEF Opened!Next

LEMMA OpenInvariance == Opened!Spec => []OpenInv
  BY OpenInit, OpenStepKeeps, PTL DEF Opened!Spec

LEMMA OpenInvImplies == OpenInv => Opened!NothingIsLeft
  <1> SUFFICES ASSUME OpenInv, NEW o \in Devices
               PROVE  /\ obj[o].fd # Opened!Closed => table[obj[o].fd] = [what |-> "device", by |-> o]
                      /\ obj[o].epoll # Opened!Closed => table[obj[o].epoll] = [what |-> "epoll", by |-> o]
                      /\ obj[o].interfaces # {} => obj[o].fd # Opened!Closed
                      /\ obj[o].at \in {"failed", "destroyed"} =>
                            \A n \in Numbers : table[n] # Unused /\ table[n].by = o =>
                               obj[o].at = "failed" /\ obj[o].addresses # {} /\ table[n].what = "directory"
    BY DEF Opened!NothingIsLeft
  <1>1. /\ obj[o] \in ObjectRecords /\ FitsOpening(obj[o]) /\ FitsClosing(obj[o])
        /\ OwnsNumbers(o) /\ KnownTo(o)
    BY DEF OpenInv, OpenTypeOK
  <1>2. obj[o].interfaces # {} => obj[o].fd # Opened!Closed
    BY <1>1 DEF ObjectRecords, OpenPlaces, FitsOpening, FitsClosing, HasNothing, HasDevice, HasEpoll
  <1>3. obj[o].at \in {"failed", "destroyed"} => HasNothing(obj[o])
    BY <1>1 DEF FitsOpening
  <1> QED BY <1>1, <1>2, <1>3, ClosedIsNoNumber DEF OwnsNumbers, Denotes, KnownTo, Knows, HasNothing

-----------------------------------------------------------------------------
(* What an object has read so far is of the device at the port when its    *)
(* vendor is, which has stayed plugged since: no device comes back.        *)
Names == DOMAIN Contents[plugged]
DescribedOf(names) == {Opened!Described(name) : name \in names}
Making == {"attributes", "endpoints", "addresses"}

IdsAreOfOne(s) ==
    /\ s.at \in {"found", "node", "epoll", "list", "interfaces", "open"} \cup Making => s.pid = plugged
    /\ s.at \in {"node", "epoll", "list", "interfaces", "open"} \cup Making => s.node = plugged

InterfacesAreOfOne(s) ==
    /\ s.at = "interfaces" => s.names \subseteq Names /\ s.interfaces = DescribedOf(Names \ s.names)
    /\ s.at \in Making =>
          /\ s.names \subseteq Names /\ s.current.name \in Names \ s.names
          /\ s.interfaces = DescribedOf(Names \ (s.names \cup {s.current.name}))
    /\ s.at = "attributes" => s.current = [Opened!NoInterface EXCEPT !.name = s.current.name]
    /\ s.at \in {"endpoints", "addresses"} => s.current.number = s.current.name
    /\ s.at = "endpoints" => s.current.in = {} /\ s.current.out = {}
    /\ s.at = "addresses" =>
          LET addresses == Contents[plugged][s.current.name]
          IN  /\ s.addresses \subseteq addresses
              /\ s.current.in = {a \in addresses \ s.addresses : a >= 128}
              /\ s.current.out = {a \in addresses \ s.addresses : a < 128}
    /\ s.at = "open" => s.interfaces = DescribedOf(Names)

OneDevice(s) == plugged # 0 /\ s.vid = plugged => IdsAreOfOne(s) /\ InterfacesAreOfOne(s)

OneDeviceInv ==
    /\ OpenInv
    /\ \A o \in Devices : obj[o].vid <= plugs /\ OneDevice(obj[o])

LEMMA OneDeviceInit == Opened!Init => OneDeviceInv
  BY OpenInit DEF Opened!Init, Opened!NewObject, OneDeviceInv, OneDevice

(* Any device that is plugged in is newer than what has been read.         *)
LEMMA PlugKeepsOne ==
    ASSUME OneDeviceInv, Opened!Plug \/ Opened!Unplug \/ UNCHANGED Opened!vars
    PROVE  OneDeviceInv'
  <1>1. OpenInv' /\ UNCHANGED obj /\ obj \in [Devices -> ObjectRecords]
    BY PlugKeeps DEF Opened!Plug, Opened!Unplug, Opened!vars, OneDeviceInv, OpenInv, OpenTypeOK
  <1>2. plugs \in Nat
    BY PartsAssumption DEF OneDeviceInv, OpenInv, OpenTypeOK, Opened!ContentsAssumption
  <1>3. ASSUME NEW o \in Devices PROVE obj'[o].vid <= plugs' /\ OneDevice(obj[o])'
    <2>1. obj[o].vid \in Nat /\ obj[o].vid <= plugs /\ OneDevice(obj[o])
      BY <1>1 DEF ObjectRecords, OneDeviceInv
    <2>2. CASE Opened!Plug
      BY <1>1, <1>2, <2>1, <2>2 DEF Opened!Plug, OneDevice
    <2>3. CASE Opened!Unplug
      BY <1>1, <2>1, <2>3 DEF Opened!Unplug, OneDevice
    <2>4. CASE UNCHANGED Opened!vars
      BY <2>1, <2>4 DEF Opened!vars, OneDevice, IdsAreOfOne, InterfacesAreOfOne, Names, DescribedOf,
                        Opened!Described
    <2> QED BY <2>2, <2>3, <2>4
  <1> QED BY <1>1, <1>3 DEF OneDeviceInv

(* A step of an object while the device stays.                             *)
LEMMA ObjectKeepsOne ==
    ASSUME OneDeviceInv, NEW o \in Devices, Opened!ObjectStep(o),
           NEW s, obj' = [obj EXCEPT ![o] = s], s.vid <= plugs,
           plugged # 0 /\ s.vid = plugged => IdsAreOfOne(s) /\ InterfacesAreOfOne(s)
    PROVE  OneDeviceInv'
  <1>1. OpenInv' /\ obj \in [Devices -> ObjectRecords]
    BY ObjectStepKeeps DEF OneDeviceInv, OpenInv, OpenTypeOK
  <1>2. UNCHANGED <<plugged, plugs>>
    BY DEF Opened!ObjectStep, Opened!ReadVendor, Opened!ReadProduct, Opened!ReadNode, Opened!OpenNode,
           Opened!OpenEpoll, Opened!ListInterfaces, Opened!NextInterface, Opened!ReadAttributes,
           Opened!ListEndpoints, Opened!ReadEndpoint, Opened!EndEndpoints, Opened!EndInterfaces,
           Opened!BeginDestroy, Opened!TakeDown, Opened!System
  <1>3. ASSUME NEW q \in Devices PROVE obj'[q].vid <= plugs /\ OneDevice(obj'[q])
    BY <1>1 DEF OneDeviceInv, OneDevice
  <1>4. ASSUME NEW q \in Devices PROVE OneDevice(obj[q])'
    BY <1>2, <1>3 DEF OneDevice, IdsAreOfOne, InterfacesAreOfOne, Names, DescribedOf, Opened!Described
  <1> QED BY <1>1, <1>2, <1>3, <1>4 DEF OneDeviceInv

(* One that is not open and not on its way to be has nothing to describe.  *)
Describing == {"found", "node", "epoll", "list", "interfaces", "open"} \cup Making

LEMMA OthersKeepOne ==
    ASSUME OneDeviceInv, NEW o \in Devices, Opened!ObjectStep(o),
           NEW s, obj' = [obj EXCEPT ![o] = s], s.vid <= plugs, s.at \notin Describing
    PROVE  OneDeviceInv'
  <1>1. IdsAreOfOne(s) /\ InterfacesAreOfOne(s)
    BY DEF IdsAreOfOne, InterfacesAreOfOne, Making, Describing
  <1> QED BY <1>1, ObjectKeepsOne

LEMMA FindingKeepsOne ==
    ASSUME OneDeviceInv, NEW o \in Devices,
           Opened!ReadVendor(o) \/ Opened!ReadProduct(o) \/ Opened!ReadNode(o)
    PROVE  OneDeviceInv'
  <1>1. /\ obj[o] \in ObjectRecords /\ plugged \in Nat /\ plugged <= plugs
        /\ obj[o].vid <= plugs /\ OneDevice(obj[o])
    BY PartsAssumption DEF OneDeviceInv, OpenInv, OpenTypeOK, Opened!ContentsAssumption
  <1>2. Opened!ObjectStep(o)
    BY DEF Opened!ObjectStep
  <1>3. CASE Opened!ReadVendor(o)
    <2>1. PICK s : s = [obj[o] EXCEPT !.at = "product", !.vid = plugged]
      OBVIOUS
    <2>2. obj' = [obj EXCEPT ![o] = s]
      BY <1>3, <2>1 DEF Opened!ReadVendor, OneDeviceInv, OpenInv, OpenTypeOK
    <2>3. s.at = "product" /\ s.vid = plugged
      BY <1>1, <2>1 DEF ObjectRecords
    <2>4. IdsAreOfOne(s) /\ InterfacesAreOfOne(s)
      BY <2>3 DEF IdsAreOfOne, InterfacesAreOfOne, Making
    <2> QED BY <1>1, <1>2, <2>2, <2>3, <2>4, ObjectKeepsOne
  <1>4. CASE Opened!ReadProduct(o)
    <2>1. CASE plugged = 0
      <3>1. plugs \in Nat
        BY PartsAssumption DEF OneDeviceInv, OpenInv, OpenTypeOK, Opened!ContentsAssumption
      <3>2. PICK s : s = Opened!NewObject
        OBVIOUS
      <3>3. s.vid = 0 /\ s.at = "idle"
        BY <3>2 DEF Opened!NewObject
      <3>4. obj' = [obj EXCEPT ![o] = s]
        BY <1>4, <2>1, <3>2 DEF Opened!ReadProduct
      <3>5. s.vid <= plugs /\ s.at \notin Describing
        BY <3>1, <3>3 DEF Describing, Making
      <3> QED BY <1>2, <3>4, <3>5, OthersKeepOne
    <2>2. CASE plugged # 0
      <3>1. PICK s : s = [obj[o] EXCEPT !.at = "found", !.pid = plugged]
        OBVIOUS
      <3>2. obj' = [obj EXCEPT ![o] = s]
        BY <1>4, <2>2, <3>1 DEF Opened!ReadProduct
      <3>3. s.at = "found" /\ s.pid = plugged /\ s.vid = obj[o].vid
        BY <1>1, <3>1 DEF ObjectRecords
      <3>4. IdsAreOfOne(s) /\ InterfacesAreOfOne(s)
        BY <3>3 DEF IdsAreOfOne, InterfacesAreOfOne, Making
      <3> QED BY <1>1, <1>2, <3>2, <3>3, <3>4, ObjectKeepsOne
    <2> QED BY <2>1, <2>2
  <1>5. CASE Opened!ReadNode(o)
    <2>1. PICK s : s = [obj[o] EXCEPT !.at = "node", !.node = plugged]
      OBVIOUS
    <2>2. obj' = [obj EXCEPT ![o] = s]
      BY <1>5, <2>1 DEF Opened!ReadNode, OneDeviceInv, OpenInv, OpenTypeOK
    <2>3. s.at = "node" /\ s.node = plugged /\ s.pid = obj[o].pid /\ s.vid = obj[o].vid
      BY <1>1, <2>1 DEF ObjectRecords
    <2>4. plugged # 0 /\ s.vid = plugged => IdsAreOfOne(s) /\ InterfacesAreOfOne(s)
      BY <1>1, <1>5, <2>3 DEF Opened!ReadNode, OneDevice, IdsAreOfOne, InterfacesAreOfOne, Making
    <2> QED BY <1>1, <1>2, <2>2, <2>3, <2>4, ObjectKeepsOne
  <1> QED BY <1>3, <1>4, <1>5

LEMMA ThrowKeepsOne ==
    ASSUME OneDeviceInv, NEW o \in Devices, Opened!ObjectStep(o),
           obj' = [obj EXCEPT ![o].at = "unwinding", ![o].left = Opened!Unwind]
    PROVE  OneDeviceInv'
  <1>1. obj[o] \in ObjectRecords /\ obj[o].vid <= plugs
    BY DEF OneDeviceInv, OpenInv, OpenTypeOK
  <1>2. PICK s : s = [obj[o] EXCEPT !.at = "unwinding", !.left = Opened!Unwind]
    OBVIOUS
  <1>3. obj' = [obj EXCEPT ![o] = s]
    BY <1>2 DEF OneDeviceInv, OpenInv, OpenTypeOK
  <1>4. s.vid <= plugs /\ s.at \notin Describing
    BY <1>1, <1>2 DEF ObjectRecords, Describing, Making
  <1> QED BY <1>3, <1>4, OthersKeepOne

LEMMA OpeningKeepsOne ==
    ASSUME OneDeviceInv, NEW o \in Devices, Opened!OpenNode(o) \/ Opened!OpenEpoll(o)
    PROVE  OneDeviceInv'
  <1>1. /\ obj[o] \in ObjectRecords /\ plugged \in Nat /\ plugs \in Nat
        /\ obj[o].vid <= plugs /\ OneDevice(obj[o])
    BY PartsAssumption DEF OneDeviceInv, OpenInv, OpenTypeOK, Opened!ContentsAssumption
  <1>2. Opened!ObjectStep(o)
    BY DEF Opened!ObjectStep
  <1>3. ASSUME obj' = [obj EXCEPT ![o] = Opened!Ended("failed", {})] PROVE OneDeviceInv'
    <2>1. PICK s : s = Opened!Ended("failed", {})
      OBVIOUS
    <2>2. s.vid = 0 /\ s.at = "failed"
      BY <2>1 DEF Opened!Ended, Opened!NewObject
    <2>3. s.vid <= plugs /\ s.at \notin Describing
      BY <1>1, <2>2 DEF Describing, Making
    <2>4. obj' = [obj EXCEPT ![o] = s]
      BY <1>3, <2>1
    <2> QED BY <1>2, <2>3, <2>4, OthersKeepOne
  <1>4. ASSUME NEW n \in Numbers, obj[o].at = "node", obj[o].node = plugged,
               obj' = [obj EXCEPT ![o].at = "epoll", ![o].fd = n]
        PROVE  OneDeviceInv'
    <2>1. PICK s : s = [obj[o] EXCEPT !.at = "epoll", !.fd = n]
      OBVIOUS
    <2>2. obj' = [obj EXCEPT ![o] = s]
      BY <1>4, <2>1 DEF OneDeviceInv, OpenInv, OpenTypeOK
    <2>3. s.at = "epoll" /\ s.node = obj[o].node /\ s.pid = obj[o].pid /\ s.vid = obj[o].vid
      BY <1>1, <2>1 DEF ObjectRecords
    <2>4. plugged # 0 /\ s.vid = plugged => IdsAreOfOne(s) /\ InterfacesAreOfOne(s)
      BY <1>1, <1>4, <2>3 DEF OneDevice, IdsAreOfOne, InterfacesAreOfOne, Making
    <2> QED BY <1>1, <1>2, <2>2, <2>3, <2>4, ObjectKeepsOne
  <1>5. ASSUME NEW n \in Numbers, obj[o].at = "epoll",
               obj' = [obj EXCEPT ![o].at = "list", ![o].epoll = n]
        PROVE  OneDeviceInv'
    <2>1. PICK s : s = [obj[o] EXCEPT !.at = "list", !.epoll = n]
      OBVIOUS
    <2>2. obj' = [obj EXCEPT ![o] = s]
      BY <1>5, <2>1 DEF OneDeviceInv, OpenInv, OpenTypeOK
    <2>3. s.at = "list" /\ s.node = obj[o].node /\ s.pid = obj[o].pid /\ s.vid = obj[o].vid
      BY <1>1, <2>1 DEF ObjectRecords
    <2>4. plugged # 0 /\ s.vid = plugged => IdsAreOfOne(s) /\ InterfacesAreOfOne(s)
      BY <1>1, <1>5, <2>3 DEF OneDevice, IdsAreOfOne, InterfacesAreOfOne, Making
    <2> QED BY <1>1, <1>2, <2>2, <2>3, <2>4, ObjectKeepsOne
  <1>6. ASSUME obj' = [obj EXCEPT ![o].at = "unwinding", ![o].left = Opened!Unwind]
        PROVE  OneDeviceInv'
    BY <1>2, <1>6, ThrowKeepsOne
  <1>7. CASE Opened!OpenNode(o)
    BY <1>3, <1>4, <1>7 DEF Opened!OpenNode
  <1>8. CASE Opened!OpenEpoll(o)
    BY <1>5, <1>6, <1>8 DEF Opened!OpenEpoll, Opened!Throw
  <1> QED BY <1>7, <1>8

LEMMA ListInterfacesKeepsOne ==
    ASSUME OneDeviceInv, NEW o \in Devices, Opened!ListInterfaces(o)
    PROVE  OneDeviceInv'
  <1>1. /\ obj[o] \in ObjectRecords /\ obj[o].vid <= plugs /\ OneDevice(obj[o])
        /\ obj[o].at = "list" /\ obj[o].interfaces = {}
    BY DEF OneDeviceInv, OpenInv, OpenTypeOK, Opened!ListInterfaces, FitsOpening
  <1>2. Opened!ObjectStep(o)
    BY DEF Opened!ObjectStep
  <1>3. ASSUME NEW n \in Numbers,
               obj' = [obj EXCEPT ![o].at = "interfaces", ![o].directory = n, ![o].names = Names]
        PROVE  OneDeviceInv'
    <2>1. PICK s : s = [obj[o] EXCEPT !.at = "interfaces", !.directory = n, !.names = Names]
      OBVIOUS
    <2>2. obj' = [obj EXCEPT ![o] = s]
      BY <1>3, <2>1 DEF OneDeviceInv, OpenInv, OpenTypeOK
    <2>3. /\ s.at = "interfaces" /\ s.names = Names /\ s.interfaces = {}
          /\ s.node = obj[o].node /\ s.pid = obj[o].pid /\ s.vid = obj[o].vid
      BY <1>1, <2>1 DEF ObjectRecords
    <2>4. DescribedOf(Names \ s.names) = {}
      BY <2>3 DEF DescribedOf
    <2>5. plugged # 0 /\ s.vid = plugged => IdsAreOfOne(s) /\ InterfacesAreOfOne(s)
      BY <1>1, <2>3, <2>4 DEF OneDevice, IdsAreOfOne, InterfacesAreOfOne, Making
    <2> QED BY <1>1, <1>2, <2>2, <2>3, <2>5, ObjectKeepsOne
  <1>4. ASSUME Opened!Go(o, "crashed") PROVE OneDeviceInv'
    <2>1. PICK s : s = [obj[o] EXCEPT !.at = "crashed"]
      OBVIOUS
    <2>2. obj' = [obj EXCEPT ![o] = s]
      BY <1>4, <2>1 DEF Opened!Go, OneDeviceInv, OpenInv, OpenTypeOK
    <2>3. s.vid <= plugs /\ s.at \notin Describing
      BY <1>1, <2>1 DEF ObjectRecords, Describing, Making
    <2> QED BY <1>2, <2>2, <2>3, OthersKeepOne
  <1> QED BY <1>3, <1>4 DEF Opened!ListInterfaces, Names

(* A name that was listed is there when the device has stayed.             *)
LEMMA NextInterfaceKeepsOne ==
    ASSUME OneDeviceInv, NEW o \in Devices, Opened!NextInterface(o)
    PROVE  OneDeviceInv'
  <1>1. /\ obj[o] \in ObjectRecords /\ obj[o].vid <= plugs /\ OneDevice(obj[o])
        /\ obj[o].at = "interfaces"
    BY DEF OneDeviceInv, OpenInv, OpenTypeOK, Opened!NextInterface
  <1>2. Opened!ObjectStep(o)
    BY DEF Opened!ObjectStep
  <1>3. PICK name \in obj[o].names :
           obj' = [obj EXCEPT ![o].names = @ \ {name},
                      ![o].at = IF Opened!Listed(name) THEN "attributes" ELSE "interfaces",
                      ![o].current = IF Opened!Listed(name) THEN [Opened!NoInterface EXCEPT !.name = name]
                                     ELSE @]
    BY DEF Opened!NextInterface
  <1>4. CASE Opened!Listed(name)
    <2>1. PICK making : making = [Opened!NoInterface EXCEPT !.name = name]
      OBVIOUS
    <2>2. PICK s : s = [obj[o] EXCEPT !.names = @ \ {name}, !.at = "attributes", !.current = making]
      OBVIOUS
    <2>3. obj' = [obj EXCEPT ![o] = s]
      BY <1>3, <1>4, <2>1, <2>2 DEF OneDeviceInv, OpenInv, OpenTypeOK
    <2>4. /\ s.at = "attributes" /\ s.names = obj[o].names \ {name} /\ s.current = making
          /\ s.interfaces = obj[o].interfaces
          /\ s.node = obj[o].node /\ s.pid = obj[o].pid /\ s.vid = obj[o].vid
      BY <1>1, <2>2 DEF ObjectRecords
    <2>5. making.name = name /\ making = [Opened!NoInterface EXCEPT !.name = making.name]
      BY <2>1 DEF Opened!NoInterface
    <2>6. Names \ obj[o].names = Names \ (s.names \cup {name})
      BY <2>4
    <2>7. plugged # 0 /\ s.vid = plugged => IdsAreOfOne(s) /\ InterfacesAreOfOne(s)
      BY <1>1, <2>4, <2>5, <2>6 DEF OneDevice, IdsAreOfOne, InterfacesAreOfOne, Making
    <2> QED BY <1>1, <1>2, <2>3, <2>4, <2>7, ObjectKeepsOne
  <1>5. CASE ~Opened!Listed(name)
    <2>1. PICK s : s = [obj[o] EXCEPT !.names = @ \ {name}, !.at = "interfaces"]
      OBVIOUS
    <2>2. obj' = [obj EXCEPT ![o] = s]
      <3>1. obj[o] = [obj[o] EXCEPT !.current = @]
        BY <1>1 DEF ObjectRecords
      <3>2. s = [obj[o] EXCEPT !.names = @ \ {name}, !.at = "interfaces", !.current = @]
        BY <1>1, <2>1 DEF ObjectRecords
      <3>3. obj' = [obj EXCEPT ![o] = [obj[o] EXCEPT !.names = @ \ {name}, !.at = "interfaces", !.current = @]]
        BY <1>3, <1>5 DEF OneDeviceInv, OpenInv, OpenTypeOK
      <3> QED BY <3>2, <3>3
    <2>3. s.vid = obj[o].vid
      BY <1>1, <2>1 DEF ObjectRecords
    <2>4. ~(plugged # 0 /\ s.vid = plugged)
      BY <1>1, <1>3, <1>5, <2>3 DEF OneDevice, InterfacesAreOfOne, Opened!Listed, Names
    <2> QED BY <1>1, <1>2, <2>2, <2>3, <2>4, ObjectKeepsOne
  <1> QED BY <1>4, <1>5

LEMMA ReadAttributesKeepsOne ==
    ASSUME OneDeviceInv, NEW o \in Devices, Opened!ReadAttributes(o)
    PROVE  OneDeviceInv'
  <1>1. /\ obj[o] \in ObjectRecords /\ obj[o].vid <= plugs /\ OneDevice(obj[o])
        /\ obj[o].at = "attributes"
    BY DEF OneDeviceInv, OpenInv, OpenTypeOK, Opened!ReadAttributes
  <1>2. Opened!ObjectStep(o)
    BY DEF Opened!ObjectStep
  <1>3. PICK old \in InterfaceRecords : old = obj[o].current
    BY <1>1 DEF ObjectRecords
  <1>4. PICK new : new = [old EXCEPT !.number = IF Opened!Listed(old.name) THEN old.name ELSE 0]
    OBVIOUS
  <1>5. PICK s : s = [obj[o] EXCEPT !.at = "endpoints", !.current = new]
    OBVIOUS
  <1>6. obj' = [obj EXCEPT ![o] = s]
    BY <1>3, <1>4, <1>5 DEF Opened!ReadAttributes, OneDeviceInv, OpenInv, OpenTypeOK
  <1>7. /\ s.at = "endpoints" /\ s.names = obj[o].names /\ s.current = new
        /\ s.interfaces = obj[o].interfaces
        /\ s.node = obj[o].node /\ s.pid = obj[o].pid /\ s.vid = obj[o].vid
    BY <1>1, <1>5 DEF ObjectRecords
  <1>8. /\ new.name = old.name /\ new.in = old.in /\ new.out = old.out
        /\ Opened!Listed(old.name) => new.number = old.name
    BY <1>3, <1>4 DEF InterfaceRecords
  <1>9. plugged # 0 /\ s.vid = plugged => IdsAreOfOne(s) /\ InterfacesAreOfOne(s)
    <2> SUFFICES ASSUME plugged # 0, s.vid = plugged PROVE IdsAreOfOne(s) /\ InterfacesAreOfOne(s)
      OBVIOUS
    <2>1. IdsAreOfOne(obj[o]) /\ InterfacesAreOfOne(obj[o])
      BY <1>1, <1>7 DEF OneDevice
    <2>2. old.name \in Names /\ old.in = {} /\ old.out = {}
      BY <1>1, <1>3, <2>1 DEF InterfacesAreOfOne, Making, Opened!NoInterface
    <2>3. new.number = old.name
      BY <1>8, <2>2 DEF Opened!Listed, Names
    <2> QED BY <1>1, <1>3, <1>7, <1>8, <2>1, <2>2, <2>3 DEF IdsAreOfOne, InterfacesAreOfOne, Making
  <1> QED BY <1>1, <1>2, <1>6, <1>7, <1>9, ObjectKeepsOne

(* An interface that is made while the device stays is described whole.    *)
LEMMA MadeKeepsOne ==
    ASSUME OneDeviceInv, NEW o \in Devices, Opened!ObjectStep(o),
           obj[o].at \in Making,
           obj' = [obj EXCEPT ![o].at = "interfaces", ![o].interfaces = @ \cup {obj[o].current},
                              ![o].endpoints = Opened!Closed, ![o].current = Opened!NoInterface],
           plugged # 0 /\ obj[o].vid = plugged => obj[o].current = Opened!Described(obj[o].current.name)
    PROVE  OneDeviceInv'
  <1>1. obj[o] \in ObjectRecords /\ obj[o].vid <= plugs /\ OneDevice(obj[o])
    BY DEF OneDeviceInv, OpenInv, OpenTypeOK
  <1>2. PICK s : s = [obj[o] EXCEPT !.at = "interfaces", !.interfaces = @ \cup {obj[o].current},
                                    !.endpoints = Opened!Closed, !.current = Opened!NoInterface]
    OBVIOUS
  <1>3. obj' = [obj EXCEPT ![o] = s]
    BY <1>2 DEF OneDeviceInv, OpenInv, OpenTypeOK
  <1>4. /\ s.at = "interfaces" /\ s.names = obj[o].names
        /\ s.interfaces = obj[o].interfaces \cup {obj[o].current}
        /\ s.node = obj[o].node /\ s.pid = obj[o].pid /\ s.vid = obj[o].vid
    BY <1>1, <1>2 DEF ObjectRecords
  <1>5. plugged # 0 /\ s.vid = plugged => IdsAreOfOne(s) /\ InterfacesAreOfOne(s)
    <2> SUFFICES ASSUME plugged # 0, s.vid = plugged PROVE IdsAreOfOne(s) /\ InterfacesAreOfOne(s)
      OBVIOUS
    <2>1. IdsAreOfOne(obj[o]) /\ InterfacesAreOfOne(obj[o])
      BY <1>1, <1>4 DEF OneDevice
    <2>2. PICK name : name = obj[o].current.name
      OBVIOUS
    <2>3. /\ obj[o].names \subseteq Names /\ name \in Names \ obj[o].names
          /\ obj[o].interfaces = DescribedOf(Names \ (obj[o].names \cup {name}))
          /\ obj[o].current = Opened!Described(name)
      BY <1>4, <2>1, <2>2 DEF InterfacesAreOfOne
    <2>4. s.interfaces = DescribedOf(Names \ s.names)
      <3>1. Names \ s.names = (Names \ (obj[o].names \cup {name})) \cup {name}
        BY <1>4, <2>3
      <3> QED BY <1>4, <2>3, <3>1 DEF DescribedOf
    <2> QED BY <1>4, <2>1, <2>3, <2>4 DEF IdsAreOfOne, InterfacesAreOfOne, Making
  <1> QED BY <1>1, <1>3, <1>4, <1>5, ObjectKeepsOne

LEMMA ListEndpointsKeepsOne ==
    ASSUME OneDeviceInv, NEW o \in Devices, Opened!ListEndpoints(o)
    PROVE  OneDeviceInv'
  <1>1. /\ obj[o] \in ObjectRecords /\ obj[o].vid <= plugs /\ OneDevice(obj[o])
        /\ obj[o].at = "endpoints"
    BY DEF OneDeviceInv, OpenInv, OpenTypeOK, Opened!ListEndpoints
  <1>2. Opened!ObjectStep(o)
    BY DEF Opened!ObjectStep
  <1>3. PICK name : name = obj[o].current.name
    OBVIOUS
  <1>4. ASSUME NEW n \in Numbers,
               obj' = [obj EXCEPT ![o].at = "addresses", ![o].endpoints = n,
                                  ![o].addresses = Contents[plugged][name]]
        PROVE  OneDeviceInv'
    <2>1. PICK s : s = [obj[o] EXCEPT !.at = "addresses", !.endpoints = n,
                                      !.addresses = Contents[plugged][name]]
      OBVIOUS
    <2>2. obj' = [obj EXCEPT ![o] = s]
      BY <1>4, <2>1 DEF OneDeviceInv, OpenInv, OpenTypeOK
    <2>3. /\ s.at = "addresses" /\ s.addresses = Contents[plugged][name]
          /\ s.names = obj[o].names /\ s.current = obj[o].current /\ s.interfaces = obj[o].interfaces
          /\ s.node = obj[o].node /\ s.pid = obj[o].pid /\ s.vid = obj[o].vid
      BY <1>1, <2>1 DEF ObjectRecords
    <2>4. plugged # 0 /\ s.vid = plugged => IdsAreOfOne(s) /\ InterfacesAreOfOne(s)
      BY <1>1, <1>3, <2>3 DEF OneDevice, IdsAreOfOne, InterfacesAreOfOne, Making
    <2> QED BY <1>1, <1>2, <2>2, <2>3, <2>4, ObjectKeepsOne
  <1>5. ASSUME ~Opened!Listed(name), obj' = Opened!Made(o) PROVE OneDeviceInv'
    <2>1. ~(plugged # 0 /\ obj[o].vid = plugged)
      BY <1>1, <1>3, <1>5 DEF OneDevice, InterfacesAreOfOne, Making, Opened!Listed, Names
    <2>2. obj[o].at \in Making
      BY <1>1 DEF Making
    <2> QED BY <1>2, <1>5, <2>1, <2>2, MadeKeepsOne DEF Opened!Made
  <1> QED BY <1>3, <1>4, <1>5 DEF Opened!ListEndpoints

(* No endpoint has the address 0, so its direction decides where it goes.  *)
LEMMA SortByDirection ==
    ASSUME NEW i \in InterfaceRecords, NEW a \in Addresses
    PROVE  /\ Opened!Sort(i, a).name = i.name /\ Opened!Sort(i, a).number = i.number
           /\ Opened!Sort(i, a).in = IF a >= 128 THEN i.in \cup {a} ELSE i.in
           /\ Opened!Sort(i, a).out = IF a >= 128 THEN i.out ELSE i.out \cup {a}
  BY DEF Opened!Sort, Opened!IsIn, InterfaceRecords, Addresses

LEMMA ReadEndpointKeepsOne ==
    ASSUME OneDeviceInv, NEW o \in Devices, Opened!ReadEndpoint(o)
    PROVE  OneDeviceInv'
  <1>1. /\ obj[o] \in ObjectRecords /\ obj[o].vid <= plugs /\ OneDevice(obj[o])
        /\ obj[o].at = "addresses"
    BY DEF OneDeviceInv, OpenInv, OpenTypeOK, Opened!ReadEndpoint
  <1>2. Opened!ObjectStep(o)
    BY DEF Opened!ObjectStep
  <1>3. ASSUME NEW address \in obj[o].addresses,
               obj' = [obj EXCEPT ![o].addresses = @ \ {address},
                                  ![o].current = Opened!Sort(@, address)]
        PROVE  OneDeviceInv'
    <2>1. PICK old \in InterfaceRecords : old = obj[o].current
      BY <1>1 DEF ObjectRecords
    <2>2. PICK new : new = Opened!Sort(old, address)
      OBVIOUS
    <2>3. PICK s : s = [obj[o] EXCEPT !.addresses = @ \ {address}, !.current = new]
      OBVIOUS
    <2>4. obj' = [obj EXCEPT ![o] = s]
      BY <1>3, <2>1, <2>2, <2>3 DEF OneDeviceInv, OpenInv, OpenTypeOK
    <2>5. /\ s.at = "addresses" /\ s.addresses = obj[o].addresses \ {address}
          /\ s.names = obj[o].names /\ s.current = new /\ s.interfaces = obj[o].interfaces
          /\ s.node = obj[o].node /\ s.pid = obj[o].pid /\ s.vid = obj[o].vid
      BY <1>1, <2>3 DEF ObjectRecords
    <2>6. address \in Addresses
      BY <1>1 DEF ObjectRecords
    <2>7. /\ new.name = old.name /\ new.number = old.number
          /\ new.in = IF address >= 128 THEN old.in \cup {address} ELSE old.in
          /\ new.out = IF address >= 128 THEN old.out ELSE old.out \cup {address}
      BY <2>2, <2>6, SortByDirection
    <2>8. plugged # 0 /\ s.vid = plugged => IdsAreOfOne(s) /\ InterfacesAreOfOne(s)
      <3> SUFFICES ASSUME plugged # 0, s.vid = plugged PROVE IdsAreOfOne(s) /\ InterfacesAreOfOne(s)
        OBVIOUS
      <3>1. IdsAreOfOne(obj[o]) /\ InterfacesAreOfOne(obj[o])
        BY <1>1, <2>5 DEF OneDevice
      <3>2. PICK all : all = Contents[plugged][old.name]
        OBVIOUS
      <3>3. /\ obj[o].addresses \subseteq all
            /\ old.in = {a \in all \ obj[o].addresses : a >= 128}
            /\ old.out = {a \in all \ obj[o].addresses : a < 128}
        BY <1>1, <2>1, <3>1, <3>2 DEF InterfacesAreOfOne
      <3>4. s.addresses \subseteq all /\ all \ s.addresses = (all \ obj[o].addresses) \cup {address}
        BY <2>5, <3>3
      <3>5. /\ new.in = {a \in all \ s.addresses : a >= 128}
            /\ new.out = {a \in all \ s.addresses : a < 128}
        <4>1. address \in Nat
          BY <2>6 DEF Addresses
        <4>2. CASE address >= 128
          <5>1. ~(address < 128)
            BY <4>1, <4>2
          <5> QED BY <2>7, <3>3, <3>4, <4>2, <5>1
        <4>3. CASE ~(address >= 128)
          <5>1. address < 128
            BY <4>1, <4>3
          <5> QED BY <2>7, <3>3, <3>4, <4>3, <5>1
        <4> QED BY <4>2, <4>3
      <3>6. IdsAreOfOne(s)
        BY <1>1, <2>5, <3>1 DEF IdsAreOfOne, Making
      <3> QED BY <1>1, <2>1, <2>5, <2>7, <3>1, <3>2, <3>4, <3>5, <3>6 DEF InterfacesAreOfOne, Making
    <2> QED BY <1>1, <1>2, <2>4, <2>5, <2>8, ObjectKeepsOne
  <1>4. ASSUME Opened!Throw(o) PROVE OneDeviceInv'
    BY <1>2, <1>4, ThrowKeepsOne DEF Opened!Throw
  <1> QED BY <1>3, <1>4 DEF Opened!ReadEndpoint

LEMMA EndEndpointsKeepsOne ==
    ASSUME OneDeviceInv, NEW o \in Devices, Opened!EndEndpoints(o)
    PROVE  OneDeviceInv'
  <1>1. /\ obj[o] \in ObjectRecords /\ OneDevice(obj[o])
        /\ obj[o].at = "addresses" /\ obj[o].addresses = {}
    BY DEF OneDeviceInv, OpenInv, OpenTypeOK, Opened!EndEndpoints
  <1>2. Opened!ObjectStep(o) /\ obj' = Opened!Made(o) /\ obj[o].at \in Making
    BY <1>1 DEF Opened!ObjectStep, Opened!EndEndpoints, Making
  <1>3. PICK new \in InterfaceRecords : new = obj[o].current
    BY <1>1 DEF ObjectRecords
  <1>4. ASSUME plugged # 0, obj[o].vid = plugged PROVE new = Opened!Described(new.name)
    <2>1. PICK all : all = Contents[plugged][new.name]
      OBVIOUS
    <2>2. InterfacesAreOfOne(obj[o])
      BY <1>1, <1>4 DEF OneDevice
    <2>3. /\ new.number = new.name
          /\ new.in = {a \in all \ {} : a >= 128} /\ new.out = {a \in all \ {} : a < 128}
      BY <1>1, <1>3, <2>1, <2>2 DEF InterfacesAreOfOne
    <2>4. all \ {} = all
      OBVIOUS
    <2>5. new = [name |-> new.name, number |-> new.number, in |-> new.in, out |-> new.out]
      BY <1>3 DEF InterfaceRecords
    <2> QED BY <2>1, <2>3, <2>4, <2>5 DEF Opened!Described
  <1> QED BY <1>2, <1>3, <1>4, MadeKeepsOne DEF Opened!Made

LEMMA EndInterfacesKeepsOne ==
    ASSUME OneDeviceInv, NEW o \in Devices, Opened!EndInterfaces(o)
    PROVE  OneDeviceInv'
  <1>1. /\ obj[o] \in ObjectRecords /\ obj[o].vid <= plugs /\ OneDevice(obj[o])
        /\ obj[o].at = "interfaces" /\ obj[o].names = {}
    BY DEF OneDeviceInv, OpenInv, OpenTypeOK, Opened!EndInterfaces
  <1>2. Opened!ObjectStep(o)
    BY DEF Opened!ObjectStep
  <1>3. PICK s : s = [obj[o] EXCEPT !.at = "open", !.directory = Opened!Closed]
    OBVIOUS
  <1>4. obj' = [obj EXCEPT ![o] = s]
    BY <1>3 DEF Opened!EndInterfaces, OneDeviceInv, OpenInv, OpenTypeOK
  <1>5. /\ s.at = "open" /\ s.interfaces = obj[o].interfaces
        /\ s.node = obj[o].node /\ s.pid = obj[o].pid /\ s.vid = obj[o].vid
    BY <1>1, <1>3 DEF ObjectRecords
  <1>6. Names \ obj[o].names = Names
    BY <1>1
  <1>7. plugged # 0 /\ s.vid = plugged => IdsAreOfOne(s) /\ InterfacesAreOfOne(s)
    BY <1>1, <1>5, <1>6 DEF OneDevice, IdsAreOfOne, InterfacesAreOfOne, Making
  <1> QED BY <1>1, <1>2, <1>4, <1>5, <1>7, ObjectKeepsOne

LEMMA ClosingKeepsOne ==
    ASSUME OneDeviceInv, NEW o \in Devices, Opened!BeginDestroy(o) \/ Opened!TakeDown(o)
    PROVE  OneDeviceInv'
  <1>1. /\ obj[o] \in ObjectRecords /\ obj[o].vid <= plugs /\ FitsClosing(obj[o])
        /\ plugs \in Nat
    BY PartsAssumption DEF OneDeviceInv, OpenInv, OpenTypeOK, Opened!ContentsAssumption
  <1>2. Opened!ObjectStep(o)
    BY DEF Opened!ObjectStep
  <1>3. CASE Opened!BeginDestroy(o)
    <2>1. PICK s : s = [obj[o] EXCEPT !.at = "destroying", !.left = Opened!Destroy]
      OBVIOUS
    <2>2. obj' = [obj EXCEPT ![o] = s]
      BY <1>3, <2>1 DEF Opened!BeginDestroy, OneDeviceInv, OpenInv, OpenTypeOK
    <2>3. s.vid <= plugs /\ s.at \notin Describing
      BY <1>1, <2>1 DEF ObjectRecords, Describing, Making
    <2> QED BY <1>2, <2>2, <2>3, OthersKeepOne
  <1>4. CASE Opened!TakeDown(o)
    <2>1. obj[o].left # <<>> /\ obj[o].at \in {"unwinding", "destroying"}
      BY <1>1, <1>4 DEF Opened!TakeDown, FitsClosing
    <2>2. PICK r : r = Opened!Without(o, Head(obj[o].left))
      OBVIOUS
    <2>3. PICK s : s = Opened!After(r)
      OBVIOUS
    <2>4. obj' = [obj EXCEPT ![o] = s]
      BY <1>4, <2>2, <2>3 DEF Opened!TakeDown
    <2>5. Head(obj[o].left) \in {"epoll", "device", "interfaces"}
      BY <1>1, <2>1, Tails DEF ObjectRecords
    <2>6. r.vid = obj[o].vid /\ r.at = obj[o].at
      BY <1>1, <2>2, <2>5 DEF Opened!Without, ObjectRecords
    <2>7. s = r \/ (s.vid = 0 /\ s.at \in {"failed", "destroyed"})
      <3>1. /\ Opened!Ended("failed", r.addresses).vid = 0
            /\ Opened!Ended("failed", r.addresses).at = "failed"
            /\ Opened!Ended("destroyed", {}).vid = 0 /\ Opened!Ended("destroyed", {}).at = "destroyed"
        BY DEF Opened!Ended, Opened!NewObject
      <3> QED BY <2>3, <3>1 DEF Opened!After
    <2>8. s.vid <= plugs /\ s.at \notin Describing
      BY <1>1, <2>1, <2>6, <2>7 DEF Describing, Making
    <2> QED BY <1>2, <2>4, <2>8, OthersKeepOne
  <1> QED BY <1>3, <1>4

LEMMA OneDeviceStep == OneDeviceInv /\ [Opened!Next]_(Opened!vars) => OneDeviceInv'
  <1>1. ASSUME OneDeviceInv, NEW o \in Devices, Opened!ObjectStep(o) PROVE OneDeviceInv'
    BY <1>1, FindingKeepsOne, OpeningKeepsOne, ListInterfacesKeepsOne, NextInterfaceKeepsOne,
       ReadAttributesKeepsOne, ListEndpointsKeepsOne, ReadEndpointKeepsOne, EndEndpointsKeepsOne,
       EndInterfacesKeepsOne, ClosingKeepsOne
    DEF Opened!ObjectStep
  <1> QED BY <1>1, PlugKeepsOne DEF Opened!Next

LEMMA OneDeviceInvariance == Opened!Spec => []OneDeviceInv
  BY OneDeviceInit, OneDeviceStep, PTL DEF Opened!Spec

LEMMA OneDeviceInvImplies == OneDeviceInv => Opened!DescribesOneDevice
  BY DEF OneDeviceInv, OneDevice, IdsAreOfOne, InterfacesAreOfOne, Names, DescribedOf,
         Opened!DescribesOneDevice

-----------------------------------------------------------------------------
(* How an object finds its interfaces: induction over the naturals first.   *)
LEMMA Least ==
    ASSUME NEW T, T \subseteq Nat, T # {}
    PROVE  \E x \in T : \A y \in T : x <= y
  <1>1. PICK x \in T : \A y \in T : ~(<<y, x>> \in OpToRel(<, Nat))
    BY NatLessThanWellFounded, WFMin
  <1>2. \A y \in T : ~(y < x)
    BY <1>1 DEF OpToRel
  <1> QED BY <1>2

LEMMA SetInduction ==
    ASSUME NEW T, 0 \in T, \A n \in Nat : n \in T => n + 1 \in T
    PROVE  Nat \subseteq T
  <1> DEFINE rest == Nat \ T
  <1>1. ASSUME rest # {} PROVE FALSE
    <2>1. PICK x \in rest : \A y \in rest : x <= y
      <3>1. rest \subseteq Nat
        OBVIOUS
      <3> HIDE DEF rest
      <3> QED BY <3>1, <1>1, Least
    <2>2. x # 0 /\ x \in Nat /\ x - 1 \in Nat
      BY <2>1
    <2>3. x - 1 \in T /\ (x - 1) + 1 \in T
      BY <2>1, <2>2
    <2> QED BY <2>1, <2>2, <2>3
  <1> QED BY <1>1

-----------------------------------------------------------------------------
(* The interfaces from which one derives: the recursion has a solution, the*)
(* smallest sets that are closed under Base.                               *)
AllInterfaces == Interfaces \cup {IUnknown}
Closed(T) == T \subseteq AllInterfaces /\ \A i \in T : i # IUnknown => Base[i] \in T
Bounding(i) == {k \in AllInterfaces : \A T \in SUBSET AllInterfaces : Closed(T) /\ i \in T => k \in T}
Supports(abi) == abi = [i \in AllInterfaces |-> IF i = IUnknown THEN {IUnknown} ELSE {i} \cup abi[Base[i]]]

LEMMA LookupConstants ==
    /\ Base \in [Interfaces -> AllInterfaces]
    /\ \A T \in (SUBSET Interfaces) \ {{}} : \E i \in T : Base[i] \notin T
    /\ MaxLayers \in Nat /\ MaxListed \in Nat
  BY PartsAssumption DEF Lookup!BaseAssumption, AllInterfaces

LEMMA BoundingSupports == \E abi : Supports(abi)
  <1> DEFINE abi == [i \in AllInterfaces |-> Bounding(i)]
  <1>1. \A i \in AllInterfaces : i # IUnknown => Base[i] \in AllInterfaces
    BY LookupConstants DEF AllInterfaces
  <1>2. \A i \in AllInterfaces : Closed(Bounding(i)) /\ i \in Bounding(i)
    BY <1>1 DEF Bounding, Closed
  <1>3. Bounding(IUnknown) = {IUnknown}
    <2>1. Closed({IUnknown}) /\ {IUnknown} \in SUBSET AllInterfaces /\ IUnknown \in AllInterfaces
      BY DEF Closed, AllInterfaces
    <2>2. Bounding(IUnknown) \subseteq {IUnknown}
      BY <2>1 DEF Bounding
    <2> QED BY <1>2, <2>1, <2>2
  <1>4. ASSUME NEW i \in AllInterfaces, i # IUnknown PROVE Bounding(i) = {i} \cup Bounding(Base[i])
    <2> DEFINE T == {i} \cup Bounding(Base[i])
    <2>1. Base[i] \in AllInterfaces /\ Closed(Bounding(Base[i])) /\ Base[i] \in Bounding(Base[i])
      BY <1>1, <1>2, <1>4
    <2>2. Closed(T) /\ T \in SUBSET AllInterfaces /\ i \in T
      BY <2>1 DEF Closed
    <2>3. Bounding(i) \subseteq T
      <3> HIDE DEF T
      <3> QED BY <2>2 DEF Bounding
    <2>4. Base[i] \in Bounding(i)
      BY <1>2, <1>4 DEF Closed
    <2>5. Bounding(Base[i]) \subseteq Bounding(i)
      BY <1>2, <2>4 DEF Bounding
    <2> QED BY <1>2, <2>3, <2>5
  <1>5. Supports(abi)
    BY <1>1, <1>3, <1>4 DEF Supports
  <1> QED BY <1>5

(* An interface supports its base's, and all support IUnknown.             *)
LEMMA AbiProperties ==
    /\ Lookup!Abi[IUnknown] = {IUnknown}
    /\ \A i \in Interfaces : IUnknown \in Lookup!Abi[i]
  <1>1. PICK abi : Supports(abi)
    BY BoundingSupports
  <1>2. Lookup!Abi = CHOOSE f : f = [i \in Interfaces \cup {IUnknown} |->
            IF i = IUnknown THEN {IUnknown} ELSE {i} \cup f[Base[i]]]
    BY DEF Lookup!Abi
  <1>3. Supports(Lookup!Abi)
    BY <1>1, <1>2 DEF Supports, AllInterfaces
  <1>4. Lookup!Abi[IUnknown] = {IUnknown}
    BY <1>3 DEF Supports, AllInterfaces
  <1>5. \A i \in Interfaces : i # IUnknown => Lookup!Abi[i] = {i} \cup Lookup!Abi[Base[i]]
    BY <1>3 DEF Supports, AllInterfaces
  <1> DEFINE none == {i \in Interfaces : IUnknown \notin Lookup!Abi[i]}
  <1>6. ASSUME none # {} PROVE FALSE
    <2>1. PICK i \in none : Base[i] \notin none
      BY <1>6, LookupConstants
    <2>2. Base[i] \in AllInterfaces /\ i \in Interfaces /\ i # IUnknown
      BY <1>4, <2>1, LookupConstants
    <2>3. IUnknown \in Lookup!Abi[Base[i]]
      BY <1>4, <2>1, <2>2 DEF AllInterfaces
    <2> QED BY <1>5, <2>1, <2>2, <2>3
  <1> QED BY <1>4, <1>6

-----------------------------------------------------------------------------
(* The order of registration: the lists from the base's on, each from its  *)
(* end.                                                                    *)
Enumerates(s, n) ==
    /\ s \in Seq(Nat \X Nat)
    /\ \A k \in 1 .. Len(s) : s[k][1] \in 1 .. n /\ s[k][2] \in 1 .. Len(layers[s[k][1]])
    /\ \A i \in 1 .. n : \A j \in 1 .. Len(layers[i]) : \E k \in 1 .. Len(s) : s[k] = <<i, j>>
    /\ \A k, m \in 1 .. Len(s) : k < m =>
          s[k][1] < s[m][1] \/ (s[k][1] = s[m][1] /\ s[k][2] > s[m][2])

LayersOK(n) ==
    /\ n \in Nat \ {0} /\ layers \in Seq(Seq(Interfaces)) /\ Len(layers) = n
    /\ DOMAIN layers = 1 .. n
    /\ \A i \in 1 .. n : /\ DOMAIN layers[i] = 1 .. Len(layers[i])
                         /\ Len(layers[i]) \in Nat \ {0}
                         /\ \A j \in 1 .. Len(layers[i]) : layers[i][j] \in Interfaces

FromItsEnd(i) == Lookup!Reverse([j \in DOMAIN layers[i] |-> <<i, j>>])

LEMMA FromItsEndIs ==
    ASSUME NEW n, LayersOK(n), NEW i \in 1 .. n
    PROVE  /\ FromItsEnd(i) \in Seq(Nat \X Nat) /\ Len(FromItsEnd(i)) = Len(layers[i])
           /\ \A k \in 1 .. Len(layers[i]) : FromItsEnd(i)[k] = <<i, Len(layers[i]) - k + 1>>
  <1> DEFINE z == Len(layers[i])
             pairs == [j \in 1 .. z |-> <<i, j>>]
  <1>1. z \in Nat /\ i \in Nat /\ DOMAIN layers[i] = 1 .. z
    BY DEF LayersOK
  <1> HIDE DEF z
  <1>2. pairs \in Seq(Nat \X Nat) /\ Len(pairs) = z
    BY <1>1
  <1>3. ASSUME NEW k \in 1 .. z PROVE z - k + 1 \in 1 .. z /\ pairs[z - k + 1] = <<i, z - k + 1>>
    BY <1>1
  <1>4. FromItsEnd(i) = [k \in 1 .. z |-> pairs[(z - k) + 1]]
    BY <1>1, <1>2 DEF FromItsEnd, Lookup!Reverse
  <1>5. FromItsEnd(i) = [k \in 1 .. z |-> <<i, z - k + 1>>]
    BY <1>3, <1>4
  <1>6. \A k \in 1 .. z : <<i, z - k + 1>> \in Nat \X Nat
    BY <1>1
  <1>7. FromItsEnd(i) \in Seq(Nat \X Nat) /\ Len(FromItsEnd(i)) = z
    BY <1>1, <1>5, <1>6
  <1> QED BY <1>5, <1>7 DEF z

LEMMA EnumeratesFirst ==
    ASSUME NEW n, LayersOK(n)
    PROVE  Enumerates(FromItsEnd(1), 1)
  <1> DEFINE z == Len(layers[1])
             s == FromItsEnd(1)
  <1>1. /\ 1 \in 1 .. n /\ z \in Nat /\ s \in Seq(Nat \X Nat) /\ Len(s) = z
        /\ \A k \in 1 .. z : s[k] = <<1, z - k + 1>>
    <2>1. 1 \in 1 .. n
      BY DEF LayersOK
    <2> QED BY <2>1, FromItsEndIs DEF LayersOK
  <1> HIDE DEF s
  <1>2. ASSUME NEW k \in 1 .. z PROVE s[k][1] \in 1 .. 1 /\ s[k][2] \in 1 .. Len(layers[s[k][1]])
    <2>1. s[k][1] = 1 /\ s[k][2] = z - k + 1
      BY <1>1
    <2>2. z - k + 1 \in 1 .. z
      BY <1>1
    <2> QED BY <2>1, <2>2
  <1> HIDE DEF z
  <1>3. ASSUME NEW j \in 1 .. z PROVE \E k \in 1 .. z : s[k] = <<1, j>>
    <2>0. z \in Nat
      BY <1>1
    <2>1. z - j + 1 \in 1 .. z /\ z - (z - j + 1) + 1 = j
      BY <2>0
    <2> QED BY <1>1, <2>1
  <1>4. ASSUME NEW k \in 1 .. z, NEW m \in 1 .. z, k < m
        PROVE  s[k][1] = s[m][1] /\ s[k][2] > s[m][2]
    <2>1. PICK d, e : d = z - k + 1 /\ e = z - m + 1
      OBVIOUS
    <2>2. s[k] = <<1, d>> /\ s[m] = <<1, e>>
      BY <1>1, <2>1
    <2>3. d > e
      BY <1>1, <1>4, <2>1
    <2> QED BY <2>2, <2>3
  <1>5. \A i \in 1 .. 1 : i = 1
    OBVIOUS
  <1> QED BY <1>1, <1>2, <1>3, <1>4, <1>5 DEF Enumerates, s, z

LEMMA EnumeratesNext ==
    ASSUME NEW n, LayersOK(n), NEW i \in 1 .. n, i > 1, NEW u, Enumerates(u, i - 1)
    PROVE  Enumerates(u \o FromItsEnd(i), i)
  <1> DEFINE v == FromItsEnd(i)
             z == Len(layers[i])
  <1>1. /\ v \in Seq(Nat \X Nat) /\ Len(v) = z /\ z \in Nat /\ i \in Nat
        /\ \A k \in 1 .. z : v[k] = <<i, z - k + 1>>
    <2>1. n \in Nat /\ i \in Nat /\ z \in Nat
      BY DEF LayersOK
    <2>2. /\ v \in Seq(Nat \X Nat) /\ Len(v) = z
          /\ \A k \in 1 .. z : v[k] = <<i, z - k + 1>>
      BY FromItsEndIs
    <2> QED BY <2>1, <2>2
  <1>2. PICK y : y = Len(u) /\ y \in Nat /\ u \in Seq(Nat \X Nat)
    BY LenProperties DEF Enumerates
  <1> HIDE DEF v
  <1>3. PICK s : s = u \o v
    OBVIOUS
  <1>4. s \in Seq(Nat \X Nat) /\ Len(s) = y + z /\ \A k \in 1 .. y + z : s[k] = IF k <= y THEN u[k] ELSE v[k - y]
    <2>1. /\ s \in Seq(Nat \X Nat) /\ Len(s) = Len(u) + Len(v)
          /\ \A k \in 1 .. Len(u) + Len(v) : s[k] = IF k <= Len(u) THEN u[k] ELSE v[k - Len(u)]
      <3>1. u \in Seq(Nat \X Nat) /\ v \in Seq(Nat \X Nat)
        BY <1>1, <1>2
      <3> HIDE DEF z
      <3> QED BY <1>3, <3>1, ConcatProperties
    <2>2. Len(u) = y /\ Len(v) = z
      BY <1>1, <1>2
    <2> QED BY <2>1, <2>2
  <1>5. ASSUME NEW k \in 1 .. y + z, k <= y
        PROVE  /\ k \in 1 .. y /\ s[k] = u[k] /\ s[k][1] \in 1 .. i - 1
               /\ s[k][2] \in 1 .. Len(layers[s[k][1]])
    <2>0. z \in Nat /\ y \in Nat
      BY <1>1, <1>2
    <2>1. k \in 1 .. y /\ s[k] = u[k]
      <3> HIDE DEF z
      <3>1. k \in 1 .. y
        BY <1>5, <2>0
      <3> QED BY <1>4, <1>5, <3>1
    <2> QED BY <1>2, <2>1 DEF Enumerates
  <1>6. ASSUME NEW k \in 1 .. y + z, ~(k <= y)
        PROVE  s[k] = <<i, z - (k - y) + 1>> /\ s[k][1] = i /\ s[k][2] = z - (k - y) + 1
    <2>1. PICK j : j = k - y
      OBVIOUS
    <2>2. z \in Nat /\ y \in Nat
      BY <1>1, <1>2
    <2>3. j \in 1 .. z /\ s[k] = v[j]
      <3> HIDE DEF z
      <3>1. j \in 1 .. z
        BY <1>6, <2>1, <2>2
      <3> QED BY <1>4, <1>6, <2>1, <3>1
    <2>4. PICK e : e = z - j + 1
      OBVIOUS
    <2>5. s[k] = <<i, e>> /\ e = z - (k - y) + 1
      BY <1>1, <2>1, <2>3, <2>4
    <2>6. s[k][1] = i /\ s[k][2] = e
      BY <2>5
    <2> QED BY <2>5, <2>6
  <1>7. ASSUME NEW k \in 1 .. y + z PROVE s[k][1] \in 1 .. i /\ s[k][2] \in 1 .. Len(layers[s[k][1]])
    <2>1. CASE k <= y
      BY <1>1, <1>5, <2>1
    <2>2. CASE ~(k <= y)
      <3>1. PICK e : e = z - (k - y) + 1
        OBVIOUS
      <3>2. z \in Nat /\ y \in Nat /\ k \in 1 .. y + z
        BY <1>1, <1>2
      <3>3. i \in 1 .. i
        BY <1>1
      <3> HIDE DEF z
      <3>4. e \in 1 .. z
        BY <2>2, <3>1, <3>2
      <3>5. s[k][1] = i /\ s[k][2] = e
        BY <1>6, <2>2, <3>1
      <3> QED BY <3>3, <3>4, <3>5 DEF z
    <2> QED BY <2>1, <2>2
  <1> HIDE DEF z
  <1>8. ASSUME NEW j \in 1 .. z PROVE \E k \in 1 .. y + z : s[k] = <<i, j>>
    <2>1. PICK k : k = y + (z - j + 1)
      OBVIOUS
    <2>2. k \in 1 .. y + z /\ ~(k <= y) /\ z - (k - y) + 1 = j
      BY <1>1, <1>2, <2>1
    <2> QED BY <1>6, <2>2
  <1>9. ASSUME NEW h \in 1 .. i - 1, NEW j \in 1 .. Len(layers[h]) PROVE \E k \in 1 .. y + z : s[k] = <<h, j>>
    <2>1. PICK k \in 1 .. y : u[k] = <<h, j>>
      BY <1>2 DEF Enumerates
    <2>2. k \in 1 .. y + z /\ k <= y
      BY <1>1, <1>2
    <2> QED BY <1>5, <2>1, <2>2
  <1>10. ASSUME NEW h \in 1 .. i, NEW j \in 1 .. Len(layers[h]) PROVE \E k \in 1 .. y + z : s[k] = <<h, j>>
    <2>1. h = i \/ h \in 1 .. i - 1
      BY <1>1
    <2> QED BY <1>8, <1>9, <2>1 DEF z
  <1>11. ASSUME NEW k \in 1 .. y + z, NEW m \in 1 .. y + z, k < m
         PROVE  s[k][1] < s[m][1] \/ (s[k][1] = s[m][1] /\ s[k][2] > s[m][2])
    <2>1. CASE m <= y
      <3>1. k <= y
        BY <1>1, <1>2, <1>11, <2>1
      <3>2. k \in 1 .. y /\ m \in 1 .. y /\ s[k] = u[k] /\ s[m] = u[m]
        BY <1>5, <2>1, <3>1
      <3> QED BY <1>2, <1>11, <3>2 DEF Enumerates
    <2>2. CASE ~(m <= y) /\ k <= y
      <3>1. s[k][1] \in 1 .. i - 1 /\ s[m][1] = i
        BY <1>5, <1>6, <2>2
      <3> QED BY <1>1, <3>1
    <2>3. CASE ~(m <= y) /\ ~(k <= y)
      <3>1. /\ s[k][1] = i /\ s[k][2] = z - (k - y) + 1
            /\ s[m][1] = i /\ s[m][2] = z - (m - y) + 1
        BY <1>6, <2>3
      <3> QED BY <1>1, <1>2, <1>11, <3>1
    <2> QED BY <2>1, <2>2, <2>3
  <1>12. Enumerates(s, i)
    <2>1. s \in Seq(Nat \X Nat) /\ Len(s) = y + z
      BY <1>4
    <2>2. \A k \in 1 .. Len(s) : s[k][1] \in 1 .. i /\ s[k][2] \in 1 .. Len(layers[s[k][1]])
      BY <1>7, <2>1
    <2>3. \A h \in 1 .. i : \A j \in 1 .. Len(layers[h]) : \E k \in 1 .. Len(s) : s[k] = <<h, j>>
      BY <1>10, <2>1
    <2>4. \A k, m \in 1 .. Len(s) : k < m =>
              s[k][1] < s[m][1] \/ (s[k][1] = s[m][1] /\ s[k][2] > s[m][2])
      BY <1>11, <2>1
    <2> QED BY <2>1, <2>2, <2>3, <2>4 DEF Enumerates
  <1> QED BY <1>3, <1>12 DEF v

(* The flattening: the recursion has a solution, which enumerates.         *)
Flattens(f, n) == f = [i \in 1 .. n |-> IF i = 1 THEN FromItsEnd(i) ELSE f[i - 1] \o FromItsEnd(i)]

LEMMA SomeFlattens == ASSUME NEW n \in Nat PROVE \E f : Flattens(f, n)
  <1> DEFINE T == {m \in Nat : \E f : Flattens(f, m)}
  <1>1. 0 \in T
    <2>1. Flattens([i \in 1 .. 0 |-> i], 0)
      BY DEF Flattens
    <2> QED BY <2>1
  <1>2. ASSUME NEW m \in Nat, m \in T PROVE m + 1 \in T
    <2>1. PICK f : Flattens(f, m)
      BY <1>2
    <2> DEFINE g == [i \in 1 .. m + 1 |-> IF i <= m THEN f[i]
                                          ELSE IF i = 1 THEN FromItsEnd(i) ELSE f[i - 1] \o FromItsEnd(i)]
    <2>2. ASSUME NEW i \in 1 .. m + 1
          PROVE  g[i] = IF i = 1 THEN FromItsEnd(i) ELSE g[i - 1] \o FromItsEnd(i)
      <3>1. i # 1 => i - 1 \in 1 .. m + 1 /\ i - 1 <= m
        OBVIOUS
      <3>2. CASE i <= m
        <4>1. i \in 1 .. m
          BY <3>2
        <4>2. f[i] = IF i = 1 THEN FromItsEnd(i) ELSE f[i - 1] \o FromItsEnd(i)
          BY <2>1, <4>1 DEF Flattens
        <4> QED BY <3>1, <3>2, <4>2
      <3>3. CASE ~(i <= m)
        BY <3>1, <3>3
      <3> QED BY <3>2, <3>3
    <2>3. g = [i \in 1 .. m + 1 |-> g[i]]
      OBVIOUS
    <2> HIDE DEF g
    <2>4. Flattens(g, m + 1)
      BY <2>2, <2>3 DEF Flattens
    <2> QED BY <2>4
  <1> HIDE DEF T
  <1>3. Nat \subseteq T
    BY <1>1, <1>2, SetInduction
  <1> QED BY <1>3 DEF T

LEMMA FlattensEnumerates ==
    ASSUME NEW n, LayersOK(n), NEW f, Flattens(f, n)
    PROVE  Enumerates(f[n], n)
  <1> DEFINE T == {m \in Nat : m + 1 <= n => Enumerates(f[m + 1], m + 1)}
  <1>0. n \in Nat \ {0}
    BY DEF LayersOK
  <1>1. 0 \in T
    <2>1. 1 \in 1 .. n
      BY <1>0
    <2>2. f[1] = FromItsEnd(1)
      BY <2>1 DEF Flattens
    <2>3. 0 + 1 = 1
      OBVIOUS
    <2> QED BY <2>2, <2>3, EnumeratesFirst
  <1>2. ASSUME NEW m \in Nat, m \in T PROVE m + 1 \in T
    <2>1. CASE (m + 1) + 1 <= n
      <3>1. PICK i : i = (m + 1) + 1
        OBVIOUS
      <3>2. i \in 1 .. n /\ i > 1 /\ i # 1 /\ i - 1 = m + 1 /\ m + 1 <= n
        BY <1>0, <2>1, <3>1
      <3>3. Enumerates(f[i - 1], i - 1)
        BY <1>2, <3>2
      <3>4. f[i] = f[i - 1] \o FromItsEnd(i)
        BY <3>2 DEF Flattens
      <3>5. Enumerates(f[i], i)
        BY <3>2, <3>3, <3>4, EnumeratesNext
      <3> QED BY <3>1, <3>5
    <2>2. CASE ~((m + 1) + 1 <= n)
      BY <2>2
    <2> QED BY <2>1, <2>2
  <1> HIDE DEF T
  <1>3. Nat \subseteq T
    BY <1>1, <1>2, SetInduction
  <1>4. n - 1 \in Nat /\ (n - 1) + 1 = n
    BY <1>0
  <1>5. n - 1 \in T
    BY <1>3, <1>4
  <1> QED BY <1>0, <1>4, <1>5 DEF T

LEMMA OrderEnumerates ==
    ASSUME NEW n, LayersOK(n)
    PROVE  Enumerates(Lookup!RegistrationOrder, n)
  <1>1. n \in Nat \ {0} /\ DOMAIN layers = 1 .. n
    BY DEF LayersOK
  <1> DEFINE lists == [i \in 1 .. n |-> FromItsEnd(i)]
  <1>2. Lookup!RegistrationOrder = Lookup!FlattenSeq(lists)
    BY <1>1 DEF Lookup!RegistrationOrder, FromItsEnd
  <1>3. Len(lists) = n
    BY <1>1
  <1> DEFINE Solves(f) == f = [i \in 1 .. n |-> IF i = 1 THEN lists[i] ELSE f[i - 1] \o lists[i]]
             flat == CHOOSE f : Solves(f)
  <1>4. \A f : Solves(f) <=> Flattens(f, n)
    BY DEF Flattens
  <1>5. PICK f : Flattens(f, n)
    BY <1>1, SomeFlattens
  <1>6. Solves(flat)
    BY <1>4, <1>5
  <1>7. Lookup!FlattenSeq(lists) = flat[n]
    BY <1>1, <1>3 DEF Lookup!FlattenSeq
  <1>8. Flattens(flat, n)
    BY <1>4, <1>6
  <1>9. Enumerates(flat[n], n)
    <2> HIDE DEF flat
    <2> QED BY <1>8, FlattensEnumerates
  <1> QED BY <1>2, <1>7, <1>9

LEMMA LayersAre ==
    ASSUME layers \in UNION {[1 .. n -> Lookup!Lists] : n \in 1 .. MaxLayers}
    PROVE  \E n : LayersOK(n)
  <1>1. PICK n \in 1 .. MaxLayers : layers \in [1 .. n -> Lookup!Lists]
    OBVIOUS
  <1>2. n \in Nat \ {0}
    BY LookupConstants
  <1>3. ASSUME NEW i \in 1 .. n
        PROVE  /\ layers[i] \in Seq(Interfaces) /\ DOMAIN layers[i] = 1 .. Len(layers[i])
               /\ Len(layers[i]) \in Nat \ {0}
               /\ \A j \in 1 .. Len(layers[i]) : layers[i][j] \in Interfaces
    <2>1. layers[i] \in Lookup!Lists
      BY <1>1
    <2>2. PICK m \in 1 .. MaxListed : layers[i] \in [1 .. m -> Interfaces]
      BY <2>1 DEF Lookup!Lists
    <2>3. m \in Nat \ {0}
      BY LookupConstants
    <2>4. layers[i] \in Seq(Interfaces) /\ Len(layers[i]) = m
      BY <2>2, <2>3
    <2> QED BY <2>2, <2>3, <2>4
  <1>4. layers \in [1 .. n -> Seq(Interfaces)]
    BY <1>1, <1>3
  <1>5. layers \in Seq(Seq(Interfaces)) /\ Len(layers) = n /\ DOMAIN layers = 1 .. n
    BY <1>2, <1>4
  <1> QED BY <1>2, <1>3, <1>5 DEF LayersOK

-----------------------------------------------------------------------------
(* The walk: what it has passed does not support the interface asked for.  *)
InOrder ==
    /\ Len(remaps) \in Nat /\ Len(remaps) <= Len(Lookup!RegistrationOrder)
    /\ \A k \in 1 .. Len(remaps) : remaps[k] = Lookup!RegistrationOrder[k]

LookupInv ==
    /\ layers \in UNION {[1 .. n -> Lookup!Lists] : n \in 1 .. MaxLayers}
    /\ remaps \in Seq(Nat \X Nat) /\ InOrder
    /\ next = [k \in 1 .. Len(remaps) + 1 |-> IF k = 1 THEN Len(remaps) ELSE k - 2]
    /\ asked \in AllInterfaces
    /\ at \in {"idle", "walking", "found", "none"}
    /\ current \in 0 .. Len(remaps)
    /\ at \in {"walking", "found"} /\ current # 0 =>
          /\ ~Lookup!IsSupported(0, asked)
          /\ \A k \in current + 1 .. Len(remaps) : ~Lookup!IsSupported(k, asked)
    /\ at = "found" => Lookup!IsSupported(current, asked)
    /\ at = "none" => current = 0 /\ \A k \in 0 .. Len(remaps) : ~Lookup!IsSupported(k, asked)

LEMMA LookupInit == Lookup!Init => LookupInv
  <1> SUFFICES ASSUME Lookup!Init PROVE LookupInv
    OBVIOUS
  <1>1. /\ layers \in UNION {[1 .. n -> Lookup!Lists] : n \in 1 .. MaxLayers}
        /\ remaps = <<>> /\ next = <<0>> /\ asked = IUnknown /\ at = "idle" /\ current = 0
    BY DEF Lookup!Init
  <1>2. PICK n : LayersOK(n)
    BY <1>1, LayersAre
  <1>3. Len(Lookup!RegistrationOrder) \in Nat
    BY <1>2, OrderEnumerates, LenProperties DEF Enumerates
  <1>4. Len(remaps) = 0 /\ remaps \in Seq(Nat \X Nat)
    BY <1>1
  <1>5. InOrder
    BY <1>3, <1>4 DEF InOrder
  <1>6. next = [k \in 1 .. 0 + 1 |-> IF k = 1 THEN 0 ELSE k - 2]
    BY <1>1
  <1> QED BY <1>1, <1>4, <1>5, <1>6 DEF LookupInv, AllInterfaces

LEMMA OrderStays ==
    ASSUME UNCHANGED layers
    PROVE  Lookup!RegistrationOrder' = Lookup!RegistrationOrder
  BY DEF Lookup!RegistrationOrder

LEMMA RegisterKeeps ==
    ASSUME LookupInv, Lookup!Register
    PROVE  LookupInv'
  <1> DEFINE order == Lookup!RegistrationOrder
  <1>1. PICK n : n = Len(remaps) /\ n \in Nat /\ n < Len(order) /\ n + 1 \in 1 .. Len(order)
    <2>1. Len(remaps) \in Nat /\ Len(remaps) < Len(order)
      BY DEF LookupInv, InOrder, Lookup!Register
    <2>2. PICK z : LayersOK(z)
      BY LayersAre DEF LookupInv
    <2>3. Len(order) \in Nat
      BY <2>2, OrderEnumerates, LenProperties DEF Enumerates
    <2> HIDE DEF order
    <2> QED BY <2>1, <2>3
  <1>2. order' = order
    BY OrderStays DEF Lookup!Register
  <1>3. order \in Seq(Nat \X Nat)
    BY LayersAre, OrderEnumerates DEF LookupInv, Enumerates
  <1>4. /\ remaps' = Append(remaps, order[n + 1]) /\ remaps \in Seq(Nat \X Nat)
        /\ next' = Append([next EXCEPT ![1] = Len(remaps')], Lookup!NextOf(0))
        /\ at = "idle" /\ UNCHANGED <<layers, asked, at, current>>
    BY <1>1 DEF Lookup!Register, LookupInv
  <1>5. /\ \A k \in 1 .. n : remaps[k] = order[k]
        /\ next = [k \in 1 .. n + 1 |-> IF k = 1 THEN n ELSE k - 2]
        /\ current \in 0 .. n
    BY <1>1 DEF LookupInv, InOrder
  <1> HIDE DEF order
  <1>6. order[n + 1] \in Nat \X Nat
    BY <1>1, <1>3, ElementOfSeq
  <1>7. /\ remaps' \in Seq(Nat \X Nat) /\ Len(remaps') = n + 1
        /\ \A k \in 1 .. n : remaps'[k] = remaps[k]
        /\ remaps'[n + 1] = order[n + 1]
    BY <1>1, <1>4, <1>6, AppendProperties
  <1>8. ASSUME NEW k \in 1 .. n + 1 PROVE remaps'[k] = order[k]
    <2>1. k = n + 1 \/ k \in 1 .. n
      BY <1>1
    <2> QED BY <1>5, <1>7, <2>1
  <1>9. InOrder'
    <2>1. Len(remaps') \in Nat /\ Len(remaps') <= Len(order')
      BY <1>1, <1>2, <1>7
    <2>2. \A k \in 1 .. Len(remaps') : remaps'[k] = order'[k]
      BY <1>2, <1>7, <1>8
    <2> QED BY <2>1, <2>2 DEF InOrder, order
  <1>10. next' = [k \in 1 .. (n + 1) + 1 |-> IF k = 1 THEN n + 1 ELSE k - 2]
    <2> DEFINE one == [next EXCEPT ![1] = n + 1]
               two == [k \in 1 .. n + 1 |-> IF k = 1 THEN n + 1 ELSE k - 2]
    <2>1. 1 \in 1 .. n + 1 /\ next[1] = n /\ Lookup!NextOf(0) = n
      <3>1. 1 \in 1 .. n + 1
        BY <1>1
      <3>2. 0 + 1 = 1
        OBVIOUS
      <3>3. next[1] = n
        BY <1>5, <3>1
      <3> QED BY <3>1, <3>2, <3>3 DEF Lookup!NextOf
    <2>2. one = two
      BY <1>5
    <2>3. \A k \in 1 .. n + 1 : (IF k = 1 THEN n + 1 ELSE k - 2) \in Int
      BY <1>1
    <2>4. two \in Seq(Int) /\ Len(two) = n + 1
      BY <1>1, <2>3
    <2>5. next' = Append(two, n)
      BY <1>4, <1>7, <2>1, <2>2
    <2> HIDE DEF two
    <2>6. /\ next' \in Seq(Int) /\ Len(next') = (n + 1) + 1
          /\ \A k \in 1 .. n + 1 : next'[k] = two[k]
          /\ next'[(n + 1) + 1] = n
      BY <1>1, <2>4, <2>5, AppendProperties
    <2>7. ASSUME NEW k \in 1 .. (n + 1) + 1 PROVE next'[k] = IF k = 1 THEN n + 1 ELSE k - 2
      <3>1. CASE k \in 1 .. n + 1
        BY <2>6, <3>1 DEF two
      <3>2. CASE k \notin 1 .. n + 1
        <4>1. k = (n + 1) + 1 /\ k # 1 /\ k - 2 = n
          BY <1>1, <3>2
        <4> QED BY <2>6, <4>1
      <3> QED BY <3>1, <3>2
    <2>8. next' = [k \in 1 .. (n + 1) + 1 |-> next'[k]]
      BY <2>6, LenProperties
    <2> QED BY <2>7, <2>8
  <1>11. current' \in 0 .. n + 1
    BY <1>1, <1>4, <1>5
  <1>12. next' = [k \in 1 .. Len(remaps') + 1 |-> IF k = 1 THEN Len(remaps') ELSE k - 2]
    BY <1>7, <1>10
  <1> QED BY <1>4, <1>7, <1>9, <1>11, <1>12 DEF LookupInv

LEMMA WalkKeeps ==
    ASSUME LookupInv, Lookup!FindInterface
    PROVE  LookupInv'
  <1>1. /\ UNCHANGED <<layers, remaps, next, asked>> /\ at = "walking"
        /\ \A k : Lookup!IsSupported(k, asked)' <=> Lookup!IsSupported(k, asked)
    BY DEF Lookup!FindInterface, Lookup!IsSupported, Lookup!InterfaceOf
  <1>2. InOrder'
    BY <1>1, OrderStays DEF LookupInv, InOrder
  <1>3. CASE Lookup!IsSupported(current, asked) /\ at' = "found" /\ UNCHANGED current
    BY <1>1, <1>2, <1>3 DEF LookupInv
  <1>4. CASE /\ ~Lookup!IsSupported(current, asked)
             /\ current' = Lookup!NextOf(current)
             /\ at' = IF current' = 0 THEN "none" ELSE "walking"
    <2>1. PICK n : n = Len(remaps) /\ n \in Nat
      BY DEF LookupInv, InOrder
    <2>2. current \in 0 .. n /\ next = [k \in 1 .. n + 1 |-> IF k = 1 THEN n ELSE k - 2]
      BY <2>1 DEF LookupInv
    <2>3. Lookup!NextOf(current) = IF current = 0 THEN n ELSE current - 1
      <3>1. current + 1 \in 1 .. n + 1 /\ (current + 1 = 1 <=> current = 0) /\ (current + 1) - 2 = current - 1
        BY <2>1, <2>2
      <3> QED BY <2>2, <3>1 DEF Lookup!NextOf
    <2>4. current' \in 0 .. n
      BY <1>4, <2>1, <2>2, <2>3
    <2>5. ~Lookup!IsSupported(0, asked)
      BY <1>1, <1>4 DEF LookupInv
    <2>6. ASSUME NEW k \in current' + 1 .. n PROVE ~Lookup!IsSupported(k, asked)
      <3>1. CASE current = 0
        BY <1>4, <2>1, <2>2, <2>3, <3>1
      <3>2. CASE current # 0
        <4>1. k = current \/ k \in current + 1 .. n
          BY <1>4, <2>1, <2>2, <2>3, <3>2
        <4> QED BY <1>1, <1>4, <2>1, <3>2, <4>1 DEF LookupInv
      <3> QED BY <3>1, <3>2
    <2>7. CASE current' = 0
      <3>1. ASSUME NEW k \in 0 .. n PROVE ~Lookup!IsSupported(k, asked)
        <4>1. k = 0 \/ k \in current' + 1 .. n
          BY <2>1, <2>7
        <4> QED BY <2>5, <2>6, <4>1
      <3>2. /\ at' = "none" /\ current' = 0 /\ at' # "found" /\ at' # "walking"
            /\ \A k \in 0 .. Len(remaps') : ~Lookup!IsSupported(k, asked)'
        BY <1>1, <1>4, <2>1, <2>7, <3>1
      <3> QED BY <1>1, <1>2, <2>1, <2>4, <3>2 DEF LookupInv
    <2>8. CASE current' # 0
      <3>1. /\ at' = "walking" /\ ~Lookup!IsSupported(0, asked)'
            /\ \A k \in current' + 1 .. Len(remaps') : ~Lookup!IsSupported(k, asked)'
        BY <1>1, <1>4, <2>1, <2>5, <2>6, <2>8
      <3> QED BY <1>1, <1>2, <2>1, <2>4, <3>1 DEF LookupInv
    <2> QED BY <2>7, <2>8
  <1> QED BY <1>3, <1>4 DEF Lookup!FindInterface

LEMMA LookupStep == LookupInv /\ [Lookup!Next]_(Lookup!vars) => LookupInv'
  <1> SUFFICES ASSUME LookupInv, [Lookup!Next]_(Lookup!vars) PROVE LookupInv'
    OBVIOUS
  <1>1. CASE Lookup!Register
    BY <1>1, RegisterKeeps
  <1>2. CASE Lookup!FindInterface
    BY <1>2, WalkKeeps
  <1>3. CASE \E id \in Interfaces \cup {IUnknown} : Lookup!QueryInterface(id)
    <2>1. PICK id \in AllInterfaces : Lookup!QueryInterface(id)
      BY <1>3 DEF AllInterfaces
    <2>2. UNCHANGED <<layers, remaps, next>> /\ asked' = id /\ at' = "walking" /\ current' = 0
      BY <2>1 DEF Lookup!QueryInterface
    <2>3. InOrder' /\ 0 \in 0 .. Len(remaps)
      BY <2>2, OrderStays DEF LookupInv, InOrder
    <2> QED BY <2>2, <2>3 DEF LookupInv
  <1>4. CASE Lookup!Return
    <2>1. UNCHANGED <<layers, remaps, next>> /\ asked' = IUnknown /\ at' = "idle" /\ current' = 0
      BY <1>4 DEF Lookup!Return
    <2>2. InOrder' /\ 0 \in 0 .. Len(remaps)
      BY <2>1, OrderStays DEF LookupInv, InOrder
    <2> QED BY <2>1, <2>2 DEF LookupInv, AllInterfaces
  <1>5. CASE UNCHANGED Lookup!vars
    <2>1. UNCHANGED <<layers, remaps, next, asked, at, current>>
      BY <1>5 DEF Lookup!vars
    <2>2. \A k : Lookup!IsSupported(k, asked)' <=> Lookup!IsSupported(k, asked)
      BY <2>1 DEF Lookup!IsSupported, Lookup!InterfaceOf
    <2>3. InOrder'
      BY <2>1, OrderStays DEF LookupInv, InOrder
    <2> QED BY <2>1, <2>2, <2>3 DEF LookupInv
  <1> QED BY <1>1, <1>2, <1>3, <1>4, <1>5 DEF Lookup!Next

LEMMA LookupHolds == LookupInv => Lookup!FindsTheOverride
  <1> SUFFICES ASSUME LookupInv PROVE Lookup!FindsTheOverride
    OBVIOUS
  <1> DEFINE order == Lookup!RegistrationOrder
  <1>1. \A id : Lookup!IsSupported(0, id) <=> id = IUnknown
    BY AbiProperties DEF Lookup!IsSupported, Lookup!InterfaceOf
  <1>2. at = "none" => asked # IUnknown
    <2>1. 0 \in 0 .. Len(remaps)
      BY DEF LookupInv, InOrder
    <2> QED BY <1>1, <2>1 DEF LookupInv
  <1>3. at = "found" => (asked = IUnknown <=> current = 0)
    BY <1>1 DEF LookupInv
  <1>4. ASSUME at \in {"found", "none"}, Len(remaps) = Len(order)
        PROVE  /\ at = "found" <=> Lookup!IsInterfaceSupported(asked)
               /\ current # 0 =>
                     LET i == remaps[current][1] IN
                     /\ remaps[current][2] \in Lookup!Serving(i)
                     /\ \A j \in Lookup!Serving(i) : remaps[current][2] <= j
                     /\ \A derived \in i + 1 .. Len(layers) : Lookup!Serving(derived) = {}
    <2>1. PICK n : LayersOK(n)
      BY LayersAre DEF LookupInv
    <2>2. Enumerates(order, n)
      BY <2>1, OrderEnumerates
    <2>3. PICK y : y = Len(remaps) /\ y \in Nat /\ Len(order) = y
      BY <1>4 DEF LookupInv, InOrder
    <2>4. \A k \in 1 .. y : remaps[k] = order[k]
      BY <2>3 DEF LookupInv, InOrder
    <2> HIDE DEF order
    <2>5. ASSUME NEW k \in 1 .. y
          PROVE  /\ remaps[k][1] \in 1 .. n /\ remaps[k][2] \in 1 .. Len(layers[remaps[k][1]])
                 /\ Lookup!IsSupported(k, asked) <=> remaps[k][2] \in Lookup!Serving(remaps[k][1])
      <3>1. remaps[k][1] \in 1 .. n /\ remaps[k][2] \in 1 .. Len(layers[remaps[k][1]])
        BY <2>2, <2>3, <2>4 DEF Enumerates
      <3>2. DOMAIN layers[remaps[k][1]] = 1 .. Len(layers[remaps[k][1]])
        BY <2>1, <3>1 DEF LayersOK
      <3>3. k # 0
        BY <2>3
      <3> QED BY <3>1, <3>2, <3>3 DEF Lookup!IsSupported, Lookup!InterfaceOf, Lookup!Serving
    <2>6. ASSUME NEW i \in 1 .. n, NEW j \in Lookup!Serving(i)
          PROVE  /\ j \in 1 .. Len(layers[i])
                 /\ \E k \in 1 .. y : remaps[k] = <<i, j>> /\ Lookup!IsSupported(k, asked)
      <3>1. j \in 1 .. Len(layers[i])
        BY <2>1 DEF LayersOK, Lookup!Serving
      <3>2. PICK k \in 1 .. y : order[k] = <<i, j>>
        BY <2>2, <2>3, <3>1 DEF Enumerates
      <3>3. remaps[k] = <<i, j>> /\ remaps[k][1] = i /\ remaps[k][2] = j
        BY <2>4, <3>2
      <3> QED BY <2>5, <3>1, <3>3
    <2>7. \A k, m \in 1 .. y : k < m =>
              remaps[k][1] < remaps[m][1] \/ (remaps[k][1] = remaps[m][1] /\ remaps[k][2] > remaps[m][2])
      <3>1. \A k, m \in 1 .. y : k < m =>
                order[k][1] < order[m][1] \/ (order[k][1] = order[m][1] /\ order[k][2] > order[m][2])
        BY <2>2, <2>3 DEF Enumerates
      <3> QED BY <2>4, <3>1
    <2>8. n \in Nat \ {0} /\ DOMAIN layers = 1 .. n /\ Len(layers) = n
      BY <2>1 DEF LayersOK
    <2>9. Lookup!IsInterfaceSupported(asked) <=> \E i \in 1 .. n : Lookup!Serving(i) # {}
      BY <2>8 DEF Lookup!IsInterfaceSupported, Lookup!Serving
    <2>10. ASSUME at = "found" PROVE \E i \in 1 .. n : Lookup!Serving(i) # {}
      <3>1. CASE current = 0
        <4>1. asked = IUnknown /\ 1 \in 1 .. n
          BY <1>3, <2>8, <2>10, <3>1
        <4>2. 1 \in DOMAIN layers[1] /\ layers[1][1] \in Interfaces
          BY <2>1, <4>1 DEF LayersOK
        <4>3. 1 \in Lookup!Serving(1)
          BY <4>1, <4>2, AbiProperties DEF Lookup!Serving
        <4> QED BY <4>1, <4>3
      <3>2. CASE current # 0
        <4>1. current \in 1 .. y /\ Lookup!IsSupported(current, asked)
          BY <2>3, <2>10, <3>2 DEF LookupInv
        <4> QED BY <2>5, <4>1
      <3> QED BY <3>1, <3>2
    <2>11. ASSUME NEW i \in 1 .. n, Lookup!Serving(i) # {} PROVE at = "found"
      <3>1. PICK k \in 1 .. y : Lookup!IsSupported(k, asked)
        BY <2>6, <2>11
      <3>2. k \in 0 .. Len(remaps)
        BY <2>3
      <3> QED BY <1>4, <3>1, <3>2 DEF LookupInv
    <2>12. ASSUME current # 0
           PROVE  /\ remaps[current][2] \in Lookup!Serving(remaps[current][1])
                  /\ \A j \in Lookup!Serving(remaps[current][1]) : remaps[current][2] <= j
                  /\ \A derived \in remaps[current][1] + 1 .. n : Lookup!Serving(derived) = {}
      <3>1. /\ current \in 1 .. y /\ Lookup!IsSupported(current, asked)
            /\ \A k \in current + 1 .. y : ~Lookup!IsSupported(k, asked)
        BY <1>4, <2>3, <2>12 DEF LookupInv
      <3>2. PICK c : c = current
        OBVIOUS
      <3>3. /\ remaps[c][2] \in Lookup!Serving(remaps[c][1])
            /\ remaps[c][1] \in 1 .. n /\ remaps[c][2] \in Nat
        <4>1. \A z : \A a \in 1 .. z : a \in Int
          OBVIOUS
        <4> QED BY <2>5, <3>1, <3>2
      <3>4. ASSUME NEW i \in 1 .. n, NEW j \in Lookup!Serving(i)
            PROVE  ~(remaps[c][1] < i) /\ (remaps[c][1] = i => remaps[c][2] <= j)
        <4>1. PICK k \in 1 .. y : remaps[k] = <<i, j>> /\ Lookup!IsSupported(k, asked)
          BY <2>6
        <4>2. remaps[k][1] = i /\ remaps[k][2] = j /\ i \in Nat /\ j \in Int
          <5>1. j \in 1 .. Len(layers[i])
            BY <2>6
          <5> QED BY <4>1, <5>1, <2>8
        <4>3. k = c \/ k < c
          BY <2>3, <3>1, <3>2, <4>1
        <4>4. CASE k = c
          BY <4>2, <4>4
        <4>5. CASE k < c
          <5>1. remaps[k][1] < remaps[c][1] \/ (remaps[k][1] = remaps[c][1] /\ remaps[k][2] > remaps[c][2])
            BY <2>7, <3>1, <3>2, <4>5
          <5>2. remaps[c][1] \in Int /\ remaps[c][2] \in Int
            BY <3>3
          <5> QED BY <4>2, <5>1, <5>2
        <4> QED BY <4>3, <4>4, <4>5
      <3>5. \A derived \in remaps[c][1] + 1 .. n : Lookup!Serving(derived) = {}
        <4>1. \A derived \in remaps[c][1] + 1 .. n : derived \in 1 .. n /\ remaps[c][1] < derived
          BY <2>8, <3>3
        <4> QED BY <3>4, <4>1
      <3> QED BY <3>2, <3>3, <3>4, <3>5
    <2> QED BY <2>8, <2>9, <2>10, <2>11, <2>12
  <1> QED BY <1>2, <1>3, <1>4 DEF Lookup!FindsTheOverride

-----------------------------------------------------------------------------
(* A behaviour of the composition is one of its parts.                     *)
LEMMA OpeningBehaves == LifetimesSpec => Opened!Spec
  <1>1. LifetimesInit => Opened!Init
    BY DEF LifetimesInit
  <1>2. [LifetimesNext]_<<part, vars, openVars, lookupVars>> => [Opened!Next]_(Opened!vars)
    BY DEF LifetimesNext, openVars, Opened!vars
  <1> QED BY <1>1, <1>2, PTL DEF LifetimesSpec, Opened!Spec

LEMMA LookupBehaves == LifetimesSpec => Lookup!Spec
  <1>1. LifetimesInit => Lookup!Init
    BY DEF LifetimesInit
  <1>2. [LifetimesNext]_<<part, vars, openVars, lookupVars>> => [Lookup!Next]_(Lookup!vars)
    BY DEF LifetimesNext, lookupVars, Lookup!vars
  <1> QED BY <1>1, <1>2, PTL DEF LifetimesSpec, Lookup!Spec

(* A device that is opened has descriptors of its own, interfaces are      *)
(* released while its descriptor is open, and one that was destroyed or    *)
(* whose open has failed keeps none but the directories of a listing that  *)
(* threw (UsbDevice.h, UsbInterface.h).                                    *)
THEOREM NothingStaysOpen == LifetimesSpec => []NothingIsLeft
  <1>1. OpenInv => NothingIsLeft
    BY OpenInvImplies DEF NothingIsLeft
  <1> QED BY <1>1, OpeningBehaves, OpenInvariance, PTL

(* A device that stays plugged from its vendor id to the end of the        *)
(* constructor is described whole: ids, node, interfaces, endpoints.       *)
THEOREM DescribedWhole == LifetimesSpec => []DescribesOneDevice
  <1>1. OneDeviceInv => DescribesOneDevice
    BY OneDeviceInvImplies DEF DescribesOneDevice
  <1> QED BY <1>1, OpeningBehaves, OneDeviceInvariance, PTL

(* What a ComPtr or a living ComDelegate holds lives, and no thread touches*)
(* or deletes an object that is deleted, however the operations of the     *)
(* threads interleave (ComObject.h, addRef and release).                   *)
THEOREM NothingIsTouchedAfterDeletion ==
    ASSUME ~SelfAssigns
    PROVE  LifetimesSpec => []NothingDangles
  BY ComBehaves, ComHolds, PTL

(* Between the operations _refCount says how many hold an object, it lives *)
(* exactly as long as somebody does, and an assignment, copy or move has   *)
(* passed on what its source held (ComObject.h, ComPtr).                   *)
THEOREM CountsAreTrue ==
    ASSUME ~SelfAssigns
    PROVE  LifetimesSpec => []CountsHolders
  BY ComBehaves, ComHolds, PTL

(* queryInterface of a constructed object finds exactly the interfaces the *)
(* compiler holds its class to implement, in the most derived class that   *)
(* lists one, although it only follows the ring that the constructors of   *)
(* the bases began (ComObject.h, findInterface and registerRemap).         *)
THEOREM OverrideIsFound == LifetimesSpec => []FindsTheOverride
  <1>1. LookupInv => FindsTheOverride
    BY LookupHolds DEF FindsTheOverride
  <1>2. Lookup!Spec => []LookupInv
    BY LookupInit, LookupStep, PTL DEF Lookup!Spec
  <1> QED BY <1>1, <1>2, LookupBehaves, PTL
=============================================================================
