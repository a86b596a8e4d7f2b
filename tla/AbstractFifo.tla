---------------------------- MODULE AbstractFifo ----------------------------
(***************************************************************************)
(* What a bounded byte queue promises: bytes come out in the order they    *)
(* went in, a write or a read happens entirely or not at all, and looking  *)
(* at the next bytes takes nothing away.                                   *)
(***************************************************************************)
EXTENDS Naturals, Sequences

CONSTANTS
    Bytes,          \* the values of a byte
    Capacity,       \* how many of them the queue holds
    MaxRequest      \* the longest write, read, peek or discard

VARIABLES
    queue,          \* the bytes in the queue, oldest first
    answer          \* the last call and its outcome

avars == <<queue, answer>>

Requests == 0..MaxRequest
First(n) == [i \in 1..n |-> queue[i]]
Rest(n) == [i \in 1..(Len(queue) - n) |-> queue[n + i]]

(* The calls, with what they are given and what they answer.               *)
Wrote(data, ok) == [wrote |-> data, ok |-> ok]
Got(n, ok, data) == [read |-> n, ok |-> ok, data |-> data]
Peeked(n, ok, data) == [peeked |-> n, ok |-> ok, data |-> data]
Discarded(count, n) == [discarded |-> count, returned |-> n]
Cleared == [cleared |-> TRUE]

Init == queue = <<>> /\ answer = Cleared

Write == \E n \in Requests : \E data \in [1..n -> Bytes] :
    IF Len(queue) + n <= Capacity
    THEN queue' = queue \o data /\ answer' = Wrote(data, TRUE)
    ELSE queue' = queue /\ answer' = Wrote(data, FALSE)

Read == \E n \in Requests :
    IF n <= Len(queue)
    THEN queue' = Rest(n) /\ answer' = Got(n, TRUE, First(n))
    ELSE queue' = queue /\ answer' = Got(n, FALSE, <<>>)

Peek == \E n \in Requests :
    /\ queue' = queue
    /\ answer' = IF n <= Len(queue) THEN Peeked(n, TRUE, First(n)) ELSE Peeked(n, FALSE, <<>>)

Discard == \E count \in Requests :
    LET gone == IF count <= Len(queue) THEN count ELSE Len(queue)
    IN  queue' = Rest(gone) /\ answer' = Discarded(count, gone)

Clear == queue' = <<>> /\ answer' = Cleared

Next == Write \/ Read \/ Peek \/ Discard \/ Clear

Spec == Init /\ [][Next]_avars
=============================================================================
