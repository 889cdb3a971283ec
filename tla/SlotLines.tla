----------------------------- MODULE SlotLines -----------------------------
(***************************************************************************)
(* The state a BuildQueue guards with its mutex, as one record, and the    *)
(* private operations on it (src/src/buildqueue.hpp).  Each operator maps  *)
(* the record before the operation to the record after it, so that a       *)
(* specification can perform several of them under one lock.               *)
(*                                                                         *)
(*   free         m_free, the slots nobody holds                           *)
(*   reacquiring  m_reacquiring, leases taking their slot back             *)
(*   promoted     m_promoted, new work whose ticket was promoted           *)
(*   waiting      m_waiting, all other new work                            *)
(*   given        waiters that release() took out of line and handed a     *)
(*                slot, whose resumption on Handoff is still to come       *)
(*   hurry        tickets with m_promoted set                              *)
(*   inLine       tickets whose m_waiter is not null                       *)
(*                                                                         *)
(* A waiter and the ticket it waits under are both named by the piece of   *)
(* work; Ticketed is the work scheduled with a ticket.                     *)
(***************************************************************************)
EXTENDS Naturals, SequencesExt

CONSTANT Ticketed

(* The states of the lines over the pieces of work in S.                   *)
LinesOver(S) ==
    [free : Nat, reacquiring : Seq(S), promoted : Seq(S), waiting : Seq(S),
     given : SUBSET S, hurry : SUBSET Ticketed, inLine : SUBSET Ticketed]

EmptyLines(concurrency) ==
    [free        |-> concurrency,
     reacquiring |-> <<>>,
     promoted    |-> <<>>,
     waiting     |-> <<>>,
     given       |-> {},
     hurry       |-> {},
     inLine      |-> {}]

(* Waiters::remove of a waiter that is in line.                            *)
WithoutWaiter(line, w) ==
    RemoveAt(line, CHOOSE i \in DOMAIN line : line[i] = w)

(* The line a dequeue would take the waiter from.                          *)
Queued(q, w, reacquire) ==
    IF reacquire THEN w \in ToSet(q.reacquiring)
                 ELSE w \in ToSet(q.promoted) \/ w \in ToSet(q.waiting)

(* Mutant: leases queue in front of one another.                           *)
enqueue_in_front(q, w, reacquire) ==
    IF reacquire
    THEN [q EXCEPT !.reacquiring = <<w>> \o @]
    ELSE [q EXCEPT !.waiting = Append(@, w),
                   !.inLine = @ \cup ({w} \cap Ticketed)]

enqueue(q, w, reacquire) ==
    IF reacquire
    THEN [q EXCEPT !.reacquiring = Append(@, w)]
    ELSE LET ticketed == [q EXCEPT !.inLine = @ \cup ({w} \cap Ticketed)]
         IN  IF w \in Ticketed \cap q.hurry
             THEN [ticketed EXCEPT !.promoted = Append(@, w)]
             ELSE [ticketed EXCEPT !.waiting = Append(@, w)]

left_line(q, w) == [q EXCEPT !.inLine = @ \ ({w} \cap Ticketed)]

(* Mutant: the ticket still points at a waiter that left.                  *)
dequeue_keeps_ticket(q, w, reacquire) ==
    IF reacquire
    THEN [q EXCEPT !.reacquiring = WithoutWaiter(@, w)]
    ELSE [q EXCEPT !.promoted = SelectSeq(@, LAMBDA v : v # w),
                   !.waiting = SelectSeq(@, LAMBDA v : v # w)]

(* dequeue of a waiter that is Queued; of any other it changes nothing.    *)
dequeue(q, w, reacquire) ==
    CASE reacquire ->
            [q EXCEPT !.reacquiring = WithoutWaiter(@, w)]
      [] ~reacquire /\ w \in ToSet(q.promoted) ->
            left_line([q EXCEPT !.promoted = WithoutWaiter(@, w)], w)
      [] OTHER ->
            left_line([q EXCEPT !.waiting = WithoutWaiter(@, w)], w)

(* Mutant: the line of promoted work is forgotten.                         *)
release_skips_promoted(q) ==
    CASE q.reacquiring # <<>> ->
            [q EXCEPT !.reacquiring = Tail(@),
                      !.given = @ \cup {Head(q.reacquiring)}]
      [] q.reacquiring = <<>> /\ q.waiting # <<>> ->
            left_line([q EXCEPT !.waiting = Tail(@),
                                !.given = @ \cup {Head(q.waiting)}],
                      Head(q.waiting))
      [] OTHER -> [q EXCEPT !.free = @ + 1]

(* A slot is passed straight to a waiter, or becomes free.                 *)
release(q) ==
    CASE q.reacquiring # <<>> ->
            [q EXCEPT !.reacquiring = Tail(@),
                      !.given = @ \cup {Head(q.reacquiring)}]
      [] q.reacquiring = <<>> /\ q.promoted # <<>> ->
            left_line([q EXCEPT !.promoted = Tail(@),
                                !.given = @ \cup {Head(q.promoted)}],
                      Head(q.promoted))
      [] q.reacquiring = <<>> /\ q.promoted = <<>> /\ q.waiting # <<>> ->
            left_line([q EXCEPT !.waiting = Tail(@),
                                !.given = @ \cup {Head(q.waiting)}],
                      Head(q.waiting))
      [] OTHER -> [q EXCEPT !.free = @ + 1]

promote(q, t) ==
    LET marked == [q EXCEPT !.hurry = @ \cup {t}]
    IN  IF t \notin q.hurry /\ t \in q.inLine /\ t \in ToSet(q.waiting)
        THEN [marked EXCEPT !.waiting = WithoutWaiter(@, t),
                            !.promoted = Append(@, t)]
        ELSE marked

(* The waiters in s are in the order they have in line.                    *)
KeepsOrder(s, line) ==
    \A i, j \in DOMAIN s, k, l \in DOMAIN line :
        i < j /\ s[i] = line[k] /\ s[j] = line[l] => k < l

(* The lines with the tickets of T hurried, rest left waiting and ahead    *)
(* moved up.                                                               *)
MovedUp(q, T, rest, ahead) ==
    [q EXCEPT !.hurry = @ \cup T, !.waiting = rest, !.promoted = @ \o ahead]

(* The waiters that promoting the tickets of T moves up.                   *)
MovedBy(q, T) ==
    {t \in T : t \notin q.hurry /\ t \in q.inLine /\ t \in ToSet(q.waiting)}

(* What promoting each ticket of T may come to, in one order or another.   *)
promote_all(q, T) ==
    LET stays == {s \in SetToSeqs(ToSet(q.waiting) \ MovedBy(q, T)) :
                     KeepsOrder(s, q.waiting)}
    IN  {MovedUp(q, T, rest, ahead) : rest \in stays, ahead \in SetToSeqs(MovedBy(q, T))}

=============================================================================
