-------------------------------- MODULE Timers --------------------------------
(***************************************************************************)
(* timer.c: one list of armed timers, sorted by the time they are due.     *)
(* A queue is [order, due]: the list, and Timer.time of every timer that   *)
(* has one.  A timer is a name; its usecs and whether it is periodic are   *)
(* the caller's.  Which memory a timer lives in (free_timers) is left out. *)
(***************************************************************************)
EXTENDS Naturals, Sequences, FiniteSetsExt

NoTimer == "none"

Positions(order, t) == {i \in DOMAIN order : order[i] = t}
Armed(q, t) == Positions(q.order, t) # {}

(* list_add: in front of the first timer that is due later *)
ListAdd(order, due, t) ==
    LET later == {i \in DOMAIN order : due[t] < due[order[i]]}
        at == IF later = {} THEN Len(order) + 1 ELSE Min(later)
    IN  SubSeq(order, 1, at - 1) \o <<t>> \o SubSeq(order, at, Len(order))

(* list_remove, of a timer that is in the list *)
ListRemove(order, t) ==
    LET at == CHOOSE i \in Positions(order, t) : TRUE
    IN  SubSeq(order, 1, at - 1) \o SubSeq(order, at + 1, Len(order))

(* tmr_create, with the time from which usecs count *)
Create(q, t, from, usecs) ==
    LET due == [q.due EXCEPT ![t] = from + usecs]
    IN  [order |-> ListAdd(q.order, due, t), due |-> due]

(* The time of an armed timer moves, and list_resort puts it in its place:  *)
(* tmr_reset, and the rescheduling of a periodic timer in tmr_run           *)
MoveTo(q, t, time) ==
    LET due == [q.due EXCEPT ![t] = time]
    IN  [order |-> ListAdd(ListRemove(q.order, t), due, t), due |-> due]

Reset(q, t, now, usecs) == IF Armed(q, t) THEN MoveTo(q, t, now + usecs) ELSE q

(* Mutant: the time moves and the timer keeps its place in the list *)
RescheduleUnsorted(q, t, usecs) == [q EXCEPT !.due[t] = @ + usecs]

Reschedule(q, t, usecs) == MoveTo(q, t, q.due[t] + usecs)

Cancel(q, t) == [q EXCEPT !.order = ListRemove(@, t)]

(* next, as tmr_run takes it before it calls timer_proc *)
Following(q, t) ==
    LET i == CHOOSE j \in Positions(q.order, t) : TRUE
    IN  IF i = Len(q.order) THEN NoTimer ELSE q.order[i + 1]

(* tmr_timeout says zero, or tmr_run does not break *)
IsDue(q, t, now) == t # NoTimer /\ q.due[t] <= now
First(q) == IF q.order = <<>> THEN NoTimer ELSE Head(q.order)

(* The list is sorted and holds no timer twice *)
Sorted(q) ==
    \A i, j \in DOMAIN q.order :
        i < j => q.due[q.order[i]] <= q.due[q.order[j]] /\ q.order[i] # q.order[j]
===============================================================================
