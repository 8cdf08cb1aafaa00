----------------------------- MODULE EventQueue -----------------------------
(***************************************************************************)
(* What an event queue promises to its users: a bounded double-ended       *)
(* queue of capacity cap.  FIFO posts go to the back, LIFO posts to the    *)
(* front, get takes the front.  A FIFO post may ask that margin slots stay *)
(* free afterwards and is refused otherwise; a post that is guaranteed to  *)
(* succeed (NoMargin), and every LIFO post, stops the system when the      *)
(* queue is full.                                                          *)
(***************************************************************************)
EXTENDS Integers, Sequences

CONSTANTS Evts,      \* the events that can be posted
          NULL,      \* no event
          NoMargin,  \* the margin that guarantees delivery
          Margins,   \* the margins posters ask for, NoMargin included
          QLens      \* the ring lengths a queue may be given

VARIABLES q,         \* the events in the queue, front first
          cap,       \* the capacity
          low,       \* the smallest number of free entries so far
          posted,    \* what the last FIFO post returned
          got,       \* what the last get returned
          halted     \* an assertion stopped the system

vars == <<q, cap, low, posted, got, halted>>

Free == cap - Len(q)

Lower(x, y) == IF y < x THEN y ELSE x

Init == /\ q = <<>>
        /\ cap \in {n + 1 : n \in QLens}
        /\ low = cap
        /\ posted = FALSE
        /\ got = NULL
        /\ halted = FALSE

Fits(margin) == Free > (IF margin = NoMargin THEN 0 ELSE margin)

Post(e, margin) == /\ ~halted
                   /\ Fits(margin)
                   /\ q' = Append(q, e)
                   /\ low' = Lower(low, Free - 1)
                   /\ posted' = TRUE
                   /\ UNCHANGED <<cap, got, halted>>

Refuse(margin) == /\ ~halted
                  /\ ~Fits(margin)
                  /\ halted' = (margin = NoMargin)
                  /\ posted' = FALSE
                  /\ UNCHANGED <<q, cap, low, got>>

PostLIFO(e) == /\ ~halted
               /\ IF Free = 0 THEN /\ halted' = TRUE
                                   /\ UNCHANGED <<q, low>>
                              ELSE /\ q' = <<e>> \o q
                                   /\ low' = Lower(low, Free - 1)
                                   /\ halted' = FALSE
               /\ UNCHANGED <<cap, posted, got>>

Get == /\ ~halted
       /\ IF q = <<>> THEN got' = NULL /\ q' = q
                      ELSE got' = Head(q) /\ q' = Tail(q)
       /\ UNCHANGED <<cap, low, posted, halted>>

Next == \/ \E e \in Evts, margin \in Margins : Post(e, margin)
        \/ \E margin \in Margins : Refuse(margin)
        \/ \E e \in Evts : PostLIFO(e)
        \/ Get

Spec == Init /\ [][Next]_vars
=============================================================================
