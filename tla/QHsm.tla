-------------------------------- MODULE QHsm --------------------------------
(***************************************************************************)
(* The event processor for hierarchical state machines (qep_hsm.cpp).      *)
(*                                                                         *)
(* The processor knows the hierarchy only by asking: a state handler that  *)
(* gets a signal it does not handle stores its superstate in m_temp.  The  *)
(* hierarchy is a variable that never changes, so that one run covers all  *)
(* state machines with the states 1 .. N; what a handler does with an      *)
(* event is chosen anew every time.  An action is one call of a handler    *)
(* for an event, an entry, an exit or an initial transition, with the code *)
(* up to the next such call; the calls with the empty signal in between    *)
(* are operators.                                                          *)
(*                                                                         *)
(* A definition marked "faulty" is a variant with a plausible bug.  No     *)
(* action uses it; replacing the definition that follows it by the variant *)
(* shows that a property would notice the bug.                             *)
(***************************************************************************)
EXTENDS Integers, Sequences

CONSTANTS N,               \* the number of states
          MAX_NEST_DEPTH_  \* the length of the entry path

ASSUME HsmAssumption == N \in Nat \ {0} /\ MAX_NEST_DEPTH_ \in Nat \ (0 .. 2)

States == 1 .. N
top == 0  \* QHsm::top

VARIABLES super,    \* the hierarchy: the superstate of every state
          m_state,  \* the current state
          m_temp,   \* the state a handler left behind
          pc,       \* what the processor does next
          s, t,     \* the source of the transition, the state to leave next
          path, ip, \* the entry path from the target up; how many of its
                    \*     states, the last ones first, are to be entered
          asrt,     \* the assertion that stopped the machine, or "none"
          entered,  \* history: the states entered and not exited
          kept,     \* history: the states not exited in this step
          legal     \* history: no state was entered or exited out of order

vars == <<super, m_state, m_temp, pc, s, t, path, ip, asrt, entered, kept, legal>>
history == <<entered, kept, legal>>

\* The constructor.  Superstates are numbered before their substates.
Init == /\ super \in {f \in [States -> 0 .. N - 1] : \A x \in States : f[x] < x}
        /\ m_state = top /\ m_temp = top
        /\ pc = "constructed" /\ s = top /\ t = top
        /\ path = << >> /\ ip = 0
        /\ asrt = "none" /\ entered = {} /\ kept = {} /\ legal = TRUE

\* x and its superstates up to top, as QEP_TRIG_ with QEP_EMPTY_SIG_ finds
\* them one after the other.
Chain(x) == LET c[y \in 0 .. N] == IF y = top THEN <<top>>
                                   ELSE <<y>> \o c[super[y]]
            IN  c[x]

\* faulty: the last place of the path is not used
PathFitsShort(n) == n < MAX_NEST_DEPTH_
\* The assertions on the length of the entry path; except in init() the code
\* has then already written it.
PathFits(n) == n <= MAX_NEST_DEPTH_

\* The position of y in the sequence c, or 0.
Find(c, y) == IF \E i \in DOMAIN c : c[i] = y
              THEN CHOOSE i \in DOMAIN c : c[i] = y ELSE 0

\* The states from x up to its superstate y, without y.
PathTo(x, y) == SubSeq(Chain(x), 1, Find(Chain(x), y) - 1)
Below(x, y) == Find(Chain(x), y) > 1

-----------------------------------------------------------------------------
(***************************************************************************)
(* Entry and exit actions.                                                 *)
(***************************************************************************)
\* QEP_ENTER_ for the last state of the path.
Enter(x) == /\ entered' = entered \cup {x}
            /\ legal' = (/\ legal /\ x \notin entered
                         /\ super[x] \in entered \cup {top})

\* A handler gets Q_EXIT_SIG for x.
Exit(x) == /\ entered' = entered \ {x}
           /\ kept' = kept \ {x}
           /\ legal' = (legal /\ x \in entered
                        /\ \A y \in entered : super[y] # x)

\* What the exit of x leaves in m_temp: the superstate of x when x has no exit
\* action; otherwise what was there, or m_state when the action calls
\* childState().
ExitReturns == [handled : BOOLEAN, temp : {"same", "m_state"}]
AfterExit(x, r) == IF ~r.handled THEN super[x]
                   ELSE IF r.temp = "same" THEN m_temp ELSE m_state

\* faulty: the superstate is taken from m_temp also after an exit action
NextUpStale(x, r) == AfterExit(x, r)
\* "find superstate of t" after an exit action
NextUp(x, r) == IF r.handled THEN super[x] ELSE AfterExit(x, r)

-----------------------------------------------------------------------------
(***************************************************************************)
(* Initial transitions.                                                    *)
(***************************************************************************)
\* The states below t on the way to the target of an initial transition are
\* p: assertion 220 of init() and 410 of dispatch() check their number.
EnterBelow(p) ==
    /\ path' = p /\ ip' = Len(p) /\ m_temp' = p[1]
    /\ IF PathFits(Len(p)) THEN pc' = "deeper" /\ UNCHANGED asrt
                             ELSE asrt' = "path" /\ UNCHANGED pc

\* QHsm::init: the top-most initial transition goes to x.
init(x) ==
    /\ pc = "constructed" /\ asrt = "none"
    /\ EnterBelow(PathTo(x, top))
    /\ UNCHANGED <<super, m_state, s, t, history>>

\* faulty: the path is entered from the target up
PathFromTarget == path[1 + Len(path) - ip]
PathAt == path[ip]

\* "retrace the entry path in reverse (desired) order"
enter ==
    /\ pc \in {"enter", "deeper"} /\ asrt = "none" /\ ip > 0
    /\ Enter(PathAt)
    /\ ip' = ip - 1
    /\ UNCHANGED <<super, m_state, m_temp, pc, s, t, path, asrt, kept>>

\* All states are entered: the target is the new t.
arrive ==
    /\ pc \in {"enter", "deeper"} /\ asrt = "none" /\ ip = 0
    /\ t' = path[1] /\ m_temp' = path[1] /\ pc' = "drill"
    /\ UNCHANGED <<super, m_state, s, path, ip, asrt, history>>

\* t has an initial transition, to x.
drill(x) ==
    /\ pc = "drill" /\ asrt = "none" /\ Below(x, t)
    /\ EnterBelow(PathTo(x, t))
    /\ UNCHANGED <<super, m_state, s, t, history>>

\* faulty: the state before the initial transitions becomes the current one
SettleEarly == m_state' = s
Settle == m_state' = t
\* t has none: it is the current state.
settle ==
    /\ pc = "drill" /\ asrt = "none"
    /\ Settle /\ m_temp' = t /\ pc' = "stable"
    /\ UNCHANGED <<super, s, t, path, ip, asrt, history>>

-----------------------------------------------------------------------------
(***************************************************************************)
(* Events.                                                                 *)
(***************************************************************************)
\* QHsm::dispatch; precondition 400 is that the configuration is stable.
dispatch ==
    /\ pc = "stable" /\ asrt = "none"
    /\ IF m_state = m_temp
       THEN /\ pc' = "search" /\ s' = m_temp /\ t' = m_state
            /\ kept' = entered /\ UNCHANGED asrt
       ELSE asrt' = "400" /\ UNCHANGED <<pc, s, t, kept>>
    /\ UNCHANGED <<super, m_state, m_temp, path, ip, entered, legal>>

\* The handler of s passes the event on: it returns Q_RET_SUPER, or
\* Q_RET_UNHANDLED and is asked for its superstate.
pass ==
    /\ pc = "search" /\ s # top
    /\ s' = super[s] /\ m_temp' = super[s]
    /\ UNCHANGED <<super, m_state, pc, t, path, ip, asrt, history>>

\* The handler of s handles the event without a transition, or it is the top
\* state, which ignores it.
handle ==
    /\ pc = "search"
    /\ m_temp' = t /\ pc' = "stable"
    /\ UNCHANGED <<super, m_state, s, t, path, ip, asrt, history>>

\* The handler of s takes a transition to x.
take(x) ==
    /\ pc = "search" /\ s # top
    /\ m_temp' = x /\ path' = <<x>>
    /\ pc' = "exit"
    /\ UNCHANGED <<super, m_state, s, t, ip, asrt, history>>

\* Exit the current state up to the source of the transition.
exitToSource ==
    /\ pc = "exit" /\ t # s
    /\ Exit(t)
    /\ \E r \in ExitReturns : t' = NextUp(t, r) /\ m_temp' = t'
    /\ UNCHANGED <<super, m_state, pc, s, path, ip, asrt>>

-----------------------------------------------------------------------------
(***************************************************************************)
(* QHsm::hsm_tran: exit the source and its superstates up to the least     *)
(* common ancestor of source and target, and find the path from there.     *)
(***************************************************************************)
target == path[1]
InTran == pc = "exit" /\ t = s /\ asrt = "none"

ExitSource == /\ Exit(s)
              /\ \E r \in ExitReturns : m_temp' = AfterExit(s, r)

\* The path is p, and its first i states are to be entered.
EnterPath(p, i) == /\ path' = p /\ ip' = i /\ pc' = "enter"
                   /\ UNCHANGED <<t, asrt>>
TranUnchanged == UNCHANGED <<super, m_state, s>>

\* (a) source==target
tranSelf == /\ InTran /\ s = target
            /\ ExitSource /\ EnterPath(path, 1) /\ TranUnchanged

\* (b) source==target->super
tranDown == /\ InTran /\ s = super[target]
            /\ m_temp' = s /\ EnterPath(path, 1)
            /\ UNCHANGED history /\ TranUnchanged

\* (c) source->super==target->super
tranSibling == /\ InTran /\ s # target /\ super[s] = super[target]
               /\ ExitSource /\ EnterPath(path, 1) /\ TranUnchanged

\* (d) source->super==target
tranUp == /\ InTran /\ super[s] = target
          /\ ExitSource /\ EnterPath(path, 0) /\ TranUnchanged

\* None of (a) to (d)
Remote == /\ InTran /\ s \notin {target, super[target]}
          /\ super[s] \notin {target, super[target]}

\* (e) source==target->super->super...
tranFarDown ==
    /\ Remote /\ Below(target, s)
    /\ m_temp' = s
    /\ UNCHANGED history /\ TranUnchanged
    /\ IF PathFits(Find(Chain(target), s))
       THEN EnterPath(PathTo(target, s), Find(Chain(target), s) - 1)
       ELSE asrt' = "path" /\ UNCHANGED <<pc, t, path, ip>>

\* "do not enter LCA": ip counts the states before it on the path.
\* (f) source->super==target->super->super..., or else (g) keep the whole
\* path and go on with the superstates of the source.
ClimbTo(c, y) == /\ path' = c
                 /\ IF Find(c, y) > 0 THEN ip' = Find(c, y) - 1 /\ pc' = "enter"
                                      ELSE pc' = "climb" /\ UNCHANGED ip
tranRemote ==
    /\ Remote /\ ~Below(target, s)
    /\ TranUnchanged
    /\ IF PathFits(Len(Chain(target)))
       THEN /\ ExitSource /\ UNCHANGED asrt
            /\ t' = super[s]
            /\ ClimbTo(Chain(target), super[s])
       ELSE asrt' = "path" /\ UNCHANGED <<m_temp, pc, t, path, ip, history>>

\* (g) each source->super->super..., for each target->super...
climb ==
    /\ pc = "climb"
    /\ Exit(t)
    /\ \E r \in ExitReturns : t' = NextUp(t, r) /\ m_temp' = t'
    /\ ClimbTo(path, t')
    /\ TranUnchanged /\ UNCHANGED asrt

-----------------------------------------------------------------------------
Next == \/ \E x \in States : init(x) \/ drill(x) \/ take(x)
        \/ enter \/ arrive \/ settle \/ dispatch \/ pass \/ handle
        \/ exitToSource \/ tranSelf \/ tranDown \/ tranSibling \/ tranUp
        \/ tranFarDown \/ tranRemote \/ climb

Spec == Init /\ [][Next]_vars

\* The queries of a stable state machine.
isIn(x) == Find(Chain(m_temp), x) > 0
childState(parent) == Chain(m_state)[Find(Chain(m_state), parent) - 1]

-----------------------------------------------------------------------------
(***************************************************************************)
(* Properties.                                                             *)
(***************************************************************************)
\* The states that the machine is in when x is the current one.
Up(x) == {y \in States : Find(Chain(x), y) > 0}

\* A transition from x to y does not leave the innermost state that both are
\* in or equal to; a transition to itself leaves the state.
Common(x, y) == IF x = y THEN Up(x) \ {x} ELSE Up(x) \cap Up(y)

\* Between two events the states entered and not exited are exactly the
\* current state and its superstates, isIn() and childState() answer by them,
\* and the machine is ready for the next event.
StableConfiguration ==
    pc = "stable" => /\ entered = Up(m_state) /\ m_temp = m_state
                     /\ \A x \in States : isIn(x) <=> x \in entered
                     /\ \A p \in (entered \cup {top}) \ {m_state} :
                            childState(p) \in entered /\ super[childState(p)] = p

\* States are entered below a state that is entered, and once; they are exited
\* once, and after their substates.
EntryExitOrder == legal

\* When hsm_tran returns, exactly the states outside the innermost common
\* state of source and target have been exited, whichever of its cases (a) to
\* (g) applied, and entering the path leads to the target.
TransitionExact ==
    pc = "enter" => /\ kept = Common(s, target)
                    /\ entered \cup {path[i] : i \in 1 .. ip} = Up(target)

\* The entry path overflows only in a hierarchy that is too deep for it: below
\* top, one state less than MAX_NEST_DEPTH_ may be nested.
NoPathOverflow ==
    asrt # "none" => \E x \in States : Len(Chain(x)) > MAX_NEST_DEPTH_
=============================================================================
