----------------------------- MODULE Interrupts -----------------------------
(***************************************************************************)
(* The interrupts of the machine, composed: the traps of Irq, the timer    *)
(* handler (hal/riscv64/rv64-timer.c), the callouts that run in it and the *)
(* threads that register handlers and arm callouts.                        *)
(*                                                                         *)
(* The timer handler is not nestable: nothing but the machine mode timer   *)
(* and the devices moves while it runs.                                    *)
(***************************************************************************)
EXTENDS Irq, Callout

CONSTANTS
    Timer, Uart,   \* the handlers that hal_platform_init registers
    MaxLag,        \* lag is counted up to here
    MaxRaises,     \* bound: how often the devices raise their lines
    MaxArms        \* bound: how often callouts are armed

ASSUME InterruptsAssumption ==
    MaxLag \in Nat /\ MaxLag >= 2 /\ Timer \in Handlers /\ Uart \in Handlers \ {Timer}

(* Interrupt numbers are positive.  The timer has line CLINT_TIMER_IRQ and *)
(* priority CLINT_TIMER_PRIO, above those of the PLIC (rv64-clint.h), is   *)
(* not nestable, and is the only handler at the CLINT.  Two lines never    *)
(* have the same priority: irq_register_handler asserts that RB_INSERT     *)
(* finds none equal, so drivers have to ask for different ones.            *)
ASSUME PlatformAssumption ==
    /\ Lines \subseteq Nat \ {0} /\ NULL \notin Lines /\ NULL \notin Handlers /\ NULL \notin Ctrlrs
    /\ LineOf \in [Handlers -> Lines] /\ PrioOf \in [Handlers -> Nat]
    /\ AttrOf \in [Handlers -> SUBSET {"EXCLUSIVE", "NESTABLE", "EDGE"}]
    /\ LineOf[Timer] = MinIrq.CLINT /\ PrioOf[Timer] > PLIC_PRIO_MAX /\ "NESTABLE" \notin AttrOf[Timer]
    /\ \A h \in Handlers \ {Timer} : LineOf[h] \in PlicLines
    /\ \A g, h \in Handlers :
          /\ plic_config_irq_ok(AttrOf[g], PrioOf[g]) /\ plic_config_irq_ok(AttrOf[h], PrioOf[h])
          /\ PrioOf[g] = PrioOf[h]
          => LineOf[g] = LineOf[h]

VARIABLES
    lag,           \* history: the ticks of the machine that wall has not counted
    requests,      \* how many requests of devices or of users are still to come
    load           \* which part of the machine is active beside the timer

vars == <<q, coVars, lag, requests, load>>

rv64_clint_init(s) == irq_register_ctrlr(s, "CLINT")
rv64_plic_init(s) == irq_register_ctrlr(s, "PLIC")
rv64_timer_init(s) == irq_register_handler(s, Timer)
uart_rxintr_enable(s) == irq_register_handler(s, Uart)
hal_platform_init == uart_rxintr_enable(rv64_timer_init(rv64_plic_init(rv64_clint_init(irq_init))))

Init ==
    /\ q = hal_platform_init /\ tim_callout_init /\ lag = 0
    /\ \/ load = "devices" /\ requests = MaxRaises
       \/ load = "callouts" /\ requests = MaxArms

-----------------------------------------------------------------------------
\* The machine mode timer interrupts everything.
Tick ==
    /\ q' = machine_mode_vector(q)
    /\ lag' = IF lag < MaxLag THEN lag + 1 ELSE lag
    /\ UNCHANGED <<coVars, requests>>

Raise(l) == requests > 0 /\ RaiseIrq(l) /\ requests' = requests - 1 /\ UNCHANGED <<coVars, lag>>

Trap == supervisor_trap_vector /\ UNCHANGED <<coVars, lag, requests>>
Scan == irq_handle_irq /\ UNCHANGED <<coVars, lag, requests>>
Device(h) == device_handler(h) /\ UNCHANGED <<coVars, lag, requests>>

TimerWallTime ==
    /\ Returning(Timer) /\ tim_update_walltime
    /\ lag' = lag - 1
    /\ UNCHANGED <<q, requests>>
TimerInvoke == Returning(Timer) /\ invoke_callout /\ UNCHANGED <<q, lag, requests>>
TimerCalloutReturns == Returning(Timer) /\ callout_returns /\ UNCHANGED <<q, lag, requests>>

\* A faulty variant: the timer handler leaves its pending bit.
clear_stipNone(s) == s
clear_stip(s) == [s EXCEPT !.stip = FALSE]
rv64_timer_handler ==
    /\ Returning(Timer) /\ inv.pc = "done"
    /\ q' = HandlerReturns(clear_stip(q), TRUE)
    /\ inv' = [inv EXCEPT !.pc = "idle"]
    /\ UNCHANGED <<wall, cq, ent, handle, ran, lag, requests>>

\* Threads run when there is no trap; a callout may arm or cancel as well.
MayCallTimer == IF InThread THEN q.sie ELSE Returning(Timer) /\ inv.pc = "call"
Arm(u) ==
    /\ MayCallTimer /\ requests > 0
    /\ \E rel \in 0..MaxRel : tim_callout_add(u, rel)
    /\ requests' = requests - 1
    /\ UNCHANGED <<q, lag>>
Cancel(u) == MayCallTimer /\ tim_callout_cancel(u) /\ UNCHANGED <<q, lag, requests>>

Register(h) == InThread /\ q' = irq_register_handler(q, h) /\ UNCHANGED <<coVars, lag, requests>>
Unregister(h) == InThread /\ q' = irq_unregister_handler(q, h) /\ UNCHANGED <<coVars, lag, requests>>
ReplugPlic ==
    /\ InThread
    /\ q' = IF Contains(q.ctrlrs, "PLIC") THEN irq_unregister_ctrlr(q, "PLIC") ELSE irq_register_ctrlr(q, "PLIC")
    /\ UNCHANGED <<coVars, lag, requests>>

TimerStep == TimerWallTime \/ TimerInvoke \/ TimerCalloutReturns \/ rv64_timer_handler
Drivers == Handlers \ {Timer}

\* A driver registers its handler once and removes it only while it is registered.
Registered(h) == h \in Range(q.line[LineOf[h]].handlers)
Devices ==
    \/ ReplugPlic
    \/ \E l \in PlicLines : Raise(l)
    \/ \E h \in Drivers : Device(h)
    \/ \E h \in Drivers : IF Registered(h) THEN Unregister(h) ELSE Register(h)

Callers == \E u \in Users : Arm(u) \/ Cancel(u)

(* Next to the timer, either the devices and their drivers are busy or the *)
(* users of callouts are: both at a time is more than TLC can explore.     *)
Next ==
    /\ \/ Tick \/ Trap \/ Scan \/ TimerStep
       \/ load = "devices" /\ Devices
       \/ load = "callouts" /\ Callers
    /\ UNCHANGED load

(* The clock keeps ticking, the hart takes its traps, and code runs on; a  *)
(* handler returns.                                                        *)
Fairness ==
    /\ WF_vars(Tick /\ UNCHANGED load)
    /\ WF_vars(Trap /\ UNCHANGED load)
    /\ WF_vars((Scan \/ TimerStep \/ \E h \in Drivers : Device(h)) /\ UNCHANGED load)

Spec == Init /\ [][Next]_vars /\ Fairness

-----------------------------------------------------------------------------
FramesOf(l) == {i \in DOMAIN q.frames : q.frames[i].pc = "handler" /\ q.frames[i].line = l}

(* The references to a line are the one of its handlers and three for each *)
(* trap that serves it; the tree holds exactly the lines with references,  *)
(* whatever priority they entered it with; and a line nobody refers to is  *)
(* closed at its controller.  No assertion on them has failed.             *)
LineRefsExact ==
    ~ q.panic /\ \A l \in Lines :
       LET n == q.line[l].refs IN
       /\ n = (IF q.line[l].handlers = <<>> THEN 0 ELSE 1) + 3 * Cardinality(FramesOf(l))
       /\ (l \in Range(q.prio_que)) = (n > 0)
       /\ n = 0 => l \notin q.enabled

(* A trap interrupts the handler of a device only for a device of higher   *)
(* priority or for the timer, so that no line is served twice at a time.   *)
NestingRises ==
    \A i, j \in DOMAIN q.frames :
       LET p(k) == q.line[q.frames[k].line].prio
       IN  i < j /\ q.frames[i].pc = "handler" /\ q.frames[j].pc = "handler" => p(i) < p(j)

(* The wall time is never ahead of the timer: no tick is counted twice,    *)
(* though the tick sets two pending bits that two functions clear.         *)
WallTimeNeverAhead == lag >= 0

(* Once the devices are quiet and nobody arms more callouts, each callout  *)
(* that is armed runs or is cancelled, wherever the sorted insertion has   *)
(* put it in the queue.                                                    *)
CalloutEventuallyRuns == \A u \in Users : Armed(u) ~> ~ Armed(u)
=============================================================================
