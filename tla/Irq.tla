--------------------------------- MODULE Irq --------------------------------
(***************************************************************************)
(* Interrupt management (kern/irq.c) on one hart of the RISC-V machine,    *)
(* with its two controllers, the CLINT (hal/riscv64/rv64-clint.c) and the  *)
(* PLIC (hal/riscv64/rv64-plic.c).                                         *)
(*                                                                         *)
(* All of the state is the record q, and every function of the source is   *)
(* an operator from one such record to the next: a function that runs with *)
(* the interrupts disabled is one step of the machine.  A trap is a frame  *)
(* of q.frames; its pc says whether it looks for the line that is pending  *)
(* ("scan") or has called a handler ("handler").                           *)
(*                                                                         *)
(* The interrupt numbers are the ones of the source.  A handler stands for *)
(* the arguments with which a driver registers it.  The red-black tree of  *)
(* the lines is the sequence of its nodes in their order.                  *)
(***************************************************************************)
EXTENDS Integers, Sequences, SequencesExt, FiniteSets

CONSTANTS
    Lines,        \* the interrupt numbers in use
    Handlers,     \* the handlers of the drivers
    LineOf,       \* their interrupt lines,
    PrioOf,       \* priorities
    AttrOf,       \* and attributes: a subset of {"EXCLUSIVE", "NESTABLE", "EDGE"}
    SelfRemoving, \* the handlers that unregister themselves
    NULL

VARIABLE q

Ctrlrs == {"CLINT", "PLIC"}
MinIrq == [CLINT |-> 32, PLIC |-> 0]
MaxIrq == [CLINT |-> 34, PLIC |-> 32]     \* the largest number and one
PlicLines == {l \in Lines : l < MaxIrq.PLIC}
PLIC_PRIO_MIN == 1
PLIC_PRIO_MAX == 7
HasPriMask(c) == c = "PLIC"

\* queue_del, RB_REMOVE, list_del: the sequence without its element x.
Without(que, x) == RemoveAt(que, CHOOSE i \in DOMAIN que : que[i] = x)

(* irq_line_cmp puts the higher priority first.  A new node of the tree is *)
(* compared with the nodes that become its neighbours; with a node of the  *)
(* same priority it is not inserted.                                       *)
Before(s, l, m) == s.line[l].prio > s.line[m].prio
InsertPlaces(s, l) ==
    {i \in 1 .. Len(s.prio_que) + 1 :
       /\ i > 1 => Before(s, s.prio_que[i - 1], l)
       /\ i <= Len(s.prio_que) => Before(s, l, s.prio_que[i])}
RB_INSERT(s, l) ==
    [s EXCEPT !.prio_que = InsertAt(@, CHOOSE i \in InsertPlaces(s, l) : TRUE, l)]
RB_REMOVE(s, l) == [s EXCEPT !.prio_que = Without(@, l)]
EqualInTree(s, l) == \E m \in Range(s.prio_que) : s.line[m].prio = s.line[l].prio

irq_init ==
    [line    |-> [l \in Lines |-> [refs |-> 0, prio |-> 0, attr |-> {}, handlers |-> <<>>,
                                   ctrlr |-> NULL]],
     prio_que |-> <<>>, ctrlrs |-> <<>>, frames |-> <<>>, panic |-> FALSE,
     sie     |-> TRUE,                        \* SIE of sstatus
     stie    |-> FALSE,                       \* STIE and SSIE of sie
     stip    |-> FALSE, ssip |-> FALSE,       \* of sip
     pend    |-> {}, claimed |-> {},          \* the gateways of the PLIC
     enabled |-> {}, thr |-> 0,               \* its enable and threshold registers
     lprio   |-> [l \in PlicLines |-> 0]]     \* its priority registers

Panic(s) == [s EXCEPT !.panic = TRUE]

-----------------------------------------------------------------------------
(* The controllers.                                                        *)

clint_initialize(s) == [s EXCEPT !.stie = FALSE]
clint_config_irq(s) == [s EXCEPT !.stie = TRUE]
clint_irq_is_pending(s) == s.stip \/ s.ssip
\* A faulty variant: the line is not opened again.
clint_enable_irqNone(s) == s
clint_enable_irq(s) == [s EXCEPT !.stie = TRUE]
clint_disable_irq(s) == [s EXCEPT !.stie = FALSE]
clint_eoi(s) == [s EXCEPT !.ssip = FALSE]

plic_initialize(s) == [s EXCEPT !.lprio = [l \in PlicLines |-> 0]]
plic_config_irq_ok(attr, prio) == prio \in PLIC_PRIO_MIN..PLIC_PRIO_MAX /\ "EDGE" \in attr
plic_config_irq(s, l, prio) == [s EXCEPT !.lprio[l] = prio, !.enabled = @ \cup {l}]

\* What the hart would read from the claim register of the PLIC: 0 is no interrupt.
Claimable(s) == {l \in PlicLines : l \in s.pend \cap s.enabled /\ s.lprio[l] > s.thr}
ClaimReg(s) ==
    IF Claimable(s) = {} THEN 0
    ELSE CHOOSE l \in Claimable(s) : \A m \in Claimable(s) :
            s.lprio[l] > s.lprio[m] \/ (s.lprio[l] = s.lprio[m] /\ l <= m)
\* Reading the register claims the interrupt.
ReadClaim(s) ==
    [s EXCEPT !.pend = @ \ {ClaimReg(s)}, !.claimed = @ \cup (PlicLines \cap {ClaimReg(s)})]
plic_irq_is_pending(s, l) == ClaimReg(s) = l
plic_enable_irq(s, l) == [s EXCEPT !.enabled = {l}]
plic_disable_irq(s, l) == [s EXCEPT !.enabled = @ \ {l}]
plic_eoi(s, l) == [s EXCEPT !.claimed = @ \ {l}]

(* The functions of a controller; config_irq_ok is that config_irq returns *)
(* 0, after_is_pending what irq_is_pending leaves behind.                  *)
initialize(s, c) == IF c = "CLINT" THEN clint_initialize(s) ELSE plic_initialize(s)
config_irq_ok(c, attr, prio) == c = "CLINT" \/ plic_config_irq_ok(attr, prio)
config_irq(s, c, l, prio) == IF c = "CLINT" THEN clint_config_irq(s) ELSE plic_config_irq(s, l, prio)
irq_is_pending(s, l) ==
    IF s.line[l].ctrlr = "CLINT" THEN clint_irq_is_pending(s) ELSE plic_irq_is_pending(s, l)
after_is_pending(s, l) == IF s.line[l].ctrlr = "CLINT" THEN s ELSE ReadClaim(s)
enable_irq(s, c, l) == IF c = "CLINT" THEN clint_enable_irq(s) ELSE plic_enable_irq(s, l)
disable_irq(s, c, l) == IF c = "CLINT" THEN clint_disable_irq(s) ELSE plic_disable_irq(s, l)
eoi(s, c, l) == IF c = "CLINT" THEN clint_eoi(s) ELSE plic_eoi(s, l)
plic_set_priority(s, prio) == IF prio > PLIC_PRIO_MAX THEN s ELSE [s EXCEPT !.thr = prio]

-----------------------------------------------------------------------------
(* References to the lines.                                                *)

\* A faulty variant: a reference is not taken.
irqline_getNone(s, l) == s
irqline_get(s, l) == [s EXCEPT !.line[l].refs = IF @ = 0 THEN 0 ELSE @ + 1]

\* The last reference removes the line from the tree and closes it.
irqline_put(s, l) ==
    LET c  == s.line[l].ctrlr
        s1 == [s EXCEPT !.line[l].refs = @ - 1]
        s2 == RB_REMOVE(s1, l)
        s3 == IF HasPriMask(c) /\ s2.line[l].prio > s2.thr THEN plic_set_priority(s2, s2.line[l].prio) ELSE s2
    IN  CASE s.line[l].refs = 0 -> Panic(s)
          [] s.line[l].refs > 1 -> s1
          [] OTHER -> disable_irq(s3, c, l)

-----------------------------------------------------------------------------
(* Registration.                                                           *)

(* The first controller whose range has the number.  irq_ctrlr_cmp_by_irq  *)
(* asserts that the number is below max_irq, which it does not exclude.    *)
CtrlrsSeen(s, l) == {i \in DOMAIN s.ctrlrs : l \in MinIrq[s.ctrlrs[i]] .. MaxIrq[s.ctrlrs[i]]}
FirstSeen(s, l) == CHOOSE i \in CtrlrsSeen(s, l) : \A j \in CtrlrsSeen(s, l) : i <= j

\* A line without a handler: it enters the tree with the priority it had before.
first_handler(s, h, l, c) ==
    CASE EqualInTree(s, l) -> Panic(s)
      [] ~ EqualInTree(s, l) /\ ~ config_irq_ok(c, AttrOf[h], PrioOf[h]) ->
           RB_REMOVE(RB_INSERT(s, l), l)
      [] OTHER ->
           [config_irq(RB_INSERT(s, l), c, l, PrioOf[h])
            EXCEPT !.line[l] = [refs |-> 1, prio |-> PrioOf[h], attr |-> AttrOf[h],
                                handlers |-> <<h>>, ctrlr |-> c]]

\* Whether a handler may share the line with the ones that are there.
may_share(s, h, l) ==
    /\ ("EDGE" \in s.line[l].attr) = ("EDGE" \in AttrOf[h])
    /\ s.line[l].prio = PrioOf[h]
    /\ "EXCLUSIVE" \notin s.line[l].attr \cup AttrOf[h]

irq_register_handler(s, h) ==
    LET l == LineOf[h] IN
    IF CtrlrsSeen(s, l) = {} THEN s                               \* -ENOENT
    ELSE LET c == s.ctrlrs[FirstSeen(s, l)] IN
         CASE l = MaxIrq[c] -> Panic(s)
           [] l # MaxIrq[c] /\ s.line[l].handlers = <<>> -> first_handler(s, h, l, c)
           [] OTHER -> IF may_share(s, h, l)                      \* or -EINVAL, -EBUSY
                       THEN [s EXCEPT !.line[l].handlers = Append(@, h)] ELSE s

\* A faulty variant: the reference of the last handler is kept.
irq_unregister_handlerHeld(s, h) ==
    [s EXCEPT !.line[LineOf[h]].handlers = Without(@, h)]
irq_unregister_handler(s, h) ==
    LET l  == LineOf[h]
        s1 == [s EXCEPT !.line[l].handlers = Without(@, h)]
    IN CASE s.line[l].ctrlr = NULL -> Panic(s)
         [] ~ Contains(s.line[l].handlers, h) -> s                \* -ENOENT
         [] OTHER -> IF s1.line[l].handlers = <<>> THEN irqline_put(s1, l) ELSE s1

\* The test for overlapping numbers, and what it misses: equal upper ends.
Overlap(a, b) ==
    \/ MinIrq[a] <= MinIrq[b] /\ MinIrq[b] < MaxIrq[a]
    \/ MinIrq[a] < MaxIrq[b] /\ MaxIrq[b] < MaxIrq[a]
    \/ MinIrq[a] <= MinIrq[b] /\ MaxIrq[b] < MaxIrq[a]
    \/ MinIrq[b] <= MinIrq[a] /\ MaxIrq[a] < MaxIrq[b]
irq_register_ctrlr(s, c) ==
    IF Contains(s.ctrlrs, c) \/ \E i \in DOMAIN s.ctrlrs : Overlap(c, s.ctrlrs[i]) THEN s  \* -EBUSY
    ELSE [initialize(s, c) EXCEPT !.ctrlrs = Append(@, c)]

(* nr_handlers is only ever decremented, so a controller is never found    *)
(* busy; initialize and finalize do the same.                              *)
irq_unregister_ctrlr(s, c) ==
    IF ~ Contains(s.ctrlrs, c) THEN s
    ELSE initialize([s EXCEPT !.ctrlrs = Without(@, c)], c)

-----------------------------------------------------------------------------
(* Traps.                                                                  *)

Top(s) == Last(s.frames)
SetTop(s, f) == [s EXCEPT !.frames[Len(s.frames)] = f]
InThread == q.frames = <<>>

\* RB_FOREACH_REVERSE: the last line of the tree, and the one before a line.
LastLine(s) == IF s.prio_que = <<>> THEN NULL ELSE Last(s.prio_que)
PrevLine(s, l) ==
    LET i == CHOOSE j \in DOMAIN s.prio_que : s.prio_que[j] = l
    IN  IF i = 1 THEN NULL ELSE s.prio_que[i - 1]

\* The hart takes a trap: an interrupt is pending, opened and not masked.
TrapPending(s) == (s.stie /\ (s.stip \/ s.ssip)) \/ Claimable(s) # {}
supervisor_trap_vector ==
    /\ ~ q.panic /\ q.sie /\ TrapPending(q)
    /\ q' = [q EXCEPT !.sie = FALSE,
                      !.frames = Append(@, [pc |-> "scan", line |-> LastLine(q),
                                            ent |-> NULL, prio |-> 0])]

\* The end of a trap: sstatus is what it was when the trap was taken.
rv64_return_from_trap(s) == [s EXCEPT !.frames = Front(@), !.sie = TRUE]

(* The end of handle_irq_line and of the round of irq_handle_irq that      *)
(* found it.                                                               *)
finish_irq_line(s, f) ==
    LET c  == s.line[f.line].ctrlr
        s1 == irqline_put(irqline_put(s, f.line), f.line)
        s2 == enable_irq(s1, c, f.line)
        s3 == IF HasPriMask(c) THEN plic_set_priority(s2, f.prio) ELSE s2
    IN  rv64_return_from_trap(irqline_put(s3, f.line))

\* Calls the handler ent, or ends when there is none left.
call_handler(s, f, ent) ==
    IF ent = NULL THEN finish_irq_line(s, f)
    ELSE [SetTop(s, [f EXCEPT !.pc = "handler", !.ent = ent])
          EXCEPT !.sie = "NESTABLE" \in s.line[f.line].attr]

\* A faulty variant: the threshold of the controller stays as it is.
mask_priorityNone(s, c, l) == s
mask_priority(s, c, l) == IF HasPriMask(c) THEN plic_set_priority(s, s.line[l].prio) ELSE s

handle_irq_line(s, f) ==
    LET l  == f.line
        c  == s.line[l].ctrlr
        s1 == mask_priority(irqline_get(s, l), c, l)
        s2 == irqline_get(eoi(disable_irq(s1, c, l), c, l), l)
        hs == s.line[l].handlers
    IN  call_handler(s2, [f EXCEPT !.prio = s.thr], IF hs = <<>> THEN NULL ELSE Head(hs))

\* One round of the loop of irq_handle_irq, for the line of the frame.
irq_handle_irq ==
    /\ ~ q.panic /\ ~ InThread /\ Top(q).pc = "scan"
    /\ LET f  == Top(q)
           s1 == after_is_pending(irqline_get(q, f.line), f.line)
       IN q' = IF f.line = NULL THEN rv64_return_from_trap(q)
               ELSE IF irq_is_pending(q, f.line) THEN handle_irq_line(s1, f)
               ELSE SetTop(irqline_put(s1, f.line), [f EXCEPT !.line = PrevLine(q, f.line)])

\* The handler that follows h in the queue of the line.
NextHandler(s, l, h) ==
    LET hs == s.line[l].handlers
        i  == CHOOSE j \in DOMAIN hs : hs[j] = h
    IN  IF i = Len(hs) THEN NULL ELSE hs[i + 1]

\* invoke_irq_handler after the handler returned.
HandlerReturns(s, handled) ==
    LET f  == Top(s)
        s1 == [s EXCEPT !.sie = FALSE]
    IN  call_handler(s1, f, IF handled THEN NULL ELSE NextHandler(s, f.line, f.ent))

Returning(h) == ~ q.panic /\ ~ InThread /\ Top(q).pc = "handler" /\ Top(q).ent = h

(* A device handler: the interrupt was for its device or not; one that     *)
(* removes itself does so when it was.                                     *)
device_handler(h) ==
    /\ Returning(h)
    /\ \/ q' = HandlerReturns(q, TRUE)
       \/ q' = HandlerReturns(q, FALSE)
       \/ h \in SelfRemoving /\ q' = HandlerReturns(irq_unregister_handler(q, h), TRUE)

-----------------------------------------------------------------------------
\* A device raises its line; the gateway takes one request until it is completed.
RaiseIrq(l) ==
    /\ l \in PlicLines \ (q.pend \cup q.claimed)
    /\ q' = [q EXCEPT !.pend = @ \cup {l}]

\* The tick of the machine mode timer.
machine_mode_vector(s) == [s EXCEPT !.stip = TRUE, !.ssip = TRUE]
=============================================================================
