-------------------------------- MODULE Idle --------------------------------
(***************************************************************************)
(* The tickless idle loop of sched_pick_next_runnable: how the kernel goes *)
(* to sleep in wfi and what wakes it.  Module ProcSched takes a turn of    *)
(* this loop as one step; here it is taken apart, down to the instructions *)
(* between which an interrupt can arrive.                                  *)
(*                                                                         *)
(* Two processes stand for all: one that sleeps (nanosleep) and one that   *)
(* reads the console.  Either may be absent.  Time is counted in timer     *)
(* ticks, and deadlines as the ticks left.                                 *)
(***************************************************************************)
EXTENDS Integers

CONSTANTS
    MaxSleep,   \* longest sleep
    PollTicks,  \* CONSOLE_IN_POLL_INTERVAL_NS
    TickPeriod, \* the periodic tick of time_tick_init
    RingCap,    \* bytes the console ring holds
    FifoCap     \* bytes the UART receive FIFO holds

IdleAssumption ==
    /\ MaxSleep \in Nat \ {0} /\ PollTicks \in Nat \ {0}
    /\ TickPeriod \in Nat \ {0}
    /\ RingCap \in Nat \ {0} /\ FifoCap \in Nat \ {0}

VARIABLES
    polling,   \* console_in_needs_polling(): built with USB keyboard or net
    pc,        \* where the kernel is
    ret,       \* where the interrupt handler returns to
    sleeper,   \* the sleeping process: "none", "awake" or "asleep"
    left,      \* ticks to its deadline
    reader,    \* the reading process: "none", "awake" or "blocked"
    ring,      \* bytes in the console ring
    fifo,      \* bytes in the UART receive FIFO
    rx_irq,    \* the UART's receive interrupt is raised
    usb,       \* bytes the USB keyboard has for us
    next_poll, \* ticks to g_next_poll_ns
    mode,      \* g_tick_mode
    tval       \* CNTP_TVAL: ticks until the timer interrupt, 0 when raised

procVars  == <<sleeper, left, reader>>
inputVars == <<ring, fifo, rx_irq, usb, next_poll>>
timerVars == <<mode, tval>>
idleVars == <<polling, pc, ret, procVars, inputVars, timerVars>>

Smaller(a, b) == IF a <= b THEN a ELSE b
Larger(a, b)  == IF a >= b THEN a ELSE b

IdleInit ==
    /\ polling \in BOOLEAN
    /\ pc = "run"
    /\ ret = "enabled"
    /\ sleeper \in {"none", "awake"}
    /\ reader \in {"none", "awake"}
    /\ sleeper = "awake" \/ reader = "awake"
    /\ left = 0
    /\ ring = 0 /\ fifo = 0 /\ rx_irq = FALSE /\ usb = 0
    /\ next_poll = 0
    /\ mode = "periodic"
    /\ tval = TickPeriod

-----------------------------------------------------------------------------
(* Processes, and the pass over them that precedes every idle turn.        *)

UsbDue == polling /\ next_poll = 0

\* console_in_poll: drain the UART, and the keyboard when its poll is due.
PolledRing == Smaller(ring + fifo + (IF UsbDue THEN usb ELSE 0), RingCap)

console_in_poll ==
    /\ fifo' = 0
    /\ rx_irq' = FALSE
    /\ usb' = IF UsbDue THEN 0 ELSE usb
    /\ next_poll' = IF UsbDue THEN PollTicks ELSE next_poll

\* A system call that does not block, and the yield at its end.
Yield ==
    /\ pc = "run"
    /\ pc' = "scan"
    /\ UNCHANGED <<polling, ret, procVars, inputVars, timerVars>>

sys_nanosleep(ticks) ==
    /\ pc = "run"
    /\ sleeper = "awake"
    /\ sleeper' = "asleep"
    /\ left' = ticks
    /\ pc' = "scan"
    /\ UNCHANGED <<polling, ret, reader, inputVars, timerVars>>

\* A read takes one byte; it blocks the process when there is none.
sys_read ==
    /\ pc = "run"
    /\ reader = "awake"
    /\ console_in_poll
    /\ ring' = Larger(PolledRing - 1, 0)
    /\ reader' = IF PolledRing > 0 THEN "awake" ELSE "blocked"
    /\ pc' = "scan"
    /\ UNCHANGED <<polling, ret, sleeper, left, timerVars>>

\* Mutation: sleepers have to wait for a pass without input.
SleeperDue_AfterInput == sleeper = "asleep" /\ left = 0 /\ PolledRing = 0

\* sched_wake_sleepers.
SleeperDue == sleeper = "asleep" /\ left = 0

\* sched_wake_one_console_reader_if_ready.
ReaderDue == reader = "blocked" /\ PolledRing > 0

\* One pass: poll, wake the sleeper and the reader, run whoever is runnable.
Pass ==
    /\ pc = "scan"
    /\ console_in_poll
    /\ sleeper' = IF SleeperDue THEN "awake" ELSE sleeper
    /\ reader' = IF ReaderDue THEN "awake" ELSE reader
    /\ ring' = IF ReaderDue THEN PolledRing - 1 ELSE PolledRing
    /\ pc' = IF sleeper' = "awake" \/ reader' = "awake"
             THEN "run" ELSE "program"
    /\ UNCHANGED <<polling, ret, left, timerVars>>

-----------------------------------------------------------------------------
(* Going idle.                                                             *)

\* Mutation: the poll deadline is forgotten while a process sleeps.
WakeIn_NoPoll == IF sleeper = "asleep" THEN left ELSE next_poll

\* Ticks to the earliest of the sleep deadline and the next USB poll.
WakeIn ==
    IF sleeper = "asleep"
    THEN IF polling THEN Smaller(left, next_poll) ELSE left
    ELSE next_poll

\* Mutation: always keep a tick.
TickNeeded_Always == TRUE

\* Mutation: polled devices do not need the timer while nobody sleeps.
TickNeeded_SleepOnly == sleeper = "asleep"

\* Unless only the UART can wake us, the timer must.
TickNeeded == sleeper = "asleep" \/ polling

\* The conversion from nanoseconds to ticks rounds down, but never to zero.
time_tick_schedule_oneshot_ns(ticks) ==
    /\ mode' = "oneshot"
    /\ \E lost \in {0, 1} : tval' = Larger(ticks - lost, 1)

time_tick_disable == mode' = "disabled" /\ tval' = 0

Program ==
    /\ pc = "program"
    /\ pc' = "irqs_off"
    /\ \/ ~TickNeeded /\ time_tick_disable
       \/ TickNeeded /\ time_tick_schedule_oneshot_ns(WakeIn)
    /\ UNCHANGED <<polling, ret, procVars, inputVars>>

irq_enable ==
    /\ pc = "irqs_off"
    /\ pc' = "enabled"
    /\ UNCHANGED <<polling, ret, procVars, inputVars, timerVars>>

\* wfi: with an interrupt already raised it falls through to TakeIrq.
cpu_wfi ==
    /\ pc = "enabled"
    /\ pc' = "wfi"
    /\ UNCHANGED <<polling, ret, procVars, inputVars, timerVars>>

irq_disable ==
    /\ pc = "awake"
    /\ pc' = "scan"
    /\ UNCHANGED <<polling, ret, procVars, inputVars, timerVars>>

-----------------------------------------------------------------------------
(* Interrupts: unmasked from irq_enable to irq_disable only.               *)

TimerPending == mode # "disabled" /\ tval = 0
Pending == TimerPending \/ rx_irq

\* time_tick_handle_irq: a one-shot that fired is disabled, a periodic tick
\* is armed again.
ModeAfterIrq == IF TimerPending /\ mode = "oneshot" THEN "disabled" ELSE mode
TvalAfterIrq == IF TimerPending /\ mode = "periodic" THEN TickPeriod ELSE tval

\* irq_handle, up to the last read of the UART FIFO.  The timer interrupt
\* also polls USB.  Taken before the wfi, it returns to the wfi.
TakeIrq ==
    /\ pc \in {"enabled", "wfi", "awake"}
    /\ Pending
    /\ ret' = IF pc = "enabled" THEN "enabled" ELSE "awake"
    /\ mode' = ModeAfterIrq
    /\ tval' = TvalAfterIrq
    /\ LET keys == IF TimerPending /\ polling THEN usb ELSE 0
           recv == IF rx_irq THEN fifo ELSE 0
       IN  /\ usb' = usb - keys
           /\ fifo' = fifo - recv
           /\ ring' = Smaller(ring + keys + recv, RingCap)
    /\ pc' = IF rx_irq THEN "ack" ELSE ret'
    /\ UNCHANGED <<polling, procVars, rx_irq, next_poll>>

\* uart_irq_handle_rx ends by clearing the receive interrupt.
AckUart ==
    /\ pc = "ack"
    /\ rx_irq' = FALSE
    /\ pc' = ret
    /\ UNCHANGED <<polling, ret, procVars, ring, fifo, usb, next_poll, timerVars>>

-----------------------------------------------------------------------------
(* The environment.                                                        *)

Down(n) == Larger(n - 1, 0)

Tick ==
    /\ \/ sleeper = "asleep" /\ left > 0
       \/ next_poll > 0
       \/ tval > 0
    /\ left' = IF sleeper = "asleep" THEN Down(left) ELSE left
    /\ next_poll' = Down(next_poll)
    /\ tval' = Down(tval)
    /\ UNCHANGED <<polling, pc, ret, sleeper, reader, ring, fifo, rx_irq, usb, mode>>

\* The UART raises its interrupt whenever a byte arrives.  A byte takes far
\* longer than the interrupt handler: at most one arrives before its end.
UartRx ==
    /\ fifo < FifoCap
    /\ pc = "ack" => fifo = 0
    /\ fifo' = fifo + 1
    /\ rx_irq' = TRUE
    /\ UNCHANGED <<polling, pc, ret, procVars, ring, usb, next_poll, timerVars>>

KeyPress ==
    /\ polling /\ usb = 0
    /\ usb' = 1
    /\ UNCHANGED <<polling, pc, ret, procVars, ring, fifo, rx_irq, next_poll,
                    timerVars>>

Process == Yield \/ sys_read \/ \E t \in 1 .. MaxSleep : sys_nanosleep(t)
Kernel  == \/ Pass \/ Program \/ irq_enable \/ cpu_wfi \/ irq_disable
           \/ TakeIrq \/ AckUart
IdleNext == Process \/ Kernel \/ Tick \/ UartRx \/ KeyPress

IdleSpec == IdleInit /\ [][IdleNext]_idleVars

\* The CPU and the clock do not stop, and programs come back to the kernel.
\* Interrupts come at the pace of a serial line, so they cannot keep a single
\* instruction from being reached for ever (the strong fairness of the two
\* instructions that an interrupt can precede).  Nothing obliges anyone to type.
IdleFairSpec ==
    /\ IdleSpec
    /\ WF_idleVars(Process) /\ WF_idleVars(Kernel) /\ WF_idleVars(Tick)
    /\ SF_idleVars(cpu_wfi) /\ SF_idleVars(irq_disable)

-----------------------------------------------------------------------------
(* Properties.                                                             *)

\* Every variable keeps its type; in particular no counter leaves its range.
IdleTypeOK ==
    /\ polling \in BOOLEAN
    /\ pc \in {"run", "scan", "program", "irqs_off", "enabled", "wfi",
               "awake", "ack"}
    /\ ret \in {"enabled", "awake"}
    /\ sleeper \in {"none", "awake", "asleep"}
    /\ left \in 0 .. MaxSleep
    /\ reader \in {"none", "awake", "blocked"}
    /\ ring \in 0 .. RingCap
    /\ fifo \in 0 .. FifoCap
    /\ rx_irq \in BOOLEAN
    /\ usb \in 0 .. 1
    /\ next_poll \in 0 .. PollTicks
    /\ mode \in {"periodic", "oneshot", "disabled"}
    /\ tval \in 0 .. Larger(TickPeriod, Larger(MaxSleep, PollTicks))

\* Between the programming of the timer and the end of the wfi, also in an
\* interrupt handler that will return there.
Waiting == pc \in {"irqs_off", "enabled", "wfi"} \/ (pc = "ack" /\ ret = "enabled")

\* While the kernel waits, a timer that is armed fires no later than the
\* sleeper's deadline and no later than the next USB poll, give or take the
\* one tick that is the shortest delay (sched_pick_next_runnable's choice of
\* wake_ns, kept true by the clock and by the interrupt handler).
NeverLate ==
    Waiting /\ mode # "disabled" =>
        /\ sleeper = "asleep" => tval <= Larger(left, 1)
        /\ polling => tval <= Larger(next_poll, 1)

\* While the kernel waits and needs the timer, the timer is armed, and not
\* for earlier than the tick before the first deadline; or else it has been
\* armed and gave its interrupt after irq_enable, with at most that tick to
\* go, so that it was for the deadline and not for something earlier.
Armed ==
    Waiting /\ TickNeeded =>
        \/ mode = "oneshot" /\ WakeIn <= tval + 1
        \/ mode = "disabled" /\ WakeIn <= 1 /\ pc # "irqs_off"

\* "blocked stdin can be truly tickless when only UART input is relevant"
\* (docs/idle.md): with nobody asleep and no polled device, the timer never
\* interrupts the idle CPU, whatever was armed before.
Tickless ==
    pc \in {"enabled", "wfi", "awake"} /\ sleeper # "asleep" /\ ~polling =>
        ~TimerPending

\* The timer is armed when a sleeper or a poll needs it, for the first of them,
\* neither late nor early, and only then.  (That the one interrupt it gives can
\* come before the wfi and be used up there is what DeadlineWakes is about.)
TimerRight == Armed /\ NeverLate /\ Tickless

\* Waking goes with running: a process that has work is let run, provided the
\* user keeps typing.  So an idle CPU that missed an interrupt catches up with
\* the next one.
RecoversOnInput ==
    []<><<UartRx>>_idleVars =>
        /\ (sleeper = "asleep") ~> (sleeper = "awake")
        /\ (reader = "blocked") ~> (reader = "awake")

\* "UART input is IRQ-driven and can wake the kernel immediately" (docs/idle.md):
\* the CPU does not stay in wfi while the ring holds what a blocked reader
\* waits for, unless an interrupt is on its way.
InputWakes == pc = "wfi" /\ reader = "blocked" /\ ring > 0 => Pending

\* "Deadline already passed; handle it on the next loop" (sched.c): the CPU
\* does not stay in wfi with a sleeper whose deadline has passed unless an
\* interrupt is on its way.
DeadlineWakes ==
    pc = "wfi" /\ sleeper = "asleep" /\ left = 0 =>
        Pending \/ mode # "disabled"
=============================================================================
