----------------------------- MODULE Interrupts -----------------------------
(***************************************************************************)
(* The boot thread (ksetup in src/arch/x86/mod.rs, setup_paging in         *)
(* src/arch/x86/paging/mod.rs), the interrupt handlers it sets up          *)
(* (src/arch/x86/interrupts.rs) and the console both print to under the    *)
(* spin lock WRITER (src/arch/x86/early_logger.rs), on one processor with  *)
(* an 8259 interrupt controller.                                           *)
(*                                                                         *)
(* The boot thread is a fixed sequence of steps.  A handler interrupts it  *)
(* between any two steps and runs on its stack, so the boot thread goes on *)
(* only when the handler has returned.                                     *)
(***************************************************************************)
EXTENDS Integers, Sequences

CONSTANTS
  Irqs       \* the lines devices raise: 0 timer, 1 keyboard, ...

ASSUME IrqsAssumption == Irqs \subseteq 0 .. 15

VARIABLES
  step,      \* the index of the boot thread's step in Boot
  at,        \* where inside that step it is
  handler,   \* the handler running on top of it
  intr,      \* the IF flag of the processor
  idt,       \* the IDT is filled and loaded
  remapped,  \* the interrupt controller is programmed
  irr,       \* lines raised and not delivered
  isr,       \* lines in service: delivered, no EOI yet
  writer,    \* who holds WRITER
  screen,    \* messages on the screen
  last       \* the last of them

vars == <<step, at, handler, intr, idt, remapped, irr, isr, writer, screen,
          last>>
pic == <<irr, isr>>
console == <<writer, screen, last>>

(***************************************************************************)
(* What the boot thread does, in order; prints with nothing but memory     *)
(* accesses between them are one.  "check" may panic: the multiboot magic  *)
(* and information, the memory map, map_alloc and unmap_free.              *)
(***************************************************************************)
Boot == <<
  [op |-> "print", msg |-> "hello"],
  [op |-> "idt",   msg |-> "none"],
  [op |-> "pic",   msg |-> "none"],
  [op |-> "sti",   msg |-> "none"],
  [op |-> "print", msg |-> "IDT is setup"],
  [op |-> "check", msg |-> "none"],
  [op |-> "print", msg |-> "total memory"],
  [op |-> "check", msg |-> "none"],
  [op |-> "print", msg |-> "Mapped!"],
  [op |-> "check", msg |-> "none"],
  [op |-> "print", msg |-> "You should see a page fault"],
  [op |-> "fault", msg |-> "none"] >>

Now == Boot[step]

NoHandler == [vector |-> 0, irq |-> -1, at |-> "none"]

Running == handler = NoHandler   \* the boot thread has the processor

Init ==
  /\ step = 1 /\ at = "start"
  /\ handler = NoHandler
  /\ intr = FALSE /\ idt = FALSE /\ remapped = FALSE
  /\ irr = {} /\ isr = {}
  /\ writer = "free" /\ screen = {} /\ last = "none"

-----------------------------------------------------------------------------
(***************************************************************************)
(* _print: take WRITER, write, release it.  lock() spins while it is held. *)
(***************************************************************************)
Acquire(who) == writer = "free" /\ writer' = who /\ UNCHANGED <<screen, last>>
Put(m) == screen' = screen \cup {m} /\ last' = m /\ UNCHANGED writer
Release == writer' = "free" /\ UNCHANGED <<screen, last>>

Advance == step' = step + 1 /\ at' = "start"

BootPrint ==
  /\ Running /\ Now.op = "print"
  /\ UNCHANGED <<handler, intr, idt, remapped, pic>>
  /\ \/ at = "start" /\ Acquire("boot") /\ at' = "write" /\ UNCHANGED step
     \/ at = "write" /\ Put(Now.msg) /\ at' = "unlock" /\ UNCHANGED step
     \/ at = "unlock" /\ Release /\ Advance

(* Mutant: interrupts are enabled before the PIC is programmed.            *)
SetupIdt_Enables ==
  /\ Running /\ Now.op = "idt"
  /\ idt' = TRUE /\ intr' = TRUE
  /\ Advance
  /\ UNCHANGED <<handler, remapped, pic, console>>

(* interrupts::setup: the IDT, the interrupt controllers, sti.             *)
SetupIdt ==
  /\ Running /\ Now.op = "idt"
  /\ idt' = TRUE
  /\ Advance
  /\ UNCHANGED <<handler, intr, remapped, pic, console>>

SetupPic ==
  /\ Running /\ Now.op = "pic"
  /\ remapped' = TRUE
  /\ Advance
  /\ UNCHANGED <<handler, intr, idt, pic, console>>

Enable ==
  /\ Running /\ Now.op = "sti"
  /\ intr' = TRUE
  /\ Advance
  /\ UNCHANGED <<handler, idt, remapped, pic, console>>

CheckPasses ==
  /\ Running /\ Now.op = "check" /\ at = "start"
  /\ Advance
  /\ UNCHANGED <<handler, intr, idt, remapped, pic, console>>

CheckFails ==
  /\ Running /\ Now.op = "check" /\ at = "start"
  /\ at' = "panic"
  /\ UNCHANGED <<step, handler, intr, idt, remapped, pic, console>>

(* Mutant: _panic releases WRITER.                                         *)
BootPanic_Releases ==
  /\ Running
  /\ UNCHANGED <<step, handler, idt, remapped, pic>>
  /\ \/ at = "panic" /\ Acquire("boot") /\ at' = "report" /\ UNCHANGED intr
     \/ at = "report" /\ screen' = screen \cup {"panic"} /\ last' = "panic" /\ writer' = "free"
          /\ at' = "cli" /\ UNCHANGED intr
     \/ at = "cli" /\ intr' = FALSE /\ at' = "halt" /\ UNCHANGED console

(* _panic in the boot thread: lock, write, cli, loop; WRITER stays locked. *)
BootPanic ==
  /\ Running
  /\ UNCHANGED <<step, handler, idt, remapped, pic>>
  /\ \/ at = "panic" /\ Acquire("boot") /\ at' = "report" /\ UNCHANGED intr
     \/ at = "report" /\ Put("panic") /\ at' = "cli" /\ UNCHANGED intr
     \/ at = "cli" /\ intr' = FALSE /\ at' = "halt" /\ UNCHANGED console

-----------------------------------------------------------------------------
(***************************************************************************)
(* The interrupt controller.  Lines 8-15 come through line 2 of the        *)
(* master.  Before it is programmed it raises the BIOS's vectors.          *)
(***************************************************************************)
Priority(i) == IF i < 2 THEN i ELSE IF i < 8 THEN i + 8 ELSE i - 6

Deliverable(i) ==
  /\ i \in irr
  /\ \A j \in isr : Priority(i) < Priority(j)
  /\ \A j \in irr : Priority(i) <= Priority(j)

Vector(i) ==
  IF remapped THEN 32 + i ELSE IF i < 8 THEN 8 + i ELSE 112 + i - 8

Raise(i) ==
  /\ i \notin irr
  /\ irr' = irr \cup {i}
  /\ UNCHANGED <<step, at, handler, intr, idt, remapped, isr, console>>

(* Mutant: a trap gate leaves IF set.                                      *)
Gate_Trap(v, i) ==
  /\ handler' = [vector |-> v, irq |-> i, at |-> "enter"]
  /\ UNCHANGED intr

(* An interrupt gate (0x8E) clears IF.                                     *)
Gate(v, i) ==
  /\ handler' = [vector |-> v, irq |-> i, at |-> "enter"]
  /\ intr' = FALSE

Deliver(i) ==
  /\ intr /\ Deliverable(i)
  /\ Gate(Vector(i), i)
  /\ irr' = irr \ {i}
  /\ isr' = isr \cup {i}
  /\ UNCHANGED <<step, at, idt, remapped, console>>

(* Mutant: the argument is read with WRITER held.                          *)
PageFault_Locked ==
  /\ Running /\ Now.op = "fault" /\ at = "start"
  /\ Gate(14, -1)
  /\ writer' = "boot"
  /\ UNCHANGED <<step, at, idt, remapped, pic, screen, last>>

(* Mutant: the faulting read is skipped.                                   *)
PageFault_Skips ==
  /\ Running /\ Now.op = "fault" /\ at = "start"
  /\ Gate(14, -1)
  /\ Advance
  /\ UNCHANGED <<idt, remapped, pic, console>>

(* The read of the test page faults before println takes WRITER: the       *)
(* arguments of _print are evaluated first.                                *)
PageFault ==
  /\ Running /\ Now.op = "fault" /\ at = "start"
  /\ Gate(14, -1)
  /\ UNCHANGED <<step, at, idt, remapped, pic, console>>

-----------------------------------------------------------------------------
(***************************************************************************)
(* The stubs of the int! macro around interrupt_handler.                   *)
(***************************************************************************)
HandlerGoto(l) == handler' = [handler EXCEPT !.at = l]

(* What interrupt_handler does with each vector, in the order of its tests *)
Handle ==
  /\ handler.at = "enter"
  /\ HandlerGoto(CASE handler.vector = 32 -> "eoi"
                   [] handler.vector = 14 -> "lock"
                   [] handler.vector = 33 -> "lock"
                   [] handler.vector <= 31 /\ handler.vector # 14 -> "panic"
                   [] OTHER -> "spin")
  /\ UNCHANGED <<step, at, intr, idt, remapped, pic, console>>

(* The three lines of a page fault are printed with IF clear.              *)
Message == IF handler.vector = 14 THEN "Page fault!" ELSE "Keyboard"

HandlerPrint ==
  /\ UNCHANGED <<step, at, intr, idt, remapped, pic>>
  /\ \/ handler.at = "lock" /\ Acquire("handler") /\ HandlerGoto("write")
     \/ handler.at = "write" /\ Put(Message) /\ HandlerGoto("unlock")
     \/ /\ handler.at = "unlock"
        /\ Release
        /\ HandlerGoto(IF handler.vector = 14 THEN "panic" ELSE "eoi")

HandlerPanic ==
  /\ UNCHANGED <<step, at, intr, idt, remapped, pic>>
  /\ \/ handler.at = "panic" /\ Acquire("handler") /\ HandlerGoto("report")
     \/ handler.at = "report" /\ Put("panic") /\ HandlerGoto("halt")

(* Mutant: no EOI.                                                         *)
EndOfInterrupt_NoEoi ==
  /\ handler.at = "eoi"
  /\ handler' = NoHandler
  /\ intr' = TRUE
  /\ UNCHANGED <<step, at, idt, remapped, pic, console>>

(* EOI to the controllers the stub names, then iret, which restores IF.    *)
(* A stub without m or s sends none.                                       *)
EndOfInterrupt ==
  /\ handler.at = "eoi"
  /\ isr' = IF handler.vector \in 32 .. 47 THEN isr \ {handler.irq} ELSE isr
  /\ handler' = NoHandler
  /\ intr' = TRUE
  /\ UNCHANGED <<step, at, idt, remapped, irr, console>>

-----------------------------------------------------------------------------
BootNext ==
  \/ BootPrint \/ SetupIdt \/ SetupPic \/ Enable
  \/ CheckPasses \/ CheckFails \/ BootPanic \/ PageFault

HandlerNext == Handle \/ HandlerPrint \/ HandlerPanic \/ EndOfInterrupt

Next ==
  \/ BootNext \/ HandlerNext
  \/ \E i \in Irqs : Raise(i) \/ Deliver(i)

Spec == Init /\ [][Next]_vars

(***************************************************************************)
(* The processor executes the handler it is in; and when it is in none it  *)
(* executes the boot thread, between two interrupts too, since the timer   *)
(* ticks slowly compared to instructions.  Pending interrupts are          *)
(* delivered while IF is set.                                              *)
(***************************************************************************)
FairSpec ==
  /\ Spec
  /\ WF_vars(HandlerNext)
  /\ SF_vars(BootNext)
  /\ \A i \in Irqs : SF_vars(Deliver(i))

-----------------------------------------------------------------------------
(***************************************************************************)
(* Properties.                                                             *)
(***************************************************************************)
Messages == {"none", "panic", "Page fault!", "Keyboard"} \cup
            { Boot[i].msg : i \in 1 .. Len(Boot) }

(* Types of the variables.                                                 *)
TypeOK ==
  /\ step \in 1 .. Len(Boot)
  /\ at \in {"start", "write", "unlock", "panic", "report", "cli", "halt"}
  /\ handler \in [vector : 0 .. 255, irq : -1 .. 15,
                  at : {"none", "enter", "lock", "write", "unlock", "eoi",
                        "panic", "report", "halt", "spin"}]
  /\ intr \in BOOLEAN /\ idt \in BOOLEAN /\ remapped \in BOOLEAN
  /\ irr \subseteq Irqs /\ isr \subseteq Irqs
  /\ writer \in {"free", "boot", "handler"}
  /\ screen \subseteq Messages /\ last \in Messages

(***************************************************************************)
(* setup() enables interrupts only when every vector has a handler and the *)
(* controllers no longer raise exception numbers, whatever devices raised  *)
(* meanwhile: no timer tick is ever reported as a double fault             *)
(* (interrupts.rs:187-467).                                                *)
(***************************************************************************)
NoPhantomException ==
  ~ Running => idt /\ (handler.irq >= 0 => handler.vector >= 32)

(***************************************************************************)
(* The controller has exactly the line in service whose handler runs: the  *)
(* gates keep handlers from nesting and every handler that returns has     *)
(* sent its EOI (interrupts.rs:119-164, gates 0x8E).                       *)
(***************************************************************************)
InServiceIsRunning ==
  isr = IF handler.irq >= 0 THEN {handler.irq} ELSE {}

(***************************************************************************)
(* The only one who can wait for WRITER is a keyboard handler that         *)
(* interrupted a print of the boot thread: the page fault report, both     *)
(* panics and the boot thread's prints always find it free                 *)
(* (early_logger.rs:109-122, interrupts.rs:38-49).                         *)
(***************************************************************************)
OnlyKeyboardWaits ==
  /\ handler.at \in {"lock", "panic"} /\ writer # "free" =>
       handler.vector = 33 /\ writer = "boot"
  /\ Running /\ (at = "panic" \/ (Now.op = "print" /\ at = "start")) =>
       writer = "free"

(***************************************************************************)
(* A panic message is never scrolled away by a later print: _panic keeps   *)
(* WRITER (early_logger.rs:114-122).                                       *)
(***************************************************************************)
PanicIsLast == "panic" \in screen => last = "panic"

(***************************************************************************)
(* There are two ways to hang: a keyboard handler spins on the WRITER of   *)
(* the print it interrupted, or interrupt_handler loops on a line it does  *)
(* not know (interrupts.rs:48, 60).                                        *)
(***************************************************************************)
Hung ==
  \/ handler.vector = 33 /\ handler.at = "lock" /\ writer = "boot"
  \/ handler.vector > 33 /\ handler.at = "spin"

(* However often the timer ticks, whatever is pressed and raised, the      *)
(* announced page fault is reported or the kernel hangs in one of these    *)
(* ways (paging/mod.rs:127-128, interrupts.rs:32-61).                      *)
ReportedOrHung ==
  ("You should see a page fault" \in screen) ~> ("Page fault!" \in screen \/ Hung)

(* And in no other way does a line in service miss its EOI                 *)
(* (interrupts.rs:118-169).                                                *)
EoiSentOrHung == \A i \in Irqs : (i \in isr) ~> (i \notin isr \/ Hung)

(***************************************************************************)
(* What the documentation says and the code does not do.                   *)
(***************************************************************************)

(* "Testing page unmapping (You should see a page fault)": it is seen      *)
(* (paging/mod.rs:127, interrupts.rs:38-44).                               *)
PageFaultSeen ==
  ("You should see a page fault" \in screen) ~> ("Page fault!" \in screen)
=============================================================================
