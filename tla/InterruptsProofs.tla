-------------------------- MODULE InterruptsProofs --------------------------
(***************************************************************************)
(* Proofs about Interrupts: for every set of interrupt lines, the safety   *)
(* of the boot thread, the handlers and the console they share.            *)
(***************************************************************************)
EXTENDS Interrupts, TLAPS

(***************************************************************************)
(* The inductive invariant.                                                *)
(***************************************************************************)

(* How far the boot thread is decides what interrupts::setup has done;     *)
(* where it is inside a step, what kind of step that is.                   *)
BootPlace ==
  /\ idt <=> step > 2
  /\ remapped <=> step > 3
  /\ intr => step > 4
  /\ at \in {"write", "unlock"} => Now.op = "print"
  /\ at \in {"panic", "report", "cli", "halt"} => Now.op = "check"

(* A handler runs with IF clear, for the line it was delivered or for the  *)
(* page fault at the end of the boot thread.                               *)
HandlerPlace ==
  /\ Running <=> handler.at = "none"
  /\ ~ Running =>
       /\ ~ intr /\ step > 4
       /\ IF handler.irq >= 0
            THEN handler.vector = 32 + handler.irq
            ELSE handler.irq = -1 /\ handler.vector = 14 /\ Now.op = "fault"

(* Which vectors get where.                                                *)
HandlerPath ==
  /\ handler.at \in {"lock", "write", "unlock"} => handler.vector \in {14, 33}
  /\ handler.at = "eoi" => handler.vector \in {32, 33}
  /\ handler.at \in {"panic", "report", "halt"} => handler.vector = 14

(* Who has WRITER is between taking and releasing it, or has panicked.     *)
WriterHeld ==
  /\ writer = "boot" <=> at \in {"write", "unlock", "report", "cli", "halt"}
  /\ writer = "handler" <=> handler.at \in {"write", "unlock", "report", "halt"}

(* After the panic message whoever wrote it keeps WRITER.                  *)
PanicKeeps ==
  "panic" \in screen =>
    last = "panic" /\ (at \in {"cli", "halt"} \/ handler.at = "halt")

Inv ==
  /\ TypeOK /\ BootPlace /\ HandlerPlace /\ HandlerPath
  /\ InServiceIsRunning /\ WriterHeld /\ PanicKeeps

(* What the proofs use of the program of the boot thread.                  *)
LEMMA BootSteps ==
  /\ Len(Boot) = 12
  /\ \A i \in 1 .. 12 :
       /\ Boot[i].msg \in Messages /\ Boot[i].msg # "panic"
       /\ Boot[i].op = "fault" <=> i = 12
       /\ Boot[i].op = "idt" <=> i = 2
       /\ Boot[i].op = "pic" <=> i = 3
       /\ Boot[i].op = "sti" <=> i = 4
       /\ Boot[i].op = "check" => i > 4
       /\ Boot[i].op = "print" => i = 1 \/ i > 4
<1>1. Len(Boot) = 12
  BY DEF Boot
<1>2. \A i \in 1 .. 12 : Boot[i].msg \in Messages
  BY <1>1 DEF Messages
<1>3. /\ Boot[1].op = "print" /\ Boot[2].op = "idt" /\ Boot[3].op = "pic"
      /\ Boot[4].op = "sti" /\ Boot[5].op = "print" /\ Boot[6].op = "check"
      /\ Boot[7].op = "print" /\ Boot[8].op = "check" /\ Boot[9].op = "print"
      /\ Boot[10].op = "check" /\ Boot[11].op = "print" /\ Boot[12].op = "fault"
  BY DEF Boot
<1>4. /\ Boot[1].msg # "panic" /\ Boot[2].msg # "panic" /\ Boot[3].msg # "panic"
      /\ Boot[4].msg # "panic" /\ Boot[5].msg # "panic" /\ Boot[6].msg # "panic"
      /\ Boot[7].msg # "panic" /\ Boot[8].msg # "panic" /\ Boot[9].msg # "panic"
      /\ Boot[10].msg # "panic" /\ Boot[11].msg # "panic" /\ Boot[12].msg # "panic"
  BY DEF Boot
<1>5. \A i \in 1 .. 12 : i \in {1, 2, 3, 4, 5, 6, 7, 8, 9, 10, 11, 12}
  OBVIOUS
<1>6. \A i \in 1 .. 12 : Boot[i].msg # "panic"
  BY <1>4, <1>5
<1>7. ASSUME NEW i \in 1 .. 12
      PROVE  /\ Boot[i].op = "fault" <=> i = 12
             /\ Boot[i].op = "idt" <=> i = 2
             /\ Boot[i].op = "pic" <=> i = 3
             /\ Boot[i].op = "sti" <=> i = 4
             /\ Boot[i].op = "check" => i > 4
             /\ Boot[i].op = "print" => i = 1 \/ i > 4
  BY <1>3, <1>5
<1> QED
  BY <1>1, <1>2, <1>6, <1>7

(* At boot nothing is set up, nothing runs and nobody prints.              *)
LEMMA InvInit == Init => Inv
<1> SUFFICES ASSUME Init PROVE Inv
  OBVIOUS
<1>1. TypeOK
  <2>1. "none" \in Messages
    BY DEF Messages
  <2>2. handler \in [vector : 0 .. 255, irq : -1 .. 15,
                     at : {"none", "enter", "lock", "write", "unlock", "eoi",
                           "panic", "report", "halt", "spin"}]
    BY DEF Init, NoHandler
  <2>3. step \in 1 .. Len(Boot)
    BY BootSteps DEF Init
  <2>4. at \in {"start", "write", "unlock", "panic", "report", "cli", "halt"}
    BY DEF Init
  <2> QED
    BY <2>1, <2>2, <2>3, <2>4 DEF Init, TypeOK
<1>2. BootPlace /\ HandlerPlace /\ HandlerPath /\ WriterHeld
  BY DEF Init, BootPlace, HandlerPlace, HandlerPath, WriterHeld, NoHandler, Running
<1>3. InServiceIsRunning /\ PanicKeeps
  BY DEF Init, InServiceIsRunning, PanicKeeps, NoHandler
<1> QED
  BY <1>1, <1>2, <1>3 DEF Inv

(* The step of the boot thread is one of the twelve.                       *)
LEMMA NowType ==
  ASSUME Inv
  PROVE  /\ step \in 1 .. 12
         /\ Now.msg \in Messages /\ Now.msg # "panic"
         /\ Now.op = "fault" <=> step = 12
         /\ Now.op = "idt" <=> step = 2
         /\ Now.op = "pic" <=> step = 3
         /\ Now.op = "sti" <=> step = 4
         /\ Now.op = "check" => step > 4
         /\ Now.op = "print" => step = 1 \/ step > 4
  BY BootSteps DEF Inv, TypeOK, Now

(***************************************************************************)
(* A step of the boot thread: no handler runs before or after it, so all   *)
(* that matters is where it gets to and what it does with WRITER.          *)
(***************************************************************************)
LEMMA BootStep ==
  ASSUME Inv, BootNext, ~ PageFault PROVE Inv'
<1>1. Running /\ UNCHANGED <<handler, pic>>
  BY DEF BootNext, BootPrint, SetupIdt, SetupPic, Enable, CheckPasses, CheckFails, BootPanic,
         Running
<1>2. TypeOK'
  <2>1. step' \in 1 .. Len(Boot)
    BY NowType, BootSteps
       DEF BootNext, BootPrint, SetupIdt, SetupPic, Enable, CheckPasses, CheckFails, BootPanic, Advance, Inv, TypeOK
  <2>2. at' \in {"start", "write", "unlock", "panic", "report", "cli", "halt"}
    BY DEF BootNext, BootPrint, SetupIdt, SetupPic, Enable, CheckPasses, CheckFails, BootPanic, Advance, Inv, TypeOK
  <2>3. intr' \in BOOLEAN /\ idt' \in BOOLEAN /\ remapped' \in BOOLEAN
    BY DEF BootNext, BootPrint, SetupIdt, SetupPic, Enable, CheckPasses, CheckFails, BootPanic, Inv, TypeOK
  <2>4. writer' \in {"free", "boot", "handler"}
    BY DEF BootNext, BootPrint, SetupIdt, SetupPic, Enable, CheckPasses, CheckFails, BootPanic, Inv, TypeOK,
           Acquire, Put, Release, console
  <2>5. screen' \subseteq Messages /\ last' \in Messages
    <3>1. "panic" \in Messages
      BY DEF Messages
    <3> QED
      BY NowType, <3>1
       DEF BootNext, BootPrint, SetupIdt, SetupPic, Enable, CheckPasses, CheckFails, BootPanic, Inv, TypeOK,
           Acquire, Put, Release, console
  <2> QED
    BY <1>1, <2>1, <2>2, <2>3, <2>4, <2>5 DEF TypeOK, Inv, pic
<1>3. BootPlace'
  <2>1. CASE UNCHANGED step
    BY <2>1, NowType
       DEF BootNext, BootPrint, SetupIdt, SetupPic, Enable, CheckPasses, CheckFails, BootPanic, Advance,
           Inv, TypeOK, BootPlace, Now
  <2>2. CASE step' # step
    BY <2>2, NowType
       DEF BootNext, BootPrint, SetupIdt, SetupPic, Enable, CheckPasses, CheckFails, BootPanic, Advance,
           Inv, TypeOK, BootPlace
  <2> QED
    BY <2>1, <2>2
<1>4. HandlerPlace' /\ HandlerPath' /\ InServiceIsRunning'
  BY <1>1 DEF Inv, HandlerPlace, HandlerPath, InServiceIsRunning, Running, NoHandler, pic
<1>5. WriterHeld'
  BY <1>1, NowType
     DEF BootNext, BootPrint, SetupIdt, SetupPic, Enable, CheckPasses, CheckFails, BootPanic, Advance,
         Inv, TypeOK, BootPlace, WriterHeld, Running, NoHandler, Acquire, Put, Release, console
<1>6. PanicKeeps'
  BY <1>1, NowType
     DEF BootNext, BootPrint, SetupIdt, SetupPic, Enable, CheckPasses, CheckFails, BootPanic, Advance,
         Inv, TypeOK, BootPlace, WriterHeld, PanicKeeps, Running, NoHandler, Acquire, Put, Release, console
<1> QED
  BY <1>2, <1>3, <1>4, <1>5, <1>6 DEF Inv

(***************************************************************************)
(* A gate is taken: by the page fault, or for a line while IF is set, when *)
(* every handler has returned.                                             *)
(***************************************************************************)
LEMMA GateStep ==
  ASSUME Inv, PageFault \/ \E i \in Irqs : Deliver(i) PROVE Inv'
<1>1. /\ Running /\ UNCHANGED <<step, at, idt, remapped, console>> /\ intr' = FALSE
      /\ step > 4
  <2>1. CASE PageFault
    BY <2>1, NowType DEF PageFault, Gate, Running
  <2>2. CASE \E i \in Irqs : Deliver(i)
    BY <2>2 DEF Deliver, Gate, Inv, BootPlace, HandlerPlace
  <2> QED
    BY <2>1, <2>2
<1>2. isr = {} /\ handler.at = "none"
  BY <1>1 DEF Inv, InServiceIsRunning, HandlerPlace, Running, NoHandler
<1>3. \E v \in 0 .. 255, i \in -1 .. 15 :
        /\ handler' = [vector |-> v, irq |-> i, at |-> "enter"]
        /\ irr' \subseteq Irqs /\ isr' \subseteq Irqs
        /\ IF i >= 0 THEN v = 32 + i ELSE i = -1 /\ v = 14 /\ Now.op = "fault"
        /\ isr' = IF i >= 0 THEN {i} ELSE {}
  <2>1. CASE PageFault
    BY <2>1, <1>2 DEF PageFault, Gate, pic, Inv, TypeOK
  <2>2. ASSUME NEW i \in Irqs, Deliver(i)
        PROVE  /\ handler' = [vector |-> 32 + i, irq |-> i, at |-> "enter"]
               /\ irr' \subseteq Irqs /\ isr' = {i}
    BY <1>1, <1>2, <2>2 DEF Deliver, Gate, Vector, Inv, TypeOK, BootPlace
  <2>3. CASE \E i \in Irqs : Deliver(i)
    BY <2>2, <2>3, IrqsAssumption
  <2> QED
    BY <2>1, <2>3
<1>4. TypeOK'
  <2>1. handler' \in [vector : 0 .. 255, irq : -1 .. 15,
                      at : {"none", "enter", "lock", "write", "unlock", "eoi",
                            "panic", "report", "halt", "spin"}]
    BY <1>3
  <2> QED
    BY <1>1, <1>3, <2>1 DEF Inv, TypeOK, console
<1>5. BootPlace'
  BY <1>1 DEF Inv, BootPlace, Now
<1>6. HandlerPlace' /\ HandlerPath'
  BY <1>1, <1>3 DEF HandlerPlace, HandlerPath, Running, NoHandler, Now
<1>7. InServiceIsRunning'
  BY <1>3 DEF InServiceIsRunning
<1>8. WriterHeld' /\ PanicKeeps'
  BY <1>1, <1>2, <1>3 DEF Inv, WriterHeld, PanicKeeps, console
<1> QED
  BY <1>4, <1>5, <1>6, <1>7, <1>8 DEF Inv

(* Every line a device raises is one of Irqs; nothing else changes.        *)
LEMMA RaiseStep ==
  ASSUME Inv, NEW i \in Irqs, Raise(i) PROVE Inv'
<1>1. irr' \subseteq Irqs /\ UNCHANGED <<step, at, handler, intr, idt, remapped, isr, console>>
  BY DEF Raise, Inv, TypeOK
<1> QED
  BY <1>1 DEF Inv, TypeOK, BootPlace, HandlerPlace, HandlerPath, InServiceIsRunning,
              WriterHeld, PanicKeeps, Running, Now, console

(***************************************************************************)
(* A step of a handler leaves the boot thread where it is.                 *)
(***************************************************************************)
LEMMA HandlerStep ==
  ASSUME Inv, HandlerNext PROVE Inv'
<1> DEFINE Places == {"none", "enter", "lock", "write", "unlock", "eoi",
                      "panic", "report", "halt", "spin"}
<1>1. /\ ~ Running /\ UNCHANGED <<step, at, idt, remapped, irr>>
      /\ handler.at \in {"enter", "lock", "write", "unlock", "panic", "report", "eoi"}
  BY DEF HandlerNext, Handle, HandlerPrint, HandlerPanic, EndOfInterrupt, Running, NoHandler, pic
<1>2. /\ ~ intr /\ step > 4
      /\ IF handler.irq >= 0
           THEN handler.vector = 32 + handler.irq
           ELSE handler.irq = -1 /\ handler.vector = 14 /\ Now.op = "fault"
  BY <1>1 DEF Inv, HandlerPlace
<1>3. CASE EndOfInterrupt
  <2>1. handler' = NoHandler /\ isr' = {} /\ UNCHANGED console /\ intr' = TRUE
    BY <1>2, <1>3 DEF EndOfInterrupt, Inv, TypeOK, HandlerPath, InServiceIsRunning
  <2>2. TypeOK'
    BY <1>1, <2>1 DEF Inv, TypeOK, NoHandler, console
  <2>3. BootPlace' /\ HandlerPlace' /\ HandlerPath' /\ InServiceIsRunning'
    BY <1>1, <1>2, <2>1
       DEF Inv, BootPlace, HandlerPlace, HandlerPath, InServiceIsRunning, Running, NoHandler, Now
  <2>4. WriterHeld' /\ PanicKeeps'
    BY <1>1, <1>3, <2>1 DEF EndOfInterrupt, Inv, WriterHeld, PanicKeeps, NoHandler, console
  <2> QED
    BY <2>2, <2>3, <2>4 DEF Inv
<1>4. CASE Handle \/ HandlerPrint \/ HandlerPanic
  <2>1. PICK l \in Places \ {"none"} : HandlerGoto(l)
    BY <1>4 DEF Handle, HandlerPrint, HandlerPanic
  <2>2. /\ handler'.vector = handler.vector /\ handler'.irq = handler.irq /\ handler'.at = l
        /\ handler' \in [vector : 0 .. 255, irq : -1 .. 15, at : Places]
        /\ UNCHANGED <<intr, isr>>
    BY <1>4, <2>1 DEF HandlerGoto, Handle, HandlerPrint, HandlerPanic, Inv, TypeOK, pic
  <2>3. Message \in Messages /\ Message # "panic" /\ "panic" \in Messages
    BY DEF Message, Messages
  <2>4. /\ screen' \subseteq Messages /\ last' \in Messages
        /\ writer' \in {"free", "boot", "handler"}
    BY <1>4, <2>3 DEF Handle, HandlerPrint, HandlerPanic, Acquire, Put, Release, console, Inv, TypeOK
  <2>5. TypeOK'
    BY <1>1, <2>2, <2>4 DEF Inv, TypeOK
  <2>6. BootPlace' /\ InServiceIsRunning'
    BY <1>1, <2>2 DEF Inv, BootPlace, InServiceIsRunning, Now
  <2>7. HandlerPlace'
    <3>1. ~ Running'
      BY <2>2 DEF Running, NoHandler
    <3> QED
      BY <1>1, <1>2, <2>2, <3>1 DEF HandlerPlace, Now
  <2>8. HandlerPath'
    BY <1>2, <1>4, <2>2 DEF Handle, HandlerPrint, HandlerPanic, HandlerGoto, Inv, TypeOK, HandlerPath
  <2>9. WriterHeld'
    BY <1>1, <1>4, <2>2
       DEF Handle, HandlerPrint, HandlerPanic, HandlerGoto, Acquire, Put, Release, console,
           Inv, TypeOK, WriterHeld
  <2>10. PanicKeeps'
    BY <1>1, <1>4, <2>2, <2>3
       DEF Handle, HandlerPrint, HandlerPanic, HandlerGoto, Acquire, Put, Release, console,
           Inv, TypeOK, WriterHeld, PanicKeeps
  <2> QED
    BY <2>5, <2>6, <2>7, <2>8, <2>9, <2>10 DEF Inv
<1> QED
  BY <1>3, <1>4 DEF HandlerNext

(* Every step keeps the invariant.                                         *)
LEMMA InvNext == Inv /\ [Next]_vars => Inv'
<1> SUFFICES ASSUME Inv, [Next]_vars PROVE Inv'
  OBVIOUS
<1>1. CASE UNCHANGED vars
  BY <1>1 DEF Inv, TypeOK, BootPlace, HandlerPlace, HandlerPath, InServiceIsRunning,
              WriterHeld, PanicKeeps, Running, Now, vars
<1>2. CASE Next
  BY <1>2, BootStep, GateStep, RaiseStep, HandlerStep DEF Next, BootNext
<1> QED
  BY <1>1, <1>2

(* The invariant holds in every reachable state.                           *)
LEMMA Invariance == Spec => []Inv
  BY InvInit, InvNext, PTL DEF Spec

-----------------------------------------------------------------------------
(* Type correctness: the boot thread runs none but its twelve steps.       *)
THEOREM TypeOKThm == Spec => []TypeOK
<1>1. Inv => TypeOK
  BY DEF Inv
<1> QED
  BY <1>1, Invariance, PTL

(***************************************************************************)
(* No interrupt of a device is taken for an exception, and none without an *)
(* IDT: setup enables interrupts last (interrupts.rs:187-467).             *)
(***************************************************************************)
THEOREM NoPhantomExceptionThm == Spec => []NoPhantomException
<1>1. Inv => NoPhantomException
  BY DEF Inv, TypeOK, BootPlace, HandlerPlace, NoPhantomException
<1> QED
  BY <1>1, Invariance, PTL

(***************************************************************************)
(* The line in service is the line whose handler runs: handlers do not     *)
(* nest, and those that return send their EOI (interrupts.rs:119-164).     *)
(***************************************************************************)
THEOREM InServiceIsRunningThm == Spec => []InServiceIsRunning
<1>1. Inv => InServiceIsRunning
  BY DEF Inv
<1> QED
  BY <1>1, Invariance, PTL

(***************************************************************************)
(* Nobody but a keyboard handler ever waits for WRITER, and it only for    *)
(* the boot thread (early_logger.rs:109-122, interrupts.rs:38-49).         *)
(***************************************************************************)
THEOREM OnlyKeyboardWaitsThm == Spec => []OnlyKeyboardWaits
<1> SUFFICES ASSUME Inv PROVE OnlyKeyboardWaits
  BY Invariance, PTL
<1>1. ASSUME handler.at \in {"lock", "panic"}, writer # "free"
      PROVE  handler.vector = 33 /\ writer = "boot"
  <2>1. writer = "boot" /\ at # "start"
    BY <1>1 DEF Inv, TypeOK, WriterHeld
  <2>2. Now.op # "fault"
    BY <2>1 DEF Inv, TypeOK, BootPlace, WriterHeld
  <2>3. ~ Running
    BY <1>1 DEF Running, NoHandler
  <2>4. handler.irq \in -1 .. 15 /\ handler.irq # -1 /\ handler.vector = 32 + handler.irq
    BY <2>2, <2>3 DEF Inv, TypeOK, HandlerPlace
  <2>5. handler.vector # 14
    BY <2>4
  <2> QED
    BY <1>1, <2>1, <2>5 DEF Inv, HandlerPath
<1>2. ASSUME Running, at \in {"panic", "start"} PROVE writer = "free"
  BY <1>2 DEF Inv, TypeOK, WriterHeld, Running, NoHandler
<1> QED
  BY <1>1, <1>2 DEF OnlyKeyboardWaits

(***************************************************************************)
(* Nothing is printed after a panic message: whoever printed it keeps      *)
(* WRITER (early_logger.rs:114-122).                                       *)
(***************************************************************************)
THEOREM PanicIsLastThm == Spec => []PanicIsLast
<1>1. Inv => PanicIsLast
  BY DEF Inv, PanicKeeps, PanicIsLast
<1> QED
  BY <1>1, Invariance, PTL
=============================================================================
