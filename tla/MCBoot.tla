------------------------------- MODULE MCBoot -------------------------------
(***************************************************************************)
(* The boot sequence for TLC: _start builds the page tables of the kernel  *)
(* (Bootstrap), and once they are in use setup_paging goes through the     *)
(* memory map (BootMemory).                                                *)
(***************************************************************************)
EXTENDS MCBootMemory, Bootstrap

(* The kernel whose end BootMemory is given.                               *)
Kernel ==
  [bootstrap_end |-> LOWMEM + 1, kernel_start |-> LOWMEM + PAGE_SIZE,
   data_start |-> LOWMEM + 2 * PAGE_SIZE, kernel_end |-> KernelEnd]

(* That one meets every memory map, any other one that is empty.           *)
BootInit ==
  /\ StartInit
  /\ IF image = Kernel THEN Init ELSE map = << >> /\ Init

BootNext ==
  \/ StartNext /\ UNCHANGED vars
  \/ eip = "ksetup" /\ image = Kernel /\ Next /\ UNCHANGED startVars

BootSpec == BootInit /\ [][BootNext]_<<startVars, vars>>
=============================================================================
