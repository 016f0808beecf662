------------------------------ MODULE TmpPage -------------------------------
(***************************************************************************)
(* How the kernel reaches physical memory: src/arch/x86/paging/tmp_page.rs *)
(* maps one frame at a time to the temporary page, under TMP_PAGE_MUTEX,   *)
(* and get_entry, set_entry and new_sublevel of                            *)
(* src/arch/x86/paging/address_space.rs go through the guard it returns.   *)
(*                                                                         *)
(* Callers share one processor and its TLB.  The processor may load the    *)
(* translation of the temporary page at any time, may set the accessed and *)
(* dirty bits of its entry when it does, and may forget it at any time.    *)
(* Nothing below relies on those bits: when they are set the comparison of *)
(* map always fails, when they are not it may succeed.                     *)
(***************************************************************************)
EXTENDS Integers

CONSTANTS
  Callers,     \* the contexts that use page tables
  Frames,      \* the frames that hold page tables
  Upper,       \* those of the upper level (bits > 12)
  ENTRIES,     \* entries of a page table
  Values,      \* the entries that are told apart
  Null, Large, \* PTEntry::NULL, and an entry with PS
  Nobody       \* no caller, no frame

ASSUME TmpPageAssumption ==
  /\ Upper \subseteq Frames
  /\ ENTRIES \in Nat \ {0}
  /\ Null \in Values /\ Large \in Values
  /\ Nobody \notin Callers /\ Nobody \notin Frames

VARIABLES
  mem,     \* the contents of the frames
  entry,   \* TMP_PAGE_ENTRY: the frame, and whether the processor set A or D
  tlb,     \* the frame the TLB has for the temporary page
  holder,  \* who holds TMP_PAGE_MUTEX
  pc,      \* where each caller is
  req,     \* what it was called for
  at,      \* the index it has reached in the frame
  res      \* what it returned

vars == <<mem, entry, tlb, holder, pc, req, at, res>>
mapping == <<entry, tlb>>

Index == 0 .. ENTRIES - 1

(***************************************************************************)
(* The abstract memory.  new_sublevel takes effect with its first entry:   *)
(* its guard keeps everyone else from the rest.                            *)
(***************************************************************************)
Clearing(c) == req[c].op = "clear" /\ at[c] > 0

Settled(f) ==
  IF \E c \in Callers : Clearing(c) /\ req[c].frame = f
    THEN [i \in Index |-> Null] ELSE mem[f]

NoCall == [op |-> "none"]

EM == INSTANCE EntryMemory WITH
        mem <- [f \in Frames |-> Settled(f)],
        req <- [c \in Callers |-> IF Clearing(c) THEN NoCall ELSE req[c]],
        res <- [c \in Callers |-> IF Clearing(c) THEN Null ELSE res[c]]

Init ==
  /\ mem \in [Frames -> [Index -> {Null, Large}]]
  /\ entry = [frame |-> Nobody, used |-> FALSE]
  /\ tlb = Nobody
  /\ holder = Nobody
  /\ pc = [c \in Callers |-> "idle"]
  /\ req = [c \in Callers |-> NoCall]
  /\ at = [c \in Callers |-> 0]
  /\ res = [c \in Callers |-> Null]

Goto(c, l) == pc' = [pc EXCEPT ![c] = l]

Call(c, r) ==
  /\ pc[c] = "idle"
  /\ Goto(c, "map")
  /\ req' = [req EXCEPT ![c] = r]
  /\ at' = [at EXCEPT ![c] = r.index]
  /\ res' = [res EXCEPT ![c] = Null]
  /\ UNCHANGED <<mem, mapping, holder>>

-----------------------------------------------------------------------------
(***************************************************************************)
(* tmp_page::map: lock, compare, and if needed replace the entry and flush *)
(***************************************************************************)
MapEntry(c) == [frame |-> req[c].frame, used |-> FALSE]

(* Mutant: no lock.                                                        *)
Lock_Missing(c) ==
  /\ pc[c] = "map"
  /\ holder' = c
  /\ Goto(c, "compare")
  /\ UNCHANGED <<mem, mapping, req, at, res>>

Lock(c) ==
  /\ pc[c] = "map" /\ holder = Nobody
  /\ holder' = c
  /\ Goto(c, "compare")
  /\ UNCHANGED <<mem, mapping, req, at, res>>

Compare(c) ==
  /\ pc[c] = "compare"
  /\ Goto(c, IF entry # MapEntry(c) THEN "replace" ELSE "use")
  /\ UNCHANGED <<mem, mapping, holder, req, at, res>>

Replace(c) ==
  /\ pc[c] = "replace"
  /\ entry' = MapEntry(c)
  /\ Goto(c, "flush")
  /\ UNCHANGED <<mem, tlb, holder, req, at, res>>

(* Mutant: the translation is not flushed.                                 *)
Flush_Missing(c) ==
  /\ pc[c] = "flush"
  /\ Goto(c, "use")
  /\ UNCHANGED <<mem, mapping, holder, req, at, res>>

Flush(c) ==
  /\ pc[c] = "flush"
  /\ tlb' = Nobody
  /\ Goto(c, "use")
  /\ UNCHANGED <<mem, entry, holder, req, at, res>>

-----------------------------------------------------------------------------
(***************************************************************************)
(* The uses of the guard.  An access goes where the TLB says, and loads it *)
(* from the entry if it is empty.                                          *)
(***************************************************************************)
Reached == IF tlb # Nobody THEN tlb ELSE entry.frame

Loaded ==
  /\ tlb' = Reached
  /\ \E b \in {entry.used, TRUE} : entry' = [entry EXCEPT !.used = b]

Access(c, op) == pc[c] = "use" /\ req[c].op = op /\ Loaded

(* The guard is dropped when the function returns.                         *)
Drop(c, v) ==
  /\ holder' = Nobody
  /\ Goto(c, "idle")
  /\ req' = [req EXCEPT ![c] = NoCall]
  /\ at' = [at EXCEPT ![c] = 0]
  /\ res' = [res EXCEPT ![c] = v]

GetEntry(c) ==
  /\ Access(c, "get")
  /\ Drop(c, mem[Reached][at[c]])
  /\ UNCHANGED mem

(* set_entry reads the old entry, then writes the new one.                 *)
SetTest(c) ==
  /\ Access(c, "set")
  /\ IF req[c].frame \in Upper /\ mem[Reached][at[c]] = Large
       THEN Drop(c, Large)
       ELSE Goto(c, "store") /\ UNCHANGED <<holder, req, at, res>>
  /\ UNCHANGED mem

SetStore(c) ==
  /\ pc[c] = "store" /\ Loaded
  /\ mem' = [mem EXCEPT ![Reached][at[c]] = req[c].value]
  /\ Drop(c, Null)

(* Mutant: one entry too many.                                             *)
Cleared_Late(c) == at[c] = ENTRIES

(* Mutant: the index does not advance.                                     *)
NextIndex_Stuck(c) == at[c]

(* new_sublevel clears the frame entry by entry.                           *)
Cleared(c) == at[c] + 1 = ENTRIES

NextIndex(c) == at[c] + 1

ClearEntry(c) ==
  /\ Access(c, "clear")
  /\ mem' = [mem EXCEPT ![Reached][at[c]] = Null]
  /\ IF Cleared(c)
       THEN Drop(c, Null)
       ELSE /\ at' = [at EXCEPT ![c] = NextIndex(c)]
            /\ UNCHANGED <<holder, pc, req, res>>

-----------------------------------------------------------------------------
TlbLoad == entry.frame # Nobody /\ Loaded /\ UNCHANGED <<mem, holder, pc, req, at, res>>

TlbForget == tlb' = Nobody /\ UNCHANGED <<mem, entry, holder, pc, req, at, res>>

Step(c) ==
  \/ Lock(c) \/ Compare(c) \/ Replace(c) \/ Flush(c)
  \/ GetEntry(c) \/ SetTest(c) \/ SetStore(c) \/ ClearEntry(c)

Next ==
  \/ \E c \in Callers : (\E r \in EM!Requests : Call(c, r)) \/ Step(c)
  \/ TlbLoad \/ TlbForget

Spec == Init /\ [][Next]_vars

(* A caller that holds the guard goes on.                                  *)
FairSpec == Spec /\ \A c \in Callers : WF_vars(Step(c))

-----------------------------------------------------------------------------
(***************************************************************************)
(* Properties.                                                             *)
(***************************************************************************)

(* Types of the variables.                                                 *)
TypeOK ==
  /\ mem \in [Frames -> [Index -> Values]]
  /\ entry \in [frame : Frames \cup {Nobody}, used : BOOLEAN]
  /\ tlb \in Frames \cup {Nobody}
  /\ holder \in Callers \cup {Nobody}
  /\ pc \in [Callers -> {"idle", "map", "compare", "replace", "flush", "use", "store"}]
  /\ req \in [Callers -> EM!Requests \cup {NoCall}]
  /\ at \in [Callers -> Index]
  /\ res \in [Callers -> Values]

(***************************************************************************)
(* The guard is a pointer to the frame that was asked for: whatever the    *)
(* TLB loads or forgets, whoever used the temporary page before and        *)
(* whether or not its entry had to be replaced, an access through the      *)
(* guard reaches that frame (tmp_page.rs:26-35).                           *)
(***************************************************************************)
GuardReachesFrame ==
  \A c \in Callers : pc[c] \in {"use", "store"} => Reached = req[c].frame

(***************************************************************************)
(* get_entry, set_entry and new_sublevel are atomic operations on physical *)
(* memory; set_entry's test for a large page still holds when it writes    *)
(* (address_space.rs:65-128).                                              *)
(***************************************************************************)
ImplementsEntryMemory == EM!Spec

(* Whoever locks TMP_PAGE_MUTEX releases it (tmp_page.rs:26).              *)
GuardIsDropped == \A c \in Callers : (holder = c) ~> (holder # c)
=============================================================================
