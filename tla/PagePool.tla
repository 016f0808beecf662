------------------------------ MODULE PagePool ------------------------------
(***************************************************************************)
(* What a page allocator promises (PageAllocatorTrait in                   *)
(* src/memory/page_allocator.rs): runs of managed blocks, each in one hand *)
(* from the moment alloc returns it to the moment it is passed to free.    *)
(***************************************************************************)
EXTENDS Integers

VARIABLES
  held,     \* the runs in somebody's hands
  managed   \* the blocks the pool was given

Blocks(r) == r.start .. r.start + r.size - 1

Init == held = {} /\ managed = {}

Grow == managed \subseteq managed' /\ UNCHANGED held

Take ==
  /\ \E r \in held' :
       /\ r.size > 0 /\ Blocks(r) \subseteq managed
       /\ \A a \in held : Blocks(a) \cap Blocks(r) = {}
       /\ held' = held \cup {r}
  /\ UNCHANGED managed

Give == (\E r \in held : held' = held \ {r}) /\ UNCHANGED managed

Next == Grow \/ Take \/ Give

Spec == Init /\ [][Next]_<<held, managed>>
=============================================================================
