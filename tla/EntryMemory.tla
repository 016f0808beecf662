---------------------------- MODULE EntryMemory -----------------------------
(***************************************************************************)
(* What PageTable assumes of PageTableLevel in                             *)
(* src/arch/x86/paging/address_space.rs: get_entry reads an entry of a     *)
(* frame, set_entry tests and replaces one, new_sublevel clears a frame,   *)
(* each in one step, whoever else is using the page tables.                *)
(***************************************************************************)
CONSTANTS Callers, Frames, Upper, Index, Values, Null, Large

VARIABLES
  mem,   \* the entries of every frame
  req,   \* the request of each caller
  res    \* and its result

vars == <<mem, req, res>>

Requests ==
  [op : {"get"}, frame : Frames, index : Index, value : {Null}] \cup
  [op : {"set"}, frame : Frames, index : Index, value : Values] \cup
  [op : {"clear"}, frame : Frames, index : {0}, value : {Null}]

None == [op |-> "none"]

Init ==
  /\ mem \in [Frames -> [Index -> Values]]
  /\ req = [c \in Callers |-> None]
  /\ res = [c \in Callers |-> Null]

Request(c, r) ==
  /\ req[c] = None
  /\ req' = [req EXCEPT ![c] = r]
  /\ res' = [res EXCEPT ![c] = Null]
  /\ UNCHANGED mem

Done(c, v) ==
  /\ res' = [res EXCEPT ![c] = v]
  /\ req' = [req EXCEPT ![c] = None]

(* The entry a request is about.                                           *)
Entry(r) == mem[r.frame][r.index]

Get(c) ==
  /\ req[c].op = "get"
  /\ Done(c, Entry(req[c]))
  /\ UNCHANGED mem

(* set_entry refuses to replace a large page, on the upper level.          *)
Refused(r) == r.frame \in Upper /\ Entry(r) = Large

Set(c) ==
  /\ req[c].op = "set"
  /\ Done(c, IF Refused(req[c]) THEN Large ELSE Null)
  /\ mem' = IF Refused(req[c]) THEN mem
            ELSE [mem EXCEPT ![req[c].frame][req[c].index] = req[c].value]

Clear(c) ==
  /\ req[c].op = "clear"
  /\ Done(c, Null)
  /\ mem' = [mem EXCEPT ![req[c].frame] = [i \in Index |-> Null]]

Next ==
  \E c \in Callers :
    (\E r \in Requests : Request(c, r)) \/ Get(c) \/ Set(c) \/ Clear(c)

Spec == Init /\ [][Next]_vars
=============================================================================
