---------------------------- MODULE TmpPageProofs ---------------------------
(***************************************************************************)
(* Proofs about TmpPage: for any number of callers, frames and entries, an *)
(* access through the guard reaches the frame it was asked for.            *)
(***************************************************************************)
EXTENDS TmpPage, TLAPS

(* What has been called for is a request, and its frame is a frame.        *)
Asking ==
  \A c \in Callers : pc[c] # "idle" => req[c] \in EM!Requests

Types ==
  /\ entry \in [frame : Frames \cup {Nobody}, used : BOOLEAN]
  /\ tlb \in Frames \cup {Nobody}
  /\ pc \in [Callers -> {"idle", "map", "compare", "replace", "flush", "use", "store"}]
  /\ DOMAIN req = Callers

(* The mutex: exactly its holder is past lock().                           *)
Mutex == \A c \in Callers : pc[c] \notin {"idle", "map"} <=> holder = c

(* Between the write of the entry and the flush, and only then, the TLB    *)
(* may have another frame.                                                 *)
TlbFollows ==
  tlb \in {Nobody, entry.frame} \/ \E c \in Callers : pc[c] = "flush"

(* From the write of the entry on it names the frame of the holder.        *)
EntryIsAsked ==
  \A c \in Callers :
    pc[c] \in {"flush", "use", "store"} => entry.frame = req[c].frame

(* The inductive invariant.                                                *)
GuardInv == Types /\ Asking /\ Mutex /\ TlbFollows /\ EntryIsAsked

(* The frame of a request, whatever its operation, is one of Frames.       *)
LEMMA RequestFrame == ASSUME NEW r \in EM!Requests PROVE r.frame \in Frames
  BY DEF EM!Requests

(* At boot nobody holds TMP_PAGE_MUTEX and the entry is empty.             *)
LEMMA GuardInit == Init => GuardInv
  BY TmpPageAssumption DEF Init, GuardInv, Types, Asking, Mutex, TlbFollows, EntryIsAsked

(* A load of the translation leaves the frame in the entry alone, and      *)
(* puts it into the TLB unless that has one.                               *)
LEMMA LoadedKeeps ==
  ASSUME Types, Loaded
  PROVE  /\ entry' \in [frame : Frames \cup {Nobody}, used : BOOLEAN]
         /\ entry'.frame = entry.frame
         /\ tlb' \in Frames \cup {Nobody}
         /\ tlb' \in {tlb, entry.frame}
  BY DEF Types, Loaded, Reached

(* Every step of a caller of tmp_page::map, and of the TLB, keeps GuardInv. *)
LEMMA GuardNext == GuardInv /\ [Next]_vars => GuardInv'
<1> SUFFICES ASSUME GuardInv, [Next]_vars PROVE GuardInv'
  OBVIOUS
<1> USE TmpPageAssumption DEF GuardInv
<1>1. ASSUME NEW c \in Callers, NEW r \in EM!Requests, Call(c, r) PROVE GuardInv'
  BY <1>1 DEF Types, Asking, Mutex, TlbFollows, EntryIsAsked, Call, Goto, mapping
<1>2. ASSUME NEW c \in Callers, Lock(c) PROVE GuardInv'
  BY <1>2 DEF Types, Asking, Mutex, TlbFollows, EntryIsAsked, Lock, Goto, mapping
<1>3. ASSUME NEW c \in Callers, Compare(c) PROVE GuardInv'
  <2>1. entry = MapEntry(c) => entry.frame = req[c].frame
    BY DEF MapEntry
  <2> QED
    BY <1>3, <2>1 DEF Types, Asking, Mutex, TlbFollows, EntryIsAsked, Compare, Goto, mapping
<1>4. ASSUME NEW c \in Callers, Replace(c) PROVE GuardInv'
  <2>1. req[c].frame \in Frames
    BY <1>4, RequestFrame DEF Asking, Replace
  <2>2. entry' \in [frame : Frames \cup {Nobody}, used : BOOLEAN] /\ entry'.frame = req[c].frame
    BY <1>4, <2>1 DEF Replace, MapEntry
  <2> QED
    BY <1>4, <2>2 DEF Types, Asking, Mutex, TlbFollows, EntryIsAsked, Replace, Goto
<1>5. ASSUME NEW c \in Callers, Flush(c) PROVE GuardInv'
  BY <1>5 DEF Types, Asking, Mutex, TlbFollows, EntryIsAsked, Flush, Goto
(* The accesses: the entry and the TLB change by a load only, and the      *)
(* caller either keeps the guard or drops it.                              *)
<1>6. ASSUME NEW c \in Callers, Loaded, pc[c] \in {"use", "store"},
             \/ \E v : Drop(c, v)
             \/ /\ pc' \in {pc, [pc EXCEPT ![c] = "store"]}
                /\ UNCHANGED <<holder, req>>
      PROVE  GuardInv'
  <2>1. /\ entry' \in [frame : Frames \cup {Nobody}, used : BOOLEAN]
        /\ entry'.frame = entry.frame
        /\ tlb' \in Frames \cup {Nobody}
        /\ tlb' \in {tlb, entry.frame}
    BY <1>6, LoadedKeeps
  <2>2. tlb \in {Nobody, entry.frame} /\ holder = c
    BY <1>6 DEF Types, Mutex, TlbFollows
  <2>3. CASE \E v : Drop(c, v)
    BY <1>6, <2>1, <2>2, <2>3 DEF Types, Asking, Mutex, TlbFollows, EntryIsAsked, Drop, Goto
  <2>4. CASE /\ pc' \in {pc, [pc EXCEPT ![c] = "store"]}
             /\ UNCHANGED <<holder, req>>
    BY <1>6, <2>1, <2>2, <2>4 DEF Types, Asking, Mutex, TlbFollows, EntryIsAsked
  <2> QED
    BY <1>6, <2>3, <2>4
<1>7. ASSUME NEW c \in Callers, GetEntry(c) \/ SetTest(c) \/ SetStore(c) \/ ClearEntry(c)
      PROVE  GuardInv'
  <2>1. Loaded /\ pc[c] \in {"use", "store"}
    BY <1>7 DEF GetEntry, SetTest, SetStore, ClearEntry, Access
  <2>2. CASE GetEntry(c) \/ SetStore(c)
    BY <2>2, <2>1, <1>6 DEF GetEntry, SetStore
  <2>3. CASE SetTest(c)
    BY <2>3, <2>1, <1>6 DEF SetTest, Goto
  <2>4. CASE ClearEntry(c)
    BY <2>4, <2>1, <1>6 DEF ClearEntry
  <2> QED
    BY <1>7, <2>2, <2>3, <2>4
<1>8. CASE TlbLoad
  <2>1. /\ entry' \in [frame : Frames \cup {Nobody}, used : BOOLEAN]
        /\ entry'.frame = entry.frame
        /\ tlb' \in Frames \cup {Nobody}
        /\ tlb' \in {tlb, entry.frame}
    BY <1>8, LoadedKeeps DEF TlbLoad
  <2> QED
    BY <1>8, <2>1 DEF Types, Asking, Mutex, TlbFollows, EntryIsAsked, TlbLoad
<1>9. CASE TlbForget
  BY <1>9 DEF Types, Asking, Mutex, TlbFollows, EntryIsAsked, TlbForget
<1>10. CASE UNCHANGED vars
  BY <1>10 DEF Types, Asking, Mutex, TlbFollows, EntryIsAsked, vars
<1> QED
  BY <1>1, <1>2, <1>3, <1>4, <1>5, <1>7, <1>8, <1>9, <1>10 DEF Next, Step

(***************************************************************************)
(* An access through the guard of tmp_page::map reaches the frame it was   *)
(* asked for, whatever the TLB does and whoever used the page before.      *)
(***************************************************************************)
THEOREM GuardReachesFrameThm == Spec => []GuardReachesFrame
<1>1. GuardInv => GuardReachesFrame
  BY DEF GuardInv, Types, Mutex, TlbFollows, EntryIsAsked, GuardReachesFrame, Reached
<1> QED
  BY <1>1, GuardInit, GuardNext, PTL DEF Spec

-----------------------------------------------------------------------------
(***************************************************************************)
(* Type correctness.  That an access goes to a frame at all, rather than   *)
(* to what an empty entry of the temporary page gives, needs GuardInv.     *)
(***************************************************************************)

(* The place in the frame: set and get are at their index, and only        *)
(* new_sublevel, which alone moves, and the idle, are elsewhere.           *)
Place ==
  \A c \in Callers :
    /\ pc[c] = "idle" <=> req[c] = NoCall
    /\ pc[c] = "idle" => at[c] = 0
    /\ pc[c] # "idle" => res[c] = Null
    /\ req[c].op \in {"get", "set"} => at[c] = req[c].index
    /\ req[c].op = "clear" /\ pc[c] # "use" => at[c] = 0
    /\ pc[c] = "store" => req[c].op = "set"

PlaceInv == GuardInv /\ TypeOK /\ Place

(* A request has the fields its operation gives it, and is none of NoCall. *)
LEMMA RequestFields ==
  ASSUME NEW r \in EM!Requests
  PROVE  /\ r.op \in {"get", "set", "clear"}
         /\ r.frame \in Frames /\ r.index \in Index /\ r.value \in Values
         /\ r.op = "clear" => r.index = 0
         /\ r # NoCall
<1>1. /\ r.op \in {"get", "set", "clear"}
      /\ r.frame \in Frames /\ r.index \in Index /\ r.value \in Values
      /\ r.op = "clear" => r.index = 0
  BY TmpPageAssumption DEF EM!Requests, Index
<1>2. r.op # "none"
  BY <1>1
<1> QED
  BY <1>1, <1>2 DEF NoCall

(* Nothing has been asked for at boot.                                     *)
LEMMA PlaceInit == Init => PlaceInv
<1> SUFFICES ASSUME Init PROVE PlaceInv
  OBVIOUS
<1>1. 0 \in Index
  BY TmpPageAssumption DEF Index
<1>2. TypeOK
  BY <1>1, TmpPageAssumption DEF Init, TypeOK
<1>3. Place
  BY DEF Init, Place, NoCall
<1> QED
  BY <1>2, <1>3, GuardInit DEF PlaceInv

(* Dropping the guard of tmp_page::map leaves the caller idle.             *)
LEMMA PlaceDrop ==
  ASSUME PlaceInv, GuardInv', NEW c \in Callers, NEW v \in Values, Drop(c, v),
         mem' \in [Frames -> [Index -> Values]]
  PROVE  PlaceInv'
<1>1. 0 \in Index
  BY TmpPageAssumption DEF Index
<1>2. TypeOK'
  BY <1>1, TmpPageAssumption DEF PlaceInv, GuardInv, Types, TypeOK, Drop, Goto
<1>3. Place'
  BY DEF PlaceInv, TypeOK, Place, Drop, Goto, NoCall
<1> QED
  BY <1>2, <1>3 DEF PlaceInv

(* Every step keeps PlaceInv: the loop of new_sublevel stays below ENTRIES *)
(* and the others where they were asked to be.                             *)
LEMMA PlaceNext == PlaceInv /\ [Next]_vars => PlaceInv'
<1> SUFFICES ASSUME PlaceInv, [Next]_vars PROVE PlaceInv'
  OBVIOUS
<1>0. GuardInv'
  BY GuardNext DEF PlaceInv
<1> USE TmpPageAssumption
<1>1. ASSUME NEW c \in Callers, NEW r \in EM!Requests, Call(c, r) PROVE PlaceInv'
  <2>1. TypeOK'
    BY <1>0, <1>1, RequestFields DEF PlaceInv, GuardInv, Types, TypeOK, Call, Goto, mapping
  <2>2. Place'
    BY <1>1, RequestFields DEF PlaceInv, TypeOK, Place, Call, Goto
  <2> QED
    BY <1>0, <2>1, <2>2 DEF PlaceInv
<1>2. ASSUME NEW c \in Callers, Lock(c) \/ Compare(c) \/ Replace(c) \/ Flush(c)
      PROVE  PlaceInv'
  <2>1. /\ pc[c] \notin {"idle", "use"} /\ UNCHANGED <<mem, req, at, res>>
        /\ \E l \in {"compare", "replace", "flush", "use"} : Goto(c, l)
        /\ holder' \in {holder, c}
    BY <1>2 DEF Lock, Compare, Replace, Flush
  <2>2. TypeOK'
    BY <1>0, <2>1 DEF PlaceInv, GuardInv, Types, TypeOK
  <2>3. Place'
    BY <2>1 DEF PlaceInv, TypeOK, Place, Goto
  <2> QED
    BY <1>0, <2>2, <2>3 DEF PlaceInv
(* The accesses reach the frame of the request, so mem keeps its type.     *)
<1>3. ASSUME NEW c \in Callers, pc[c] \in {"use", "store"}
      PROVE  /\ Reached = req[c].frame /\ Reached \in Frames
             /\ req[c] \in EM!Requests /\ at[c] \in Index
  BY <1>3, RequestFields
     DEF PlaceInv, GuardInv, Types, Mutex, TlbFollows, EntryIsAsked, Reached, Asking, TypeOK
<1>4. ASSUME NEW c \in Callers, GetEntry(c) PROVE PlaceInv'
  <2>1. mem[Reached][at[c]] \in Values
    BY <1>3, <1>4 DEF GetEntry, Access, PlaceInv, TypeOK
  <2> QED
    BY <1>0, <1>4, <2>1, PlaceDrop DEF GetEntry, PlaceInv, TypeOK
<1>5. ASSUME NEW c \in Callers, SetTest(c) PROVE PlaceInv'
  <2>1. CASE Drop(c, Large)
    BY <1>0, <1>5, <2>1, PlaceDrop DEF SetTest, PlaceInv, TypeOK
  <2>2. CASE Goto(c, "store") /\ UNCHANGED <<holder, req, at, res>>
    <3>1. TypeOK'
      BY <1>0, <1>5, <2>2 DEF PlaceInv, GuardInv, Types, TypeOK, SetTest
    <3>2. Place'
      BY <1>5, <2>2 DEF PlaceInv, TypeOK, Place, SetTest, Access, Goto
    <3> QED
      BY <1>0, <3>1, <3>2 DEF PlaceInv
  <2> QED
    BY <1>5, <2>1, <2>2 DEF SetTest
<1>6. ASSUME NEW c \in Callers, SetStore(c) PROVE PlaceInv'
  <2>1. mem' \in [Frames -> [Index -> Values]]
    BY <1>3, <1>6, RequestFields DEF SetStore, PlaceInv, TypeOK
  <2> QED
    BY <1>0, <1>6, <2>1, PlaceDrop DEF SetStore
<1>7. ASSUME NEW c \in Callers, ClearEntry(c) PROVE PlaceInv'
  <2>1. mem' \in [Frames -> [Index -> Values]]
    BY <1>3, <1>7 DEF ClearEntry, Access, PlaceInv, TypeOK
  <2>2. CASE Cleared(c)
    BY <1>0, <1>7, <2>1, <2>2, PlaceDrop DEF ClearEntry
  <2>3. CASE ~Cleared(c)
    <3>1. at[c] \in Index /\ at[c] + 1 \in Index
      BY <1>3, <1>7, <2>3 DEF ClearEntry, Access, Cleared, Index
    <3>2. at' \in [Callers -> Index]
      BY <1>7, <2>3, <3>1 DEF ClearEntry, NextIndex, PlaceInv, TypeOK
    <3>3. TypeOK'
      BY <1>0, <1>7, <2>1, <2>3, <3>2
         DEF PlaceInv, GuardInv, Types, TypeOK, ClearEntry
    <3>4. Place'
      BY <1>7, <2>3 DEF PlaceInv, TypeOK, Place, ClearEntry, Access
    <3> QED
      BY <1>0, <3>3, <3>4 DEF PlaceInv
  <2> QED
    BY <2>2, <2>3
<1>8. CASE TlbLoad \/ TlbForget \/ UNCHANGED vars
  <2>1. UNCHANGED <<mem, holder, pc, req, at, res>>
    BY <1>8 DEF TlbLoad, TlbForget, vars
  <2> QED
    BY <1>0, <2>1 DEF PlaceInv, GuardInv, Types, TypeOK, Place
<1> QED
  BY <1>1, <1>2, <1>4, <1>5, <1>6, <1>7, <1>8 DEF Next, Step

(***************************************************************************)
(* Type correctness; in particular the loop of new_sublevel and the writes *)
(* of set_entry stay inside a frame (address_space.rs:65-128).             *)
(***************************************************************************)
THEOREM TypeOKThm == Spec => []TypeOK
<1>1. PlaceInv => TypeOK
  BY DEF PlaceInv
<1> QED
  BY <1>1, PlaceInit, PlaceNext, PTL DEF Spec

-----------------------------------------------------------------------------
(***************************************************************************)
(* The refinement of EntryMemory.  The invariant adds what a caller has    *)
(* done and seen so far: what new_sublevel passed is cleared, and what     *)
(* set_entry tested has not become a large page.                           *)
(***************************************************************************)
Progress ==
  \A c \in Callers :
    /\ req[c].op = "clear" => \A i \in 0 .. at[c] - 1 : mem[req[c].frame][i] = Null
    /\ pc[c] = "store" => ~(req[c].frame \in Upper /\ mem[req[c].frame][at[c]] = Large)

StepInv == PlaceInv /\ Progress

(* Who accesses memory holds the mutex, reaches the frame of its request,  *)
(* and nobody else is in the middle of an operation.                       *)
LEMMA AtWork ==
  ASSUME PlaceInv, NEW c \in Callers, pc[c] \in {"use", "store"}
  PROVE  /\ Reached = req[c].frame /\ Reached \in Frames
         /\ req[c] \in EM!Requests /\ at[c] \in Index
         /\ \A d \in Callers \ {c} : pc[d] \in {"idle", "map"} /\ ~Clearing(d)
<1>1. /\ Reached = req[c].frame /\ Reached \in Frames
      /\ req[c] \in EM!Requests /\ at[c] \in Index
  BY RequestFields, TmpPageAssumption
     DEF PlaceInv, GuardInv, Types, Mutex, TlbFollows, EntryIsAsked, Reached, Asking, TypeOK
<1>2. \A d \in Callers \ {c} : pc[d] \in {"idle", "map"}
  BY DEF PlaceInv, GuardInv, Types, Mutex
<1>3. \A d \in Callers \ {c} : ~Clearing(d)
  <2> SUFFICES ASSUME NEW d \in Callers \ {c}, req[d].op = "clear" PROVE ~(at[d] > 0)
    BY DEF Clearing
  <2>1. at[d] = 0
    BY <1>2 DEF PlaceInv, Place
  <2> QED
    BY <2>1
<1> QED
  BY <1>1, <1>2, <1>3

(* No access has happened at boot.                                         *)
LEMMA StepInit == Init => StepInv
<1> SUFFICES ASSUME Init PROVE StepInv
  OBVIOUS
<1>1. Progress
  BY DEF Init, Progress, NoCall
<1> QED
  BY <1>1, PlaceInit DEF StepInv

(* Only the holder of the mutex writes, so nothing changes behind the back *)
(* of set_entry's test or of new_sublevel's loop.                          *)
LEMMA StepNext == StepInv /\ [Next]_vars => StepInv'
<1> SUFFICES ASSUME StepInv, [Next]_vars PROVE StepInv'
  OBVIOUS
<1>0. PlaceInv /\ PlaceInv' /\ Progress
  BY PlaceNext DEF StepInv
<1> SUFFICES Progress'
  BY <1>0 DEF StepInv
<1>1. ASSUME NEW c \in Callers, NEW r \in EM!Requests, Call(c, r) PROVE Progress'
  BY <1>0, <1>1, RequestFields DEF PlaceInv, TypeOK, Progress, Call, Goto
<1>2. ASSUME NEW c \in Callers, Lock(c) \/ Compare(c) \/ Replace(c) \/ Flush(c)
      PROVE  Progress'
  <2>1. /\ UNCHANGED <<mem, req, at, res>>
        /\ \E l \in {"compare", "replace", "flush", "use"} : Goto(c, l)
    BY <1>2 DEF Lock, Compare, Replace, Flush
  <2> QED
    BY <1>0, <2>1 DEF PlaceInv, TypeOK, Progress, Goto
(* After the guard is dropped everyone is before the first access.         *)
<1>3. ASSUME NEW c \in Callers, pc[c] \in {"use", "store"}, NEW v, Drop(c, v) PROVE Progress'
  <2>1. \A d \in Callers : pc'[d] \in {"idle", "map"}
    BY <1>0, <1>3, AtWork DEF PlaceInv, TypeOK, Drop, Goto
  <2>2. \A d \in Callers : req'[d].op = "clear" => at'[d] = 0
    BY <1>0, <2>1 DEF PlaceInv, Place
  <2> QED
    BY <2>1, <2>2 DEF Progress
<1>4. ASSUME NEW c \in Callers, GetEntry(c) \/ SetStore(c) PROVE Progress'
  BY <1>3, <1>4 DEF GetEntry, SetStore, Access
<1>5. ASSUME NEW c \in Callers, SetTest(c) PROVE Progress'
  <2>1. CASE req[c].frame \in Upper /\ mem[Reached][at[c]] = Large
    BY <1>3, <1>5, <2>1 DEF SetTest, Access
  <2>2. CASE ~(req[c].frame \in Upper /\ mem[Reached][at[c]] = Large)
    BY <1>0, <1>5, <2>2, AtWork DEF SetTest, Access, Goto, PlaceInv, TypeOK, Progress
  <2> QED
    BY <2>1, <2>2
<1>6. ASSUME NEW c \in Callers, ClearEntry(c) PROVE Progress'
  <2>1. CASE Cleared(c)
    BY <1>3, <1>6, <2>1 DEF ClearEntry, Access
  <2>2. CASE ~Cleared(c)
    <3>1. /\ pc[c] = "use" /\ req[c].op = "clear"
          /\ mem' = [mem EXCEPT ![req[c].frame][at[c]] = Null]
          /\ at' = [at EXCEPT ![c] = at[c] + 1]
          /\ UNCHANGED <<pc, req>>
          /\ at[c] \in Index /\ req[c].frame \in Frames
      BY <1>0, <1>6, <2>2, AtWork DEF ClearEntry, Access, NextIndex
    <3>2. \A i \in 0 .. at'[c] - 1 : mem'[req'[c].frame][i] = Null
      <4>1. at'[c] = at[c] + 1 /\ at[c] \in Nat /\ at[c] < ENTRIES /\ ENTRIES \in Nat
        BY <1>0, <3>1, TmpPageAssumption DEF PlaceInv, TypeOK, Index
      <4>2. \A i \in 0 .. at[c] - 1 : mem[req[c].frame][i] = Null
        BY <1>0, <3>1 DEF Progress
      <4>3. mem[req[c].frame] \in [Index -> Values]
        BY <1>0, <3>1 DEF PlaceInv, TypeOK
      <4>4. mem'[req[c].frame] = [mem[req[c].frame] EXCEPT ![at[c]] = Null]
        BY <1>0, <3>1 DEF PlaceInv, TypeOK
      <4>5. ASSUME NEW i \in 0 .. at[c] PROVE mem'[req[c].frame][i] = Null
        BY <3>1, <4>1, <4>2, <4>3, <4>4, <4>5 DEF Index
      <4> QED
        BY <3>1, <4>1, <4>5
    <3>3. \A d \in Callers \ {c} : pc[d] \in {"idle", "map"}
      BY <1>0, <3>1, AtWork
    <3>4. \A d \in Callers \ {c} : req'[d].op = "clear" => at'[d] = 0
      BY <1>0, <3>1, <3>3 DEF PlaceInv, Place
    <3> QED
      BY <3>1, <3>2, <3>3, <3>4 DEF Progress
  <2> QED
    BY <2>1, <2>2
<1>7. CASE TlbLoad \/ TlbForget \/ UNCHANGED vars
  <2>1. UNCHANGED <<mem, pc, req, at>>
    BY <1>7 DEF TlbLoad, TlbForget, vars
  <2> QED
    BY <1>0, <2>1 DEF Progress
<1> QED
  BY <1>1, <1>2, <1>4, <1>5, <1>6, <1>7 DEF Next, Step

(* What EntryMemory sees.                                                  *)
AbsMem == [f \in Frames |-> Settled(f)]
AbsReq == [c \in Callers |-> IF Clearing(c) THEN NoCall ELSE req[c]]
AbsRes == [c \in Callers |-> IF Clearing(c) THEN Null ELSE res[c]]

(* When nobody is in the loop of new_sublevel it sees what there is.       *)
LEMMA AbsPlain ==
  ASSUME TypeOK, \A d \in Callers : ~Clearing(d)
  PROVE  AbsMem = mem /\ AbsReq = req /\ AbsRes = res
  BY DEF TypeOK, AbsMem, AbsReq, AbsRes, Settled

(* When c is, it sees a cleared frame and a call that has returned.        *)
LEMMA AbsClearing ==
  ASSUME TypeOK, NEW c \in Callers, Clearing(c), \A d \in Callers \ {c} : ~Clearing(d)
  PROVE  /\ AbsMem = [mem EXCEPT ![req[c].frame] = [i \in Index |-> Null]]
         /\ AbsReq = [req EXCEPT ![c] = NoCall]
         /\ AbsRes = [res EXCEPT ![c] = Null]
  BY DEF TypeOK, AbsMem, AbsReq, AbsRes, Settled

(* Nobody is in the loop of new_sublevel once the guard is dropped.        *)
LEMMA DropPlain ==
  ASSUME PlaceInv, PlaceInv', NEW c \in Callers, pc[c] \in {"use", "store"},
         NEW v, Drop(c, v)
  PROVE  AbsMem' = mem' /\ AbsReq' = req' /\ AbsRes' = res'
<1>1. \A d \in Callers : pc'[d] \in {"idle", "map"}
  BY AtWork DEF PlaceInv, TypeOK, Drop, Goto
<1>2. \A d \in Callers : req'[d].op = "clear" => at'[d] = 0
  BY <1>1 DEF PlaceInv, Place
<1>3. \A d \in Callers : ~Clearing(d)'
  BY <1>2 DEF Clearing
<1> QED
  BY <1>3, AbsPlain DEF PlaceInv, TypeOK, AbsMem, AbsReq, AbsRes, Settled

(***************************************************************************)
(* get_entry, set_entry and new_sublevel are atomic on physical memory, as *)
(* PageTable takes them to be (address_space.rs:65-128).  The step of the  *)
(* abstract memory is GetEntry, the refusal of SetTest or SetStore, and    *)
(* the first ClearEntry of the loop.                                       *)
(***************************************************************************)
THEOREM ImplementsEntryMemoryThm == Spec => ImplementsEntryMemory
<1>1. Init => EM!Init
  <2> SUFFICES ASSUME Init PROVE EM!Init
    OBVIOUS
  <2>1. TypeOK /\ \A d \in Callers : ~Clearing(d)
    BY PlaceInit DEF Init, PlaceInv, Clearing, NoCall
  <2>2. AbsMem = mem /\ AbsReq = req /\ AbsRes = res
    BY <2>1, AbsPlain
  <2> QED
    BY <2>1, <2>2 DEF Init, TypeOK, EM!Init, EM!None, NoCall, AbsMem, AbsReq, AbsRes
<1>2. ASSUME StepInv, StepInv', [Next]_vars PROVE [EM!Next]_EM!vars
  <2>0. PlaceInv /\ PlaceInv' /\ Progress
    BY <1>2 DEF StepInv
  <2> USE TmpPageAssumption
  <2>1. ASSUME UNCHANGED <<mem, req, at, res>> PROVE UNCHANGED EM!vars
    BY <2>1 DEF EM!vars, Settled, Clearing
  <2>2. ASSUME NEW c \in Callers, NEW r \in EM!Requests, Call(c, r) PROVE EM!Next
    <3>1. ~Clearing(c) /\ req[c] = NoCall
      BY <2>0, <2>2 DEF PlaceInv, Place, Call, Clearing, NoCall
    <3>2. ~Clearing(c)' /\ req'[c] = r /\ res'[c] = Null
      <4>1. req'[c] = r /\ at'[c] = r.index /\ res'[c] = Null
        BY <2>0, <2>2 DEF PlaceInv, TypeOK, Call
      <4> QED
        BY <4>1, RequestFields DEF Clearing
    <3>3. \A d \in Callers \ {c} : /\ Clearing(d)' <=> Clearing(d)
                                   /\ req'[d] = req[d] /\ res'[d] = res[d]
      BY <2>0, <2>2 DEF PlaceInv, TypeOK, Call, Clearing
    <3>4. AbsMem' = AbsMem
      BY <2>2, <3>1, <3>2, <3>3 DEF AbsMem, Settled, Call
    <3>5. AbsReq[c] = NoCall /\ AbsReq' = [AbsReq EXCEPT ![c] = r]
      BY <3>1, <3>2, <3>3 DEF AbsReq
    <3>6. AbsRes' = [AbsRes EXCEPT ![c] = Null]
      BY <3>1, <3>2, <3>3 DEF AbsRes
    <3>7. EM!Request(c, r)
      BY <3>4, <3>5, <3>6 DEF EM!Request, EM!None, NoCall, AbsMem, AbsReq, AbsRes
    <3> QED
      BY <3>7 DEF EM!Next
  <2>3. ASSUME NEW c \in Callers, pc[c] \in {"use", "store"}, ~Clearing(c)
        PROVE  AbsMem = mem /\ AbsReq = req /\ AbsRes = res
    BY <2>0, <2>3, AtWork, AbsPlain DEF PlaceInv
  <2>4. ASSUME NEW c \in Callers, GetEntry(c) PROVE EM!Next
    <3>1. /\ pc[c] = "use" /\ req[c].op = "get" /\ mem' = mem
          /\ Reached = req[c].frame /\ at[c] = req[c].index
          /\ Drop(c, mem[Reached][at[c]])
      BY <2>0, <2>4, AtWork DEF GetEntry, Access, PlaceInv, Place
    <3>2. AbsMem = mem /\ AbsReq = req /\ AbsRes = res
      BY <2>3, <3>1 DEF Clearing
    <3>3. AbsMem' = mem' /\ AbsReq' = req' /\ AbsRes' = res'
      BY <2>0, <3>1, DropPlain
    <3>4. EM!Get(c)
      BY <3>1, <3>2, <3>3
         DEF Drop, EM!Get, EM!Done, EM!Entry, EM!None, NoCall, AbsMem, AbsReq, AbsRes
    <3> QED
      BY <3>4 DEF EM!Next
  <2>5. ASSUME NEW c \in Callers, SetTest(c) PROVE EM!Next \/ UNCHANGED EM!vars
    <3>1. /\ pc[c] = "use" /\ req[c].op = "set" /\ mem' = mem
          /\ Reached = req[c].frame /\ at[c] = req[c].index
      BY <2>0, <2>5, AtWork DEF SetTest, Access, PlaceInv, Place
    <3>2. CASE req[c].frame \in Upper /\ mem[Reached][at[c]] = Large
      <4>1. Drop(c, Large)
        BY <2>5, <3>2 DEF SetTest
      <4>2. AbsMem = mem /\ AbsReq = req /\ AbsRes = res
        BY <2>3, <3>1 DEF Clearing
      <4>3. AbsMem' = mem' /\ AbsReq' = req' /\ AbsRes' = res'
        BY <2>0, <3>1, <4>1, DropPlain
      <4>4. EM!Set(c)
        BY <3>1, <3>2, <4>1, <4>2, <4>3
           DEF Drop, EM!Set, EM!Refused, EM!Done, EM!Entry, EM!None, NoCall,
               AbsMem, AbsReq, AbsRes
      <4> QED
        BY <4>4 DEF EM!Next
    <3>3. CASE ~(req[c].frame \in Upper /\ mem[Reached][at[c]] = Large)
      BY <2>1, <2>5, <3>1, <3>3 DEF SetTest
    <3> QED
      BY <3>2, <3>3
  <2>6. ASSUME NEW c \in Callers, SetStore(c) PROVE EM!Next
    <3>1. /\ pc[c] = "store" /\ req[c].op = "set"
          /\ Reached = req[c].frame /\ at[c] = req[c].index
          /\ mem' = [mem EXCEPT ![Reached][at[c]] = req[c].value]
          /\ Drop(c, Null)
          /\ ~(req[c].frame \in Upper /\ mem[req[c].frame][at[c]] = Large)
      BY <2>0, <2>6, AtWork DEF SetStore, PlaceInv, Place, Progress
    <3>2. AbsMem = mem /\ AbsReq = req /\ AbsRes = res
      BY <2>3, <3>1 DEF Clearing
    <3>3. AbsMem' = mem' /\ AbsReq' = req' /\ AbsRes' = res'
      BY <2>0, <3>1, DropPlain
    <3>4. EM!Set(c)
      BY <3>1, <3>2, <3>3
         DEF Drop, EM!Set, EM!Refused, EM!Done, EM!Entry, EM!None, NoCall,
             AbsMem, AbsReq, AbsRes
    <3> QED
      BY <3>4 DEF EM!Next
  (* new_sublevel takes effect with its first entry.                       *)
  <2>7. ASSUME NEW c \in Callers, ClearEntry(c) PROVE EM!Next \/ UNCHANGED EM!vars
    <3>1. /\ pc[c] = "use" /\ req[c].op = "clear" /\ req[c].frame \in Frames
          /\ at[c] \in Index /\ at[c] \in Nat
          /\ mem' = [mem EXCEPT ![req[c].frame][at[c]] = Null]
          /\ \A d \in Callers \ {c} : ~Clearing(d)
      <4>1. pc[c] = "use" /\ req[c].op = "clear"
        BY <2>7 DEF ClearEntry, Access
      <4>2. /\ Reached = req[c].frame /\ Reached \in Frames /\ at[c] \in Index
            /\ \A d \in Callers \ {c} : ~Clearing(d)
        BY <2>0, <4>1, AtWork
      <4> QED
        BY <2>7, <4>1, <4>2 DEF ClearEntry, Index
    <3> DEFINE Zero == [i \in Index |-> Null]
               Now == [mem EXCEPT ![req[c].frame] = Zero]
    <3>2. /\ AbsMem' = Now
          /\ AbsReq' = [req EXCEPT ![c] = NoCall]
          /\ AbsRes' = [res EXCEPT ![c] = Null]
      <4>1. CASE Cleared(c)
        <5>1. Drop(c, Null)
          BY <2>7, <4>1 DEF ClearEntry
        <5>2. AbsMem' = mem' /\ AbsReq' = req' /\ AbsRes' = res'
          BY <2>0, <3>1, <5>1, DropPlain
        <5>3. \A i \in 0 .. at[c] - 1 : mem[req[c].frame][i] = Null
          BY <2>0, <3>1 DEF Progress
        <5>4. mem \in [Frames -> [Index -> Values]] /\ Index = 0 .. at[c]
          <6>1. Index = 0 .. at[c]
            BY <3>1, <4>1 DEF Cleared, Index
          <6> QED
            BY <2>0, <6>1 DEF PlaceInv, TypeOK
        <5>5. [mem[req[c].frame] EXCEPT ![at[c]] = Null] = Zero
          BY <3>1, <5>3, <5>4
        <5>6. mem' = Now
          BY <3>1, <5>4, <5>5
        <5> QED
          BY <5>1, <5>2, <5>6 DEF Drop
      <4>2. CASE ~Cleared(c)
        <5>1. at' = [at EXCEPT ![c] = at[c] + 1] /\ UNCHANGED <<req, res>>
          BY <2>7, <4>2 DEF ClearEntry, NextIndex
        <5>2. at'[c] = at[c] + 1 /\ \A d \in Callers \ {c} : at'[d] = at[d]
          BY <2>0, <5>1 DEF PlaceInv, TypeOK
        <5>3. Clearing(c)' /\ \A d \in Callers \ {c} : ~Clearing(d)'
          BY <3>1, <5>1, <5>2 DEF Clearing
        <5>4. /\ AbsMem' = [mem' EXCEPT ![req[c].frame] = Zero]
              /\ AbsReq' = [req EXCEPT ![c] = NoCall]
              /\ AbsRes' = [res EXCEPT ![c] = Null]
          <6>1. AbsMem' = [mem' EXCEPT ![req[c].frame] = Zero]
            <7>1. ASSUME NEW f \in Frames
                  PROVE  AbsMem'[f] = IF f = req[c].frame THEN Zero ELSE mem'[f]
              BY <5>1, <5>3 DEF AbsMem, Settled
            <7>2. DOMAIN mem' = Frames /\ AbsMem' = [f \in Frames |-> AbsMem'[f]]
              BY <2>0 DEF PlaceInv, TypeOK, AbsMem
            <7> QED
              BY <3>1, <7>1, <7>2
          <6>2. AbsReq' = [req EXCEPT ![c] = NoCall]
            BY <2>0, <5>1, <5>3 DEF PlaceInv, TypeOK, AbsReq
          <6>3. AbsRes' = [res EXCEPT ![c] = Null]
            BY <2>0, <5>1, <5>3 DEF PlaceInv, TypeOK, AbsRes
          <6> QED
            BY <6>1, <6>2, <6>3
        <5>5. [mem' EXCEPT ![req[c].frame] = Zero] = Now
          BY <2>0, <3>1 DEF PlaceInv, TypeOK
        <5> QED
          BY <5>4, <5>5
      <4> QED
        BY <4>1, <4>2
    <3>3. CASE at[c] = 0
      <4>1. AbsMem = mem /\ AbsReq = req /\ AbsRes = res
        BY <2>3, <3>1, <3>3 DEF Clearing
      <4>2. EM!Clear(c)
        BY <3>1, <3>2, <4>1 DEF EM!Clear, EM!Done, EM!None, NoCall, AbsMem, AbsReq, AbsRes
      <4> QED
        BY <4>2 DEF EM!Next
    <3>4. CASE at[c] > 0
      <4>1. Clearing(c)
        BY <3>1, <3>4 DEF Clearing
      <4>2. /\ AbsMem = Now
            /\ AbsReq = [req EXCEPT ![c] = NoCall]
            /\ AbsRes = [res EXCEPT ![c] = Null]
        BY <2>0, <3>1, <4>1, AbsClearing DEF PlaceInv
      <4> QED
        BY <3>2, <4>2 DEF EM!vars, AbsMem, AbsReq, AbsRes
    <3> QED
      BY <3>1, <3>3, <3>4
  <2>8. ASSUME NEW c \in Callers, Lock(c) \/ Compare(c) \/ Replace(c) \/ Flush(c)
        PROVE  UNCHANGED EM!vars
    BY <2>1, <2>8 DEF Lock, Compare, Replace, Flush
  <2>9. CASE TlbLoad \/ TlbForget \/ UNCHANGED vars
    BY <2>1, <2>9 DEF TlbLoad, TlbForget, vars
  <2> QED
    BY <1>2, <2>2, <2>4, <2>5, <2>6, <2>7, <2>8, <2>9 DEF Next, Step
<1> QED
  BY <1>1, <1>2, StepInit, StepNext, PTL DEF Spec, ImplementsEntryMemory, EM!Spec
=============================================================================
