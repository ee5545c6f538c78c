--------------------------- MODULE SequenceAllocator ---------------------------
(***************************************************************************)
(* Hot-wallet sequence numbers (packages/stellar/src/sequence.ts): workers *)
(* of one or several API processes share two Redis keys, `base` and        *)
(* `offset`; workers of one process also share the pendingBaseLoads map.   *)
(* Every await is a step of its own.                                       *)
(*                                                                         *)
(* This module has the operations; its own specification runs concurrent   *)
(* reservations.  BatchPayout adds the ledger, the submissions and resets. *)
(***************************************************************************)
EXTENDS Integers, Sequences

CONSTANTS Workers,       \* concurrent callers
          Processes,     \* API processes
          HomeOf,        \* the process of each worker
          None,          \* no worker, no value
          MaxReserved    \* bound: reservations made in a behaviour

ASSUME AllocatorAssumption ==
    /\ HomeOf \in [Workers -> Processes]
    /\ None \notin Workers
    /\ None \notin Int
    /\ MaxReserved \in Nat

VARIABLES base,          \* Redis `<prefix>:base`, None while absent
          offset,        \* Redis `<prefix>:offset`, 0 while absent
          loads,         \* pendingBaseLoads: whose promise each process holds
          pc,            \* where each worker is
          awaits,        \* the load a worker waits for
          got,           \* the base sequence a worker has in hand
          onLedger,      \* the account's sequence on Stellar (external)
          reserved       \* history: transactionSequences handed out, in order

keys == <<base, offset>>
local == <<pc, awaits, got>>
allocVars == <<base, offset, loads, pc, awaits, got, onLedger, reserved>>

Goto(w, label) == pc' = [pc EXCEPT ![w] = label]

AllocInit ==
    /\ base = None
    /\ offset = 0
    /\ loads = [p \in Processes |-> None]
    /\ pc = [w \in Workers |-> "get"]
    /\ awaits = [w \in Workers |-> None]
    /\ got = [w \in Workers |-> None]
    /\ onLedger = 0
    /\ reserved = <<>>

-------------------------------------------------------------------------------
(* ensureBaseSequence *)

\* await store.get(baseKey)
GetBase(w) ==
    /\ pc[w] = "get"
    /\ got' = [got EXCEPT ![w] = base]
    /\ Goto(w, IF base # None THEN "incr" ELSE "check")
    /\ UNCHANGED <<keys, loads, awaits, onLedger, reserved>>

\* Join the load of this process, or start one.
JoinOrLoad(w) ==
    /\ pc[w] = "check"
    /\ \/ /\ loads[HomeOf[w]] # None
          /\ awaits' = [awaits EXCEPT ![w] = loads[HomeOf[w]]]
          /\ Goto(w, "await")
          /\ UNCHANGED loads
       \/ /\ loads[HomeOf[w]] = None
          /\ loads' = [loads EXCEPT ![HomeOf[w]] = w]
          /\ Goto(w, "load")
          /\ UNCHANGED awaits
    /\ UNCHANGED <<keys, got, onLedger, reserved>>

\* await loadBaseSequence(): Horizon's loadAccount
LoadBase(w) ==
    /\ pc[w] = "load"
    /\ got' = [got EXCEPT ![w] = onLedger]
    /\ Goto(w, "setnx")
    /\ UNCHANGED <<keys, loads, awaits, onLedger, reserved>>

Awaiting(w) == {v \in Workers : pc[v] = "await" /\ awaits[v] = w}

\* Fault (ResolveKeepingEntry): the map keeps the settled promise.
\* The load of w ends with `value`: finally() forgets it, and everyone who
\* joined it gets the same value and goes to `label`.
ResolveKeepingEntry(w, value, label) ==
    LET all == Awaiting(w) \cup {w} IN
    /\ got' = [v \in Workers |-> IF v \in all THEN value ELSE got[v]]
    /\ awaits' = [v \in Workers |-> IF v \in all THEN None ELSE awaits[v]]
    /\ pc' = [v \in Workers |-> IF v \in all THEN label ELSE pc[v]]
    /\ UNCHANGED loads

Resolve(w, value, label) ==
    LET all == Awaiting(w) \cup {w} IN
    /\ loads' = [loads EXCEPT ![HomeOf[w]] = None]
    /\ got' = [v \in Workers |-> IF v \in all THEN value ELSE got[v]]
    /\ awaits' = [v \in Workers |-> IF v \in all THEN None ELSE awaits[v]]
    /\ pc' = [v \in Workers |-> IF v \in all THEN label ELSE pc[v]]

\* Fault: SET without NX.
SetUnconditionally(w) ==
    /\ pc[w] = "setnx"
    /\ base' = got[w]
    /\ Resolve(w, got[w], "incr")
    /\ UNCHANGED <<offset, onLedger, reserved>>

\* await store.setIfAbsent(baseKey, loaded)
SetIfAbsent(w) ==
    /\ pc[w] = "setnx"
    /\ \/ /\ base = None
          /\ base' = got[w]
          /\ Resolve(w, got[w], "incr")
       \/ /\ base # None
          /\ Goto(w, "reget")
          /\ UNCHANGED <<base, loads, awaits, got>>
    /\ UNCHANGED <<offset, onLedger, reserved>>

\* (await store.get(baseKey)) ?? loaded
GetAgain(w) ==
    /\ pc[w] = "reget"
    /\ Resolve(w, IF base = None THEN got[w] ELSE base, "incr")
    /\ UNCHANGED <<keys, onLedger, reserved>>

\* loadBaseSequence rejects: so does every call that joined it.
LoadFails(w) ==
    /\ pc[w] = "load"
    /\ Resolve(w, None, "failed")
    /\ UNCHANGED <<keys, onLedger, reserved>>

-------------------------------------------------------------------------------
(* reserveSequence *)

\* await store.incr(offsetKey); transactionSequence = base + offset
TransactionSequence(w) == got[w] + offset + 1

Incr(w) ==
    /\ pc[w] = "incr"
    /\ offset' = offset + 1
    /\ Goto(w, "reserved")
    /\ UNCHANGED <<base, loads, awaits, got, onLedger>>

-------------------------------------------------------------------------------
(* resetSequence *)

\* Forget the pending load, then await loadBaseSequence().
ResetLoad(w) ==
    /\ pc[w] = "reset"
    /\ loads' = [loads EXCEPT ![HomeOf[w]] = None]
    /\ got' = [got EXCEPT ![w] = onLedger]
    /\ Goto(w, "resetSet")
    /\ UNCHANGED <<keys, awaits, onLedger, reserved>>

\* await store.set(baseKey, baseSequence)
ResetSet(w) ==
    /\ pc[w] = "resetSet"
    /\ base' = got[w]
    /\ Goto(w, "resetDel")
    /\ UNCHANGED <<offset, loads, awaits, got, onLedger, reserved>>

\* await store.del(offsetKey)
ResetDel(w) ==
    /\ pc[w] = "resetDel"
    /\ offset' = 0
    /\ Goto(w, "get")
    /\ UNCHANGED <<base, loads, awaits, got, onLedger, reserved>>

-------------------------------------------------------------------------------
(* Concurrent reservations, no reset *)

Ensure(w) ==
    \/ GetBase(w)
    \/ JoinOrLoad(w)
    \/ LoadBase(w)
    \/ SetIfAbsent(w)
    \/ GetAgain(w)

\* A caller that has its number, or lost its load, calls again.
Again(w) ==
    /\ pc[w] \in {"reserved", "failed"}
    /\ Goto(w, "get")
    /\ UNCHANGED <<keys, loads, awaits, got, onLedger, reserved>>

Reserve(w) ==
    \/ Ensure(w)
    \/ LoadFails(w)
    \/ /\ Len(reserved) < MaxReserved
       /\ Incr(w)
       /\ reserved' = Append(reserved, TransactionSequence(w))
    \/ Again(w)

\* A transaction of the wallet enters the ledger at any time.
LedgerMoves ==
    /\ onLedger < MaxReserved
    /\ onLedger' = onLedger + 1
    /\ UNCHANGED <<keys, loads, local, reserved>>

AllocNext == LedgerMoves \/ \E w \in Workers : Reserve(w)

AllocSpec == AllocInit /\ [][AllocNext]_allocVars

-------------------------------------------------------------------------------
(* Properties *)

Labels == {"get", "check", "await", "load", "setnx", "reget", "incr",
           "reserved", "failed", "reset", "resetSet", "resetDel"}

\* Both Redis keys, the map and the program counters keep their types, and a
\* worker about to use its base sequence has one.
AllocTypeOK ==
    /\ base \in Int \cup {None}
    /\ offset \in Nat
    /\ loads \in [Processes -> Workers \cup {None}]
    /\ pc \in [Workers -> Labels]
    /\ awaits \in [Workers -> Workers \cup {None}]
    /\ got \in [Workers -> Int \cup {None}]
    /\ \A w \in Workers : pc[w] \in {"setnx", "reget", "incr"} => got[w] # None
    /\ onLedger \in Nat
    /\ reserved \in Seq(Int)

\* sequence.test.ts "reserves 200 monotonic sequences concurrently": however
\* the workers of all processes interleave with each other, with failed
\* loads and with a moving ledger, the numbers handed out are base + 1,
\* base + 2, ... with no repetition and no gap.
DenseAndUnique ==
    /\ Len(reserved) = offset
    /\ \A i \in 1 .. Len(reserved) : reserved[i] = base + i
================================================================================
