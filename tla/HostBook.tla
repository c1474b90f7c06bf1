------------------------------ MODULE HostBook ------------------------------
(***************************************************************************)
(* Host memory is reported by two channels: registered (pinned) memory by  *)
(* the aclrt hooks and CPU tensors by hooks on torch, which                *)
(* python/msmemscope/cpu_tensor_collection.py installs as soon as it is    *)
(* safe to patch torch.  The books hostPtrs_ and halPtrs_ of EventReport   *)
(* keep one memory from being reported twice.                              *)
(*                                                                         *)
(* The trace stays on: what is reported in shadow mode is in EventRouter.  *)
(* A finalizer and its report are one step.                                *)
(***************************************************************************)
EXTENDS Integers, FiniteSets

CONSTANTS
  HostAddrs,   \* host addresses
  Makers,      \* the threads that make tensors
  MaxSwitches  \* bound on enables, disables and changes of the step

VARIABLES
  storage,    \* addresses of live storages of tensors
  pinned,     \* addresses of registered memory
  hostPtrs,   \* address -> the channel that reported it, or none
  halPtrs,    \* registered addresses EventReport knows
  skip,       \* IsNeedSkip for the host: the step is not selected
  cpuBlocks,  \* _cpu_blocks: reported storages whose finalizer will tell
  finals,     \* storages with a finalizer
  making,     \* maker -> the address in its hook, and where it is
  handlers,   \* torch is patched
  pending,    \* _pending_enable
  deferred,   \* threads of _deferred_enable: those that wait and those about to patch
  npuHook,    \* the hook on the import of torch_npu is installed
  npu,        \* torch_npu: absent, importing, done
  flushing,   \* a disable is under way, and the keys it still has to free
  open,       \* history: MALLOCs less FREEs by address and channel
  switches    \* enables, disables and changes of the step so far

books == <<hostPtrs, halPtrs, open>>
memory == <<storage, pinned>>
python == <<cpuBlocks, finals, making>>
patching == <<handlers, pending, deferred, npuHook, npu>>
vars == <<books, memory, python, patching, flushing, skip, switches>>

None == "none"
Idle == [addr |-> None, at |-> "idle"]

-----------------------------------------------------------------------------
(* EventReport *)

\* Mutant: a channel looks for its own addresses only.
Taken_OwnOnly(a, channel) == hostPtrs[a] = channel

\* An address belongs to the channel that reports it first.
Taken(a, channel) == hostPtrs[a] # None

Malloc(a, channel) ==
  /\ hostPtrs' = [hostPtrs EXCEPT ![a] = channel]
  /\ open' = [open EXCEPT ![a][channel] = @ + 1]

ReportHostRegister(a) ==
  IF skip \/ Taken(a, "pinned") THEN UNCHANGED books
  ELSE Malloc(a, "pinned") /\ halPtrs' = halPtrs \cup {a}

ReportHostUnregister(a) ==
  IF skip \/ a \notin halPtrs THEN UNCHANGED books
  ELSE /\ halPtrs' = halPtrs \ {a}
       /\ hostPtrs' = IF hostPtrs[a] = "pinned" THEN [hostPtrs EXCEPT ![a] = None] ELSE hostPtrs
       /\ open' = [open EXCEPT ![a]["pinned"] = @ - 1]

Accepted(a) == ~skip /\ ~Taken(a, "cpu")

\* ReportCpuTensor of a tensor that is gone.
ReportCpuFree(a) ==
  IF skip \/ hostPtrs[a] # "cpu" THEN UNCHANGED books
  ELSE /\ hostPtrs' = [hostPtrs EXCEPT ![a] = None]
       /\ open' = [open EXCEPT ![a]["cpu"] = @ - 1]
       /\ UNCHANGED halPtrs

-----------------------------------------------------------------------------
(* The application *)

Register(a) ==
  /\ a \notin pinned /\ pinned' = pinned \cup {a}
  /\ ReportHostRegister(a)
  /\ UNCHANGED <<storage, python, patching, flushing, skip, switches>>

Unregister(a) ==
  /\ a \in pinned /\ pinned' = pinned \ {a}
  /\ ReportHostUnregister(a)
  /\ UNCHANGED <<storage, python, patching, flushing, skip, switches>>

\* A patched function of torch returns a tensor, of a new storage or of an old
\* one; the hook looks whether the storage is known.
Make(m, a) ==
  /\ making[m] = Idle /\ ~\E n \in Makers : making[n].addr = a
  /\ storage' = storage \cup {a}
  /\ making' = IF handlers /\ a \notin cpuBlocks THEN [making EXCEPT ![m] = [addr |-> a, at |-> "report"]] ELSE making
  /\ UNCHANGED <<pinned, books, cpuBlocks, finals, patching, flushing, skip, switches>>

ReportCpuTensor(m) ==
  /\ making[m].at = "report"
  /\ IF Accepted(making[m].addr)
     THEN /\ Malloc(making[m].addr, "cpu") /\ UNCHANGED halPtrs
          /\ making' = [making EXCEPT ![m].at = "keep"]
     ELSE UNCHANGED books /\ making' = [making EXCEPT ![m] = Idle]
  /\ UNCHANGED <<memory, cpuBlocks, finals, patching, flushing, skip, switches>>

Keep(m) ==
  /\ making[m].at = "keep"
  /\ cpuBlocks' = cpuBlocks \cup {making[m].addr}
  /\ finals' = finals \cup {making[m].addr}
  /\ making' = [making EXCEPT ![m] = Idle]
  /\ UNCHANGED <<memory, books, patching, flushing, skip, switches>>

\* _on_storage_freed: a storage disable has flushed is no longer known.
StorageFreed(a) ==
  /\ cpuBlocks' = cpuBlocks \ {a}
  /\ IF a \in cpuBlocks THEN ReportCpuFree(a) ELSE UNCHANGED books

Collect(a) ==
  /\ a \in storage \ pinned /\ ~\E m \in Makers : making[m].addr = a
  /\ storage' = storage \ {a} /\ finals' = finals \ {a}
  /\ IF a \in finals THEN StorageFreed(a) ELSE UNCHANGED <<cpuBlocks, books>>
  /\ UNCHANGED <<pinned, making, patching, flushing, skip, switches>>

Count == switches < MaxSwitches /\ switches' = switches + 1

SetStep ==
  /\ Count /\ skip' = ~skip
  /\ UNCHANGED <<books, memory, python, patching, flushing>>

-----------------------------------------------------------------------------
(* Patching torch *)

NpuInitialized == npu = "done"

RegisterHandlers == handlers' = TRUE /\ pending' = (pending /\ handlers)

Enable ==
  /\ Count /\ ~flushing.on
  /\ ~handlers
  /\ \/ NpuInitialized /\ RegisterHandlers /\ UNCHANGED <<deferred, npuHook>>
     \/ /\ ~NpuInitialized /\ ~pending /\ pending' = TRUE
        /\ deferred' = [deferred EXCEPT !.waits = @ + 1]
        /\ npuHook' = (npuHook \/ npu # "importing")
        /\ UNCHANGED handlers
  /\ UNCHANGED <<npu, books, memory, python, flushing, skip>>

ImportNpu ==
  /\ npu = "absent" /\ npu' = "importing"
  /\ UNCHANGED <<handlers, pending, deferred, npuHook, books, memory, python, flushing, skip, switches>>

\* The import ends and its hook patches torch, unless it is patched.
NpuImported ==
  /\ npu = "importing" /\ npu' = "done"
  /\ IF npuHook THEN RegisterHandlers ELSE UNCHANGED <<handlers, pending>>
  /\ UNCHANGED <<deferred, npuHook, books, memory, python, flushing, skip, switches>>

\* The application has set its device.
OnDeviceReady ==
  /\ handlers' = TRUE /\ pending' = FALSE
  /\ UNCHANGED <<deferred, npuHook, npu, books, memory, python, flushing, skip, switches>>

\* The thread leaves its loop: no longer wanted, safe, torch_npu absent for a
\* while, or after a minute.  When nobody was faster it goes on to patch.
GivesUp(patches) == pending /\ ~patches

DeferredEnds ==
  /\ deferred.waits > 0
  /\ LET patches == pending /\ ~handlers
     IN /\ deferred' = [waits |-> deferred.waits - 1, patches |-> deferred.patches + IF patches THEN 1 ELSE 0]
        /\ pending' = GivesUp(patches)
  /\ UNCHANGED <<handlers, npuHook, npu, books, memory, python, flushing, skip, switches>>

DeferredPatches ==
  /\ deferred.patches > 0
  /\ deferred' = [deferred EXCEPT !.patches = @ - 1]
  /\ RegisterHandlers
  /\ UNCHANGED <<npuHook, npu, books, memory, python, flushing, skip, switches>>

\* disable_cpu_tensor_collect: unpatch, free what is known, forget the rest.
Disable ==
  /\ Count /\ ~flushing.on
  /\ handlers' = FALSE /\ pending' = FALSE /\ npuHook' = FALSE
  /\ flushing' = [on |-> TRUE, keys |-> cpuBlocks]
  /\ UNCHANGED <<deferred, npu, books, memory, python, skip>>

Flush(a) ==
  /\ a \in flushing.keys
  /\ flushing' = [flushing EXCEPT !.keys = @ \ {a}]
  /\ StorageFreed(a)
  /\ UNCHANGED <<memory, finals, making, patching, skip, switches>>

Forget ==
  /\ flushing.on /\ flushing.keys = {} /\ flushing' = [flushing EXCEPT !.on = FALSE]
  /\ cpuBlocks' = {}
  /\ UNCHANGED <<books, memory, finals, making, patching, skip, switches>>

-----------------------------------------------------------------------------
Init ==
  /\ storage = {} /\ pinned = {} /\ halPtrs = {} /\ skip = FALSE
  /\ hostPtrs = [a \in HostAddrs |-> None]
  /\ open = [a \in HostAddrs |-> [c \in {"pinned", "cpu"} |-> 0]]
  /\ cpuBlocks = {} /\ finals = {} /\ making = [m \in Makers |-> Idle]
  /\ handlers = FALSE /\ pending = FALSE /\ npuHook = FALSE /\ npu = "absent"
  /\ deferred = [waits |-> 0, patches |-> 0]
  /\ flushing = [on |-> FALSE, keys |-> {}] /\ switches = 0

Next ==
  \/ \E a \in HostAddrs :
       \/ Register(a) \/ Unregister(a) \/ Collect(a) \/ Flush(a)
       \/ \E m \in Makers : Make(m, a)
  \/ \E m \in Makers : ReportCpuTensor(m) \/ Keep(m)
  \/ SetStep \/ Enable \/ Disable \/ Forget
  \/ ImportNpu \/ NpuImported \/ OnDeviceReady \/ DeferredEnds \/ DeferredPatches

Spec == Init /\ [][Next]_vars

-----------------------------------------------------------------------------
(* Properties *)

\* An address has at most one open MALLOC, of one channel, and no FREE without
\* one, whatever the channels, skipped steps and disables did before
\* ("先到先得", ReportHostRegister, event_report.cpp:1587).
OneOpenMalloc ==
  \A a \in HostAddrs : \A c \in {"pinned", "cpu"} :
    /\ open[a][c] \in {0, 1}
    /\ open[a][c] = 1 <=> hostPtrs[a] = c

\* Who waits to patch is waited for: an enable that is pending has a thread that
\* will patch, so that the next enable may rely on it (enable_cpu_tensor_collect,
\* cpu_tensor_collection.py:265).
PendingIsServed == pending => deferred.waits > 0

\* Both: the books of host memory are right and stay open.
BooksKept == OneOpenMalloc /\ PendingIsServed
=============================================================================
