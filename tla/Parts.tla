------------------------------- MODULE Parts -------------------------------
(***************************************************************************)
(* Parts of the system that share no state with one another, side by side: *)
(* each is a module of its own, with its constants and variables under its *)
(* own names, or another where two parts have the same name.  A behaviour  *)
(* is one of one part, which the first state picks; the variables of the   *)
(* others stay empty.  PartsProofs proves the properties of these parts,   *)
(* and MC_Parts adds those that are only model-checked.                    *)
(***************************************************************************)
EXTENDS Integers, Sequences, FiniteSets

CONSTANTS
  Parts,   \* the parts of a run
  Launchers, TaskKeys, NewSoc, Buffer, NoKey, MaxLaunches,   \* of KernelLink
  Workers, Addresses, OutTensors, Limits, Watched, MaxRuns,   \* of MemoryWatch
  HostAddrs, Makers, MaxSwitches,   \* of HostBook
  Addrs, Home, Sizes, InitCap, MaxCount,   \* of BlockTable
  Environments, Bad, Unset, MaxCards,   \* of DeviceIds
  PoolTypes, Totals, MaxStep,   \* of HealthGaps
  Threads, PoolAddrs, LeakSkipSteps, Threshold, MaxRanges, Plans,   \* of StepTracking
  Texts, Limit, Reserve, Overhead, HeaderLen, Room, MaxCommands   \* of ControlFrames

VARIABLES
  part,   \* the part of the behaviour
  kernelNameMp, launching, tasks, channel, dropped, tracing, reported, launches,   \* of KernelLink
  at, isRepeatWatch, watchedTargetName, cmdTensors, dumpNums, given, times, steady, skipped, runs,   \* of MemoryWatch
  storage, pinned, hostPtrs, halPtrs, skip, cpuBlocks, finals, making, handlers, pending, deferred,
  npuHook, npu, flushing, open, switches,   \* of HostBook
  keys, vals, count, blocks,   \* of BlockTable
  machine, dcmi, dcmiMap, env, translated, queried,   \* of DeviceIds
  source, step, inStep, status, seen, settled,   \* of HealthGaps
  plan, clock, openRanges, lastRange, held, mallocs, info, pySteps, pc, ev, stepSource, boundaries,
  live, leaks, begun, stamped, ended, fired,   \* of StepTracking
  commands, output, sender, wire, reader   \* of ControlFrames

-----------------------------------------------------------------------------
Link == INSTANCE KernelLink
Watch == INSTANCE MemoryWatch WITH
  Outputs <- OutTensors
Book == INSTANCE HostBook
Table == INSTANCE BlockTable
Ids == INSTANCE DeviceIds
Gaps == INSTANCE HealthGaps
Steps == INSTANCE StepTracking WITH
  Addrs <- PoolAddrs, SkipSteps <- LeakSkipSteps, open <- openRanges, source <- stepSource
Frames == INSTANCE ControlFrames WITH
  Outputs <- Texts, channel <- wire

ASSUME PartsAssumption ==
  Parts \subseteq
    {"link", "watch", "book", "blocks", "ids", "gaps", "steps", "frames"}
ASSUME LinkParameters == Link!LinkAssumption
ASSUME WatchParameters == Watch!WatchAssumption
ASSUME TableParameters == Table!TableAssumption
ASSUME IdsParameters == Ids!IdsAssumption
ASSUME GapsParameters == Gaps!HealthAssumption
ASSUME StepsParameters == Steps!StepAssumption
ASSUME FramesParameters == Frames!FramesAssumption

-----------------------------------------------------------------------------
linkVars ==
  <<kernelNameMp, launching, tasks, channel, dropped, tracing, reported, launches>>
watchVars ==
  <<at, isRepeatWatch, watchedTargetName, cmdTensors, dumpNums, given, times, steady, skipped,
    runs>>
bookVars ==
  <<storage, pinned, hostPtrs, halPtrs, skip, cpuBlocks, finals, making, handlers, pending,
    deferred, npuHook, npu, flushing, open, switches>>
blocksVars == <<keys, vals, count, blocks>>
idsVars == <<machine, dcmi, dcmiMap, env, translated, queried>>
gapsVars == <<source, step, inStep, status, seen, settled>>
stepsVars ==
  <<plan, clock, openRanges, lastRange, held, mallocs, info, pySteps, pc, ev, stepSource,
    boundaries, live, leaks, begun, stamped, ended, fired>>
framesVars == <<commands, output, sender, wire, reader>>
vars ==
  <<part, linkVars, watchVars, bookVars, blocksVars, idsVars, gapsVars, stepsVars, framesVars>>

\* The parts that are not the one of the behaviour: what they hold, and what a step
\* leaves alone.
Empty(p) ==
  /\ p # "link" =>
       /\ kernelNameMp = <<>> /\ launching = <<>> /\ tasks = <<>> /\ channel = <<>>
       /\ dropped = <<>> /\ tracing = <<>> /\ reported = <<>> /\ launches = <<>>
  /\ p # "watch" =>
       /\ at = <<>> /\ isRepeatWatch = <<>> /\ watchedTargetName = <<>> /\ cmdTensors = <<>>
       /\ dumpNums = <<>> /\ given = <<>> /\ times = <<>> /\ steady = <<>> /\ skipped = <<>>
       /\ runs = <<>>
  /\ p # "book" =>
       /\ storage = <<>> /\ pinned = <<>> /\ hostPtrs = <<>> /\ halPtrs = <<>>
       /\ skip = <<>> /\ cpuBlocks = <<>> /\ finals = <<>> /\ making = <<>>
       /\ handlers = <<>> /\ pending = <<>> /\ deferred = <<>> /\ npuHook = <<>>
       /\ npu = <<>> /\ flushing = <<>> /\ open = <<>> /\ switches = <<>>
  /\ p # "blocks" =>
       /\ keys = <<>> /\ vals = <<>> /\ count = <<>> /\ blocks = <<>>
  /\ p # "ids" =>
       /\ machine = <<>> /\ dcmi = <<>> /\ dcmiMap = <<>> /\ env = <<>> /\ translated = <<>>
       /\ queried = <<>>
  /\ p # "gaps" =>
       /\ source = <<>> /\ step = <<>> /\ inStep = <<>> /\ status = <<>> /\ seen = <<>>
       /\ settled = <<>>
  /\ p # "steps" =>
       /\ plan = <<>> /\ clock = <<>> /\ openRanges = <<>> /\ lastRange = <<>>
       /\ held = <<>> /\ mallocs = <<>> /\ info = <<>> /\ pySteps = <<>> /\ pc = <<>>
       /\ ev = <<>> /\ stepSource = <<>> /\ boundaries = <<>> /\ live = <<>> /\ leaks = <<>>
       /\ begun = <<>> /\ stamped = <<>> /\ ended = <<>> /\ fired = <<>>
  /\ p # "frames" =>
       /\ commands = <<>> /\ output = <<>> /\ sender = <<>> /\ wire = <<>> /\ reader = <<>>

Still(p) ==
  /\ p # "link" => UNCHANGED linkVars
  /\ p # "watch" => UNCHANGED watchVars
  /\ p # "book" => UNCHANGED bookVars
  /\ p # "blocks" => UNCHANGED blocksVars
  /\ p # "ids" => UNCHANGED idsVars
  /\ p # "gaps" => UNCHANGED gapsVars
  /\ p # "steps" => UNCHANGED stepsVars
  /\ p # "frames" => UNCHANGED framesVars

InitOf(p) ==
  \/ p = "link" /\ Link!Init
  \/ p = "watch" /\ Watch!Init
  \/ p = "book" /\ Book!Init
  \/ p = "blocks" /\ Table!Init
  \/ p = "ids" /\ Ids!Init
  \/ p = "gaps" /\ Gaps!Init
  \/ p = "steps" /\ Steps!Init
  \/ p = "frames" /\ Frames!Init

Init == part \in Parts /\ InitOf(part) /\ Empty(part)

NextOf(p) ==
  \/ p = "link" /\ Link!Next
  \/ p = "watch" /\ Watch!Next
  \/ p = "book" /\ Book!Next
  \/ p = "blocks" /\ Table!Next
  \/ p = "ids" /\ Ids!Next
  \/ p = "gaps" /\ Gaps!Next
  \/ p = "steps" /\ Steps!Next
  \/ p = "frames" /\ Frames!Next

Next == UNCHANGED part /\ Still(part) /\ NextOf(part)

Spec == Init /\ [][Next]_vars

-----------------------------------------------------------------------------
(* The property of each part; the modules say what each means. *)

\* Executions bear the names of their launches (KernelLink).
NamesRight == part = "link" => Link!NamesRight

\* Watched tensors are written as asked for (MemoryWatch).
DumpsAsAsked == part = "watch" => Watch!DumpsAsAsked

\* The books of host memory: one open MALLOC for an address, and who waits is
\* served (HostBook); the table of heap blocks is the map of them (BlockTable).
BooksKept ==
  /\ part = "book" => Book!BooksKept
  /\ part = "blocks" => Table!TableIsMap

\* Events bear the numbers of their cards, where they can be known (DeviceIds).
IdsArePhysical == part = "ids" => Ids!IdsArePhysical

\* The fluctuation of a pool is exact (HealthGaps).
GapsExact == part = "gaps" => Gaps!GapsExact

\* Blocks are charged to the step they were allocated in, what is called a leak
\* has outlived its step, and steps come in order from one source (StepTracking).
StepsRight ==
  part = "steps" => Steps!AllocInCurrentStep /\ Steps!LeaksOutlived /\ Steps!BoundariesAreSteps

\* Responses arrive whole, in frames (ControlFrames).
ResponsesWhole == part = "frames" => Frames!ResponsesWhole

\* A valid text is sent, not in the runs: chunks may split a character (ControlFrames).
ValidIsSent == part = "frames" => Frames!ValidIsSent
=============================================================================
