------------------------------- MODULE Sampler -------------------------------
(***************************************************************************)
(* The sampling pipeline: the worker threads and the aggregator thread of  *)
(* Sampler::start (src/src/sampler.rs), the bounded channel between them,  *)
(* the lock around the tree, and what main (src/src/main.rs) does with     *)
(* them: the browser, which can pause the workers, or the headless export. *)
(*                                                                         *)
(* Only counts are kept: of the samples in the channel, and of those in    *)
(* the tree.  The RwLock excludes the aggregator, which writes, from the   *)
(* main thread, which reads or writes, so it is free or held by one.       *)
(***************************************************************************)
EXTENDS Integers

CONSTANTS Worker,   \* worker threads
          Capacity, \* of the channel (4096)
          BatchMax, \* samples taken from the channel after the first, per lock (4096)
          Cli,      \* what the command line may say: whether there is an --export,
                    \* a --seconds, and the number of --samples or NoSamples
          NoSamples,
          MaxTotal  \* bound: the samples of the tree are counted up to here

ASSUME SamplerAssumption ==
  /\ Capacity \in Nat \ {0}
  /\ BatchMax \in Nat
  /\ MaxTotal \in Nat
  /\ NoSamples \notin Nat
  /\ Cli \subseteq [export : BOOLEAN, seconds : BOOLEAN, samples : (0..MaxTotal) \cup {NoSamples}]

VARIABLES
  worker,    \* where each worker is: "top", "check", "sleep", "resolve", "send", "done"
  chan,      \* how many samples are in the channel
  agg,       \* the aggregator: "recv", "lock", "batch", "done"
  taken,     \* samples of this batch taken after the first
  lock,      \* the lock of the tree: "free", "agg", "main"
  total,     \* Tree.total_samples
  stop, paused,
  main,      \* the main thread: "idle", "wait", "hold", "wait_export",
             \* "export_meta", "export_nodes", "join", "exited"
  seen,      \* headless: the count read in the loop
  meta,      \* export: the count written to Meta
  written,   \* export: the count of the written tree
  expired,   \* headless: the deadline passed
  cli,       \* the command line
  late       \* history: samples each worker sent since sampling was paused

pipeline     == <<worker, chan, agg, taken, total>>
client       == <<main, seen, meta, written, expired, cli>>
flags        == <<stop, paused>>
sampler_vars == <<pipeline, lock, flags, client, late>>

SamplerTypeOK ==
  /\ worker \in [Worker -> {"top", "check", "sleep", "resolve", "send", "done"}]
  /\ chan \in 0..Capacity
  /\ agg \in {"recv", "lock", "batch", "done"}
  /\ taken \in 0..BatchMax
  /\ lock \in {"free", "agg", "main"}
  /\ total \in 0..MaxTotal
  /\ stop \in BOOLEAN
  /\ paused \in BOOLEAN
  /\ main \in {"idle", "wait", "hold", "wait_export", "export_meta", "export_nodes",
               "join", "exited"}
  /\ seen \in 0..MaxTotal
  /\ meta \in 0..MaxTotal
  /\ written \in 0..MaxTotal
  /\ expired \in BOOLEAN
  /\ cli \in Cli
  /\ late \in [Worker -> 0..2]

SamplerInit ==
  /\ worker = [w \in Worker |-> "top"]
  /\ chan = 0 /\ agg = "recv" /\ taken = 0 /\ lock = "free" /\ total = 0
  /\ stop = FALSE /\ paused = FALSE
  /\ main = "idle" /\ seen = 0 /\ meta = 0 /\ written = 0 /\ expired = FALSE
  /\ cli \in Cli
  /\ late = [w \in Worker |-> 0]

Running == main # "exited"

-----------------------------------------------------------------------------
(* A worker.  Its channel has a receiver for as long as it sends. *)

Step(w, at, next) == Running /\ worker[w] = at /\ worker' = [worker EXCEPT ![w] = next]

CheckStop(w) ==
  /\ Step(w, "top", IF stop THEN "done" ELSE "check")
  /\ UNCHANGED <<chan, agg, taken, total, lock, flags, client, late>>

\* Where the test of paused leads.
MutantAfterCheck == "resolve"
AfterCheck == IF paused THEN "sleep" ELSE "resolve"

CheckPause(w) ==
  /\ Step(w, "check", AfterCheck)
  /\ UNCHANGED <<chan, agg, taken, total, lock, flags, client, late>>

Wake(w) ==
  /\ Step(w, "sleep", "top")
  /\ UNCHANGED <<chan, agg, taken, total, lock, flags, client, late>>

\* pick, and resolve, whatever it finds.
Resolve(w) ==
  /\ Step(w, "resolve", "send")
  /\ UNCHANGED <<chan, agg, taken, total, lock, flags, client, late>>

MutantHasRoom == chan <= Capacity
HasRoom == chan < Capacity

Send(w) ==
  /\ Step(w, "send", "top")
  /\ HasRoom
  /\ chan' = chan + 1
  /\ late' = IF paused /\ late[w] < 2 THEN [late EXCEPT ![w] = @ + 1] ELSE late
  /\ UNCHANGED <<agg, taken, total, lock, flags, client>>

WorkerStep(w) == CheckStop(w) \/ CheckPause(w) \/ Wake(w) \/ Resolve(w) \/ Send(w)

-----------------------------------------------------------------------------
(* The aggregator. *)

Recv ==
  /\ Running /\ agg = "recv" /\ chan > 0
  /\ agg' = "lock"
  /\ chan' = chan - 1
  /\ UNCHANGED <<worker, taken, total, lock, flags, client, late>>

\* No worker is left to send anything.
Disconnected ==
  /\ Running /\ agg = "recv" /\ chan = 0
  /\ \A w \in Worker : worker[w] = "done"
  /\ agg' = "done"
  /\ UNCHANGED <<worker, chan, taken, total, lock, flags, client, late>>

Counted == IF total < MaxTotal THEN total + 1 ELSE total

Lock ==
  /\ Running /\ agg = "lock" /\ lock = "free"
  /\ agg' = "batch" /\ lock' = "agg"
  /\ taken' = 0
  /\ total' = Counted
  /\ UNCHANGED <<worker, chan, flags, client, late>>

\* The end of the batch: the channel is empty, or enough was taken from it.
MutantBatchOver == chan = 0
BatchOver == chan = 0 \/ taken = BatchMax

Take ==
  /\ Running /\ agg = "batch" /\ ~BatchOver
  /\ chan' = chan - 1
  /\ taken' = IF taken < BatchMax THEN taken + 1 ELSE taken
  /\ total' = Counted
  /\ UNCHANGED <<worker, agg, lock, flags, client, late>>

Unlock ==
  /\ Running /\ agg = "batch" /\ BatchOver
  /\ agg' = "recv" /\ lock' = "free"
  /\ UNCHANGED <<worker, chan, taken, total, flags, client, late>>

Aggregate == Recv \/ Disconnected \/ Take \/ Unlock

-----------------------------------------------------------------------------
(* The main thread. *)

Main(at, next) == main = at /\ main' = next

\* It needs the tree: for a frame, a key, a background event, or the count.
WantTree ==
  /\ Main("idle", "wait")
  /\ UNCHANGED <<pipeline, lock, flags, seen, meta, written, expired, cli, late>>

\* headless reads the count.
Acquire ==
  /\ \/ Main("wait", "hold") /\ seen' = total
     \/ Main("wait_export", "export_meta") /\ UNCHANGED seen
  /\ lock = "free" /\ lock' = "main"
  /\ UNCHANGED <<pipeline, flags, meta, written, expired, cli, late>>

\* The export copies the count, then walks the tree, under one read lock.
MutantExportLock == "free"
ExportLock == "main"

ExportMeta ==
  /\ Main("export_meta", "export_nodes")
  /\ meta' = total
  /\ lock' = ExportLock
  /\ UNCHANGED <<pipeline, flags, seen, written, expired, cli, late>>

\* The lock after the tree is written: it is released before the workers are stopped.
MutantLockAfterExport == "main"
LockAfterExport == "free"

ExportNodes(next) ==
  /\ Main("export_nodes", next)
  /\ written' = total
  /\ lock' = LockAfterExport
  /\ UNCHANGED <<pipeline, seen, meta, expired, cli, late>>

\* Sampler::stop: store the flag, then join every worker; main returns.
Join ==
  /\ Main("join", "exited")
  /\ \A w \in Worker : worker[w] = "done"
  /\ UNCHANGED <<pipeline, lock, flags, seen, meta, written, expired, cli, late>>

\* The browser.
Release ==
  /\ ~cli.export /\ Main("hold", "idle")
  /\ lock' = "free"
  /\ UNCHANGED <<pipeline, flags, seen, meta, written, expired, cli, late>>

TogglePause ==
  /\ ~cli.export /\ main = "idle"
  /\ paused' = ~paused
  /\ late' = IF paused THEN late ELSE [w \in Worker |-> 0]
  /\ UNCHANGED <<pipeline, lock, stop, client>>

Export ==
  /\ ~cli.export /\ Main("idle", "wait_export")
  /\ UNCHANGED <<pipeline, lock, flags, seen, meta, written, expired, cli, late>>

Exported == ~cli.export /\ ExportNodes("idle") /\ UNCHANGED flags

Quit ==
  /\ ~cli.export /\ Main("idle", "join")
  /\ stop' = TRUE
  /\ UNCHANGED <<pipeline, lock, paused, seen, meta, written, expired, cli, late>>

\* The headless export.  There is a deadline unless only --samples is given.
HasDeadline == cli.seconds \/ cli.samples = NoSamples

Deadline ==
  /\ Running /\ cli.export /\ HasDeadline
  /\ expired' = TRUE
  /\ UNCHANGED <<pipeline, lock, flags, main, seen, meta, written, cli, late>>

MutantEnough == cli.samples # NoSamples \/ expired
Enough == (cli.samples # NoSamples /\ seen >= cli.samples) \/ expired

Counting ==
  /\ cli.export /\ Main("hold", IF Enough THEN "wait_export" ELSE "idle")
  /\ lock' = "free"
  /\ UNCHANGED <<pipeline, flags, seen, meta, written, expired, cli, late>>

FinishExport == cli.export /\ ExportNodes("join") /\ stop' = TRUE /\ UNCHANGED paused

-----------------------------------------------------------------------------
Threads == (\E w \in Worker : WorkerStep(w)) \/ Aggregate \/ Lock
Common == WantTree \/ Acquire \/ ExportMeta \/ Join
Browser == Release \/ TogglePause \/ Export \/ Exported \/ Quit
Headless == Deadline \/ Counting \/ FinishExport

SamplerNext == Threads \/ Common \/ Browser \/ Headless

SamplerSpec == SamplerInit /\ [][SamplerNext]_sampler_vars

\* Threads are scheduled, ioctls return, and parking_lot hands the lock to a
\* waiting thread sooner or later, however often others take it.  What the user
\* presses is up to them; a frame is drawn four times a second.
FairSpec ==
  /\ SamplerSpec
  /\ \A w \in Worker : WF_sampler_vars(WorkerStep(w))
  /\ WF_sampler_vars(Aggregate) /\ SF_sampler_vars(Lock)
  /\ WF_sampler_vars(WantTree) /\ SF_sampler_vars(Acquire)
  /\ WF_sampler_vars(ExportMeta) /\ WF_sampler_vars(Join)
  /\ WF_sampler_vars(Release) /\ WF_sampler_vars(Exported)
  /\ WF_sampler_vars(Deadline) /\ WF_sampler_vars(Counting) /\ WF_sampler_vars(FinishExport)

-----------------------------------------------------------------------------
(* Properties *)

\* Once sampling is paused, each worker sends at most the sample it was on.
PauseHolds == \A w \in Worker : paused => late[w] <= 1

\* The count in an exported file is that of the tree in it, although workers and
\* aggregator go on while the file is written; and a headless export has as many
\* samples as were asked for, or the deadline came first.
ExportExact ==
  /\ main \in {"idle", "join", "exited"} => meta = written
  /\ cli.export /\ main \in {"join", "exited"} /\ cli.samples # NoSamples
       => written >= cli.samples \/ expired

\* The aggregator's batches end: whoever waits for the tree gets it, with all
\* workers sending all the time.  Quitting ends the process: paused workers wake up
\* and workers blocked on a full channel get on.  And a headless run ends, whether it
\* waits for a number of samples or for the deadline.
Progress ==
  /\ main \in {"wait", "wait_export"} ~> main \in {"hold", "export_meta"}
  /\ main = "join" ~> main = "exited"
  /\ cli.export ~> main = "exited"
=============================================================================
