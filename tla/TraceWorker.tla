----------------------------- MODULE TraceWorker -----------------------------
(***************************************************************************)
(* The isolated process that computes and stores the values of a trace:    *)
(* tracing/trace_worker.py for ONNX models, and the writer that the LLM    *)
(* and extension workers stream into (tracing/llm_worker.py).              *)
(*                                                                         *)
(* The ONNX worker opens a capture source (an ONNX Runtime session served  *)
(* in batches, the reference evaluator over the whole model, or one        *)
(* evaluation per value), then takes the targets in two phases and stores  *)
(* what its pool of bytes allows.  A target is its position in the         *)
(* request; sizes are in units of the capture pool.                        *)
(***************************************************************************)
EXTENDS Integers, FiniteSets, Sequences, FiniteSetsExt, SequencesExt

CONSTANTS Requests,   \* what the user approved: see RequestShape
          Machines,   \* what this machine's runtimes will do: see MachineShape
          Nodes,      \* the nodes of the model are 0 .. Nodes - 1
          Ceiling     \* _ORT_BATCH_BYTES

Unknown == -1         \* a declared size that cannot be computed

Devices == {"auto", "cpu", "gpu", "npu"}
Backends == {"auto", "onnxruntime", "reference", "normalized"}

\* A target: is it a fed graph input, a graph output or an inner value, its
\* declared and real size, its element size and the node that produces it.
TargetShape == [role : {"input", "output", "inner"}, declared : Nat \cup {Unknown},
                size : Nat, item : Nat \ {0}, object : BOOLEAN, node : 0 .. Nodes - 1]

RequestShape == [worker : {"onnx", "tracer"}, backend : Backends, device : Devices,
                 policy : {"greedy", "preview"}, pool : Nat, targets : Seq(TargetShape)]

\* installed: the providers there are; accepts: those that load this model;
\* reference: how far the evaluator gets with the whole model; breaks: the
\* first node it cannot build, Nodes if it can build them all.
MachineShape == [installed : SUBSET {"CUDA", "QNN", "DirectML", "CPU"},
                 accepts : SUBSET {"CUDA", "QNN", "DirectML", "CPU"},
                 reference : {"whole", "memory", "build", "evaluate"}, breaks : 0 .. Nodes]

ASSUME TraceAssumption ==
  /\ Nodes \in Nat /\ Ceiling \in Nat
  /\ Requests \subseteq RequestShape /\ Machines \subseteq MachineShape

VARIABLES trace,      \* the request
          machine,
          worker,     \* where the process is
          source,     \* the capture source
          phases,     \* the targets still to be taken, which are taken in order
          exact,      \* exact_budgets of the phase being taken, by target
          remaining,  \* bytes left in the pool
          records     \* the records written so far, by target

workerVars == <<trace, machine, worker, source, phases, exact, remaining, records>>

Alive == {"starting", "opening", "phase", "taking", "streaming", "answering"}

Targets == DOMAIN trace.targets
Target(i) == trace.targets[i]
Fed(i) == Target(i).role = "input"

Total(S, size(_)) == MapThenSumSet(size, S)

------------------------------------------------------------------------------
(* Which device runs the model. *)

\* The providers in the order they are tried, with the device each is.
ProviderOrder == <<[label |-> "CUDA", device |-> "gpu"], [label |-> "QNN", device |-> "npu"],
                   [label |-> "DirectML", device |-> "gpu"], [label |-> "CPU", device |-> "cpu"]>>

\* Places in that order.
ProviderCandidates(installed, requested) ==
  {k \in DOMAIN ProviderOrder : /\ ProviderOrder[k].label \in installed
                                /\ requested \in {"auto", ProviderOrder[k].device}}

------------------------------------------------------------------------------
(* Planning the batches of an ONNX Runtime session. *)

Prioritized(i) == Target(i).role \in {"input", "output"}

InOrder(S) == SetToSortSeq(S, <)

\* Mutant: in the order of the request.
CaptureOrderListed(S) == InOrder(S)

CaptureOrder(S) ==
  InOrder({i \in S : Prioritized(i)}) \o InOrder({i \in S : ~Prioritized(i)})

Estimate(i) == Max({Target(i).declared, 0})

\* The prefix of the order whose earlier values do not yet fill the budget.
FetchWorthy(S, budget) ==
  LET order == CaptureOrder(S)
      spent(k) == Total(1 .. k - 1, LAMBDA j : Estimate(order[j]))
  IN  {order[k] : k \in {k \in DOMAIN order : spent(k) < budget}}

\* A value joins the last batch unless either is of unknown size or the batch
\* would pass the ceiling.
PlanBatches(order) ==
  LET joins(batch, i) ==
        /\ Target(i).declared # Unknown
        /\ \A j \in Range(batch) : Target(j).declared # Unknown
        /\ Total(Range(batch) \cup {i}, Estimate) <= Ceiling
      place(batches, i) ==
        IF batches # <<>> /\ joins(Last(batches), i)
        THEN Append(Front(batches), Append(Last(batches), i))
        ELSE Append(batches, <<i>>)
  IN  FoldLeft(place, <<>>, order)

BatchOf(i) == CHOOSE b \in DOMAIN source.batches : i \in Range(source.batches[b])
Asked == UNION {Range(source.batches[b]) : b \in DOMAIN source.batches}

------------------------------------------------------------------------------
(* Opening a source. *)

NoSource == [kind |-> "none", device |-> "auto", batches |-> <<>>, live |-> {}, failed |-> {},
             left |-> {}, open |-> FALSE, staged |-> FALSE, frontier |-> Nodes,
             spent |-> FALSE, mixed |-> FALSE]

\* onnxruntime: a session over the staged model, or nothing to stage.
RuntimeSource(candidate) ==
  LET unfed == {i \in Targets : ~Fed(i)}
      wanted == IF trace.policy = "preview" THEN unfed ELSE FetchWorthy(unfed, trace.pool)
      planned == PlanBatches(CaptureOrder(wanted))
  IN  IF wanted = {}
      THEN [NoSource EXCEPT !.kind = "whole", !.device = candidate.device]
      ELSE [NoSource EXCEPT !.kind = "runtime", !.device = candidate.device,
                            !.batches = planned, !.left = wanted,
                            !.open = TRUE, !.staged = TRUE]

\* The candidates are tried in order; with nothing to stage the first is named
\* without being tried.
UsableCandidates ==
  {k \in ProviderCandidates(machine.installed, trace.device) :
     RuntimeSource(ProviderOrder[k]).kind = "runtime"
       => ProviderOrder[k].label \in machine.accepts}

FirstUsable == RuntimeSource(ProviderOrder[Min(UsableCandidates)])

PrefixBuilds(limit) == limit < machine.breaks

\* The first node no prefix can be built with, by binary search.
BuildableFrontier ==
  LET search[low \in 0 .. Nodes, high \in 0 .. Nodes] ==
        LET middle == (low + high) \div 2
        IN  IF low >= high THEN low
            ELSE IF PrefixBuilds(middle) THEN search[middle + 1, high]
            ELSE search[low, middle]
  IN  search[0, Nodes]

PrefixSource ==
  [NoSource EXCEPT !.kind = "prefix", !.device = "cpu", !.frontier = BuildableFrontier]

\* live holds the values already evaluated; after a memory error there is none.
ReferenceSource ==
  LET whole(got) == [NoSource EXCEPT !.kind = "whole", !.device = "cpu", !.live = got]
      unfed == {i \in Targets : ~Fed(i)}
  IN  CASE unfed = {} -> whole({})
        [] machine.reference = "whole" -> whole(unfed)
        [] machine.reference = "memory" -> whole({})
        [] OTHER -> PrefixSource

\* A source that gives the fed inputs and nothing else.
FailedSource(device) ==
  [NoSource EXCEPT !.kind = "prefix", !.device = device, !.frontier = 0]

\* Scan normalisation can fail as well, which fails the source.
OpenedSources ==
  IF trace.backend = "reference" THEN {ReferenceSource}
  ELSE IF trace.backend = "normalized" THEN {ReferenceSource, FailedSource("cpu")}
  ELSE IF UsableCandidates # {} THEN {FirstUsable}
  ELSE IF trace.device \in {"gpu", "npu"} THEN {FailedSource(trace.device)}
  ELSE IF trace.backend = "auto" THEN {ReferenceSource}
  ELSE {FailedSource("cpu")}

------------------------------------------------------------------------------
(* Taking and skipping one value: the value or the reason there is none, and *)
(* the source afterwards.                                                    *)

Value(s) == [value |-> TRUE, why |-> "", source |-> s]
NoValue(why, s) == [value |-> FALSE, why |-> why, source |-> s]

Closed(s) == [s EXCEPT !.open = FALSE, !.live = {}, !.staged = FALSE]
CloseIfSpent(s) == IF s.kind = "runtime" /\ s.left = {} THEN Closed(s) ELSE s

\* The arrays of a batch go with its last target.
Without(i, s) ==
  LET batch == Range(s.batches[BatchOf(i)])
      gone == IF s.left \cap batch = {} THEN batch ELSE {i}
  IN  [s EXCEPT !.live = @ \ gone]

\* The arrays of batch b, one pass of the session over the model.  mixed is a
\* history of the model: were arrays of another batch held at the same time?
RunBatch(b, s) == [s EXCEPT !.live = @ \cup Range(s.batches[b]),
                            !.mixed = @ \/ s.live # {}]

TakeRuntime(i) ==
  LET b == BatchOf(i)
      s == [source EXCEPT !.left = @ \ {i}]
      ready == s.live \cap Range(s.batches[b]) # {}
      outcomes ==
        IF b \in s.failed THEN {NoValue("failed", s)}
        ELSE IF ~s.open THEN {NoValue("released", s)}
        ELSE IF ready THEN {Value(Without(i, s))}
        ELSE {Value(Without(i, RunBatch(b, s))),
              NoValue("failed", [s EXCEPT !.failed = @ \cup {b}])}
  IN  IF i \notin Asked THEN {NoValue("not asked", source)}
      ELSE {[o EXCEPT !.source = CloseIfSpent(o.source)] : o \in outcomes}

TakeWhole(i) ==
  IF i \in source.live THEN {Value([source EXCEPT !.live = @ \ {i}])}
  ELSE {NoValue("no value", source)}

TakePrefix(i) ==
  IF source.spent THEN {NoValue("memory", source)}
  ELSE IF Target(i).node >= source.frontier THEN {NoValue("unbuildable", source)}
  ELSE {Value(source), NoValue("failed", source),
        NoValue("memory", [source EXCEPT !.spent = TRUE])}

Takes(i) ==
  IF Fed(i) THEN {Value(source)}
  ELSE CASE source.kind = "runtime" -> TakeRuntime(i)
         [] source.kind = "whole" -> TakeWhole(i)
         [] source.kind = "prefix" -> TakePrefix(i)

Skipped(i) ==
  CASE source.kind = "runtime" /\ i \in Asked ->
         CloseIfSpent(Without(i, [source EXCEPT !.left = @ \ {i}]))
    [] source.kind = "whole" -> [source EXCEPT !.live = @ \ {i}]
    [] OTHER -> source

\* The size a source knows before the value is taken.
SizeHint(i) ==
  IF Fed(i) \/ i \in source.live THEN Target(i).size
  ELSE IF source.kind = "runtime" THEN Target(i).declared
  ELSE Unknown

------------------------------------------------------------------------------
(* The record of one value, and the budget it may spend. *)

Dropped(why, full) == [state |-> "dropped", full |-> full, stored |-> 0, why |-> why]

\* Whole elements only.
Stored(i, budget) ==
  LET most == Min({Target(i).size, budget}) IN most - (most % Target(i).item)

WriteCapture(i, taken, budget) ==
  LET full == Target(i).size
      stored == Stored(i, budget)
  IN  IF ~taken.value THEN Dropped(taken.why, 0)
      ELSE IF Target(i).object THEN Dropped("object", 0)
      ELSE IF stored <= 0 THEN Dropped("ceiling", full)
      ELSE [state |-> IF stored < full THEN "truncated" ELSE "complete",
            full |-> full, stored |-> stored, why |-> ""]

\* The hints of a phase, read once when it begins: all known and within the pool?
ExactBudgets(phase) ==
  /\ \A i \in phase : SizeHint(i) # Unknown
  /\ Total(phase, SizeHint) <= remaining

Greedy == source.kind = "runtime" /\ trace.policy # "preview"

\* The next target of a phase is the first in the order of the request.
NextOf(phase) == Min(phase)

Budget(phase) ==
  LET share == remaining \div Cardinality(phase)
  IN  IF NextOf(phase) \in DOMAIN exact THEN exact[NextOf(phase)]
      ELSE IF Greedy \/ share = 0 THEN remaining
      ELSE share

------------------------------------------------------------------------------
(* The process. *)

WorkerInit ==
  /\ trace \in Requests
  /\ machine \in Machines
  /\ worker = "absent"
  /\ source = NoSource
  /\ phases = <<>>
  /\ exact = <<>>
  /\ remaining = 0
  /\ records = <<>>

\* The environment, the request's form and the resource limits are checked
\* before the model is loaded; any of them can end the process.
LimitProcess ==
  /\ worker = "starting"
  /\ worker' = IF trace.worker = "onnx" THEN "opening" ELSE "streaming"
  /\ remaining' = trace.pool
  /\ UNCHANGED <<trace, machine, source, phases, exact, records>>

\* The first phase begins with the source.
OpenBackend ==
  /\ worker = "opening"
  /\ source' \in OpenedSources
  /\ phases' = <<{i \in Targets : Prioritized(i)}, {i \in Targets : ~Prioritized(i)}>>
  /\ worker' = "phase"
  /\ UNCHANGED <<trace, machine, exact, remaining, records>>

BeginPhase ==
  /\ worker = "phase"
  /\ phases # <<>>
  /\ exact' = IF ExactBudgets(Head(phases))
              THEN [i \in Head(phases) |-> SizeHint(i)]
              ELSE <<>>
  /\ worker' = "taking"
  /\ UNCHANGED <<trace, machine, source, phases, remaining, records>>

Record(i, record) ==
  records' = [k \in DOMAIN records \cup {i} |-> IF k = i THEN record ELSE records[k]]

NextTarget(i) ==
  /\ phases' = [phases EXCEPT ![1] = @ \ {i}]
  /\ UNCHANGED <<trace, machine, worker, exact>>

\* No budget: the value is released unproduced.
SkipTarget ==
  /\ worker = "taking"
  /\ Head(phases) # {}
  /\ LET i == NextOf(Head(phases))
     IN  /\ Budget(Head(phases)) <= 0
         /\ source' = Skipped(i)
         /\ Record(i, Dropped("ceiling", 0))
         /\ NextTarget(i)
  /\ UNCHANGED remaining

TakeTarget ==
  /\ worker = "taking"
  /\ Head(phases) # {}
  /\ LET i == NextOf(Head(phases))
         budget == Budget(Head(phases))
     IN  /\ budget > 0
         /\ \E taken \in Takes(i) :
              LET record == WriteCapture(i, taken, budget)
              IN  /\ source' = taken.source
                  /\ Record(i, record)
                  /\ remaining' = remaining - record.stored
         /\ NextTarget(i)

EndPhase ==
  /\ worker = "taking"
  /\ Head(phases) = {}
  /\ phases' = Tail(phases)
  /\ IF Len(phases) > 1
     THEN worker' = "phase" /\ UNCHANGED source
     ELSE worker' = "answering" /\ source' = Closed(source)
  /\ UNCHANGED <<trace, machine, exact, remaining, records>>

\* CaptureWriter.capture: in the order the runtime produces values; a second
\* value for a target and a value nobody asked for are ignored.
StreamValue ==
  /\ worker = "streaming"
  /\ \E i \in Targets \ DOMAIN records :
       LET count == Cardinality(Targets) - Cardinality(DOMAIN records)
           budget == IF trace.policy = "preview" THEN remaining \div count ELSE remaining
           record == WriteCapture(i, Value(source), budget)
       IN  /\ Record(i, record)
           /\ remaining' = remaining - record.stored
  /\ UNCHANGED <<trace, machine, worker, source, phases, exact>>

\* CaptureWriter.records: what was not produced is dropped.
EndStream ==
  /\ worker = "streaming"
  /\ worker' = "answering"
  /\ records' = [i \in Targets |-> IF i \in DOMAIN records THEN records[i]
                                   ELSE Dropped("no value", 0)]
  /\ UNCHANGED <<trace, machine, source, phases, exact, remaining>>

\* The response file is written whole, then the process ends.
Answer ==
  /\ worker = "answering"
  /\ worker' = "exited"
  /\ UNCHANGED <<trace, machine, source, phases, exact, remaining, records>>
==============================================================================
