--------------------------- MODULE ActivationStore ---------------------------
(***************************************************************************)
(* The store of captured activations (tracing/store.py): one directory per *)
(* trace with a manifest and one file per captured value, within a byte    *)
(* budget that evicts the captures of the least recently used traces.      *)
(*                                                                         *)
(* Every operation holds the store's lock to its end, so operations do not *)
(* interleave: what their steps are for is that one of them may fail, and  *)
(* that the process may die between any two.  A captured value is its      *)
(* stored length and, as history, the run that computed it with the        *)
(* runtime of that run; a length of 0 stands for a value that was dropped  *)
(* or evicted.                                                             *)
(***************************************************************************)
EXTENDS BudgetedCache

CONSTANTS
  Traces,      \* trace identities: artifact, revision and inputs
  ByName,      \* the same in the order of their directories' names
  ValueIds,    \* values of the graph that can be captured
  ByValue,     \* the same in the order of a result's records
  Runtimes,    \* execution identities
  MaxLength,   \* bound: longest capture
  MaxRuns,     \* bound: runs that are committed
  MaxFaults,   \* bound: failures of the file system
  Budgets,     \* the budgets the store may be opened with
  None

Enumerates(s, S) ==
  /\ s \in Seq(S) /\ S = {s[i] : i \in DOMAIN s}
  /\ \A i, j \in DOMAIN s : s[i] = s[j] => i = j

ASSUME ActivationAssumption ==
  /\ Enumerates(ByName, Traces) /\ Enumerates(ByValue, ValueIds)
  /\ MaxLength \in Nat /\ MaxRuns \in Nat /\ MaxFaults \in Nat /\ Budgets \subseteq Nat \ {0}

VARIABLES
  dir,        \* per trace: its directory, or None
  results,    \* per trace: the result the store knows, or None
  available,  \* traces with readable captures and their cost, the oldest first
  current,    \* the account of their bytes
  budget,     \* bytes the store may keep: an argument of its constructor
  cached,     \* slices in memory: trace, value, and the run they are of
  op,         \* the operation under way
  aside,      \* the directory commit() has moved out of the way, or None
  faults,     \* failures so far
  runs,       \* runs so far
  misread,    \* history: traces of which bytes of another run were returned
  astray,     \* history: traces a failed or interrupted step has left astray
  committed   \* history: traces whose commit() has returned

activations == <<dir, results, available, current, budget, cached, op, aside, runs, faults,
                 misread, astray, committed>>

-----------------------------------------------------------------------------
Record == [len : 0..MaxLength, run : 1..MaxRuns, by : Runtimes]
Records == UNION {[S -> Record] : S \in SUBSET ValueIds}
Result == [runtime : Runtimes, records : Records]

\* A directory: its manifest, and for each value the run whose bytes lie there (0: none).
Directory == [manifest : Result, files : [ValueIds -> 0..MaxRuns]]

\* The operation under way, and what its commit() has staged.
Operation == [pc : {"idle", "staged", "aside", "placed", "evicting", "tombstone", "down"},
              trace : Traces \cup {None}, result : Result \cup {None},
              files : [ValueIds -> 0..MaxRuns]]

ASSUME NothingAssumption == None \notin Result /\ None \notin Directory

NoFiles == [v \in ValueIds |-> 0]
NoOperation == [pc |-> "idle", trace |-> None, result |-> None, files |-> NoFiles]
Down == [NoOperation EXCEPT !.pc = "down"]
Reached(pc) == op.pc = pc
Goto(pc) == op' = [op EXCEPT !.pc = pc]

Readable(result) == {v \in DOMAIN result.records : result.records[v].len > 0}

Charge(k, cost) == [key |-> k, cost |-> cost]

\* A trace without readable captures has no entry.
Charging(entries, t, cost) ==
  IF cost > 0 THEN Append(entries, Charge(t, cost)) ELSE entries

\* The sum of the readable records, in their order.
Bytes(result) ==
  CostOf([i \in DOMAIN ByValue |->
            Charge(ByValue[i], IF ByValue[i] \in Readable(result)
                               THEN result.records[ByValue[i]].len ELSE 0)])

\* What the account holds of a trace, and the account without it.
Listed(t) == \E i \in DOMAIN available : available[i].key = t
Charged(t) == IF Listed(t) THEN available[Place(available, t)].cost ELSE 0
Apart(t) == Without(available, t)

\* move_to_end(), for a trace with readable captures.
MovedToEnd(t) == IF Listed(t) THEN Append(Apart(t), Charge(t, Charged(t))) ELSE available

Fails == faults < MaxFaults /\ faults' = faults + 1

ActivationInit ==
  /\ dir = [t \in Traces |-> None]
  /\ results = [t \in Traces |-> None]
  /\ available = <<>> /\ current = 0 /\ budget \in Budgets /\ cached = {}
  /\ op = NoOperation /\ aside = None
  /\ faults = 0 /\ runs = 0
  /\ misread = {} /\ astray = {} /\ committed = {}

-----------------------------------------------------------------------------
(* commit() *)

\* A value keeps its earlier capture when this run has none, or a shorter one.
Merged(previous, incoming) ==
  [v \in DOMAIN previous \cup DOMAIN incoming |->
     IF \/ v \notin DOMAIN incoming
        \/ v \in DOMAIN previous /\ previous[v].len > incoming[v].len
     THEN previous[v] ELSE incoming[v]]

\* Results of another runtime are replaced, never merged.
Merges(t, runtime) ==
  results[t] # None /\ dir[t] # None /\ results[t].runtime = runtime

\* What a run over t leaves in the staging directory: its own captures and copies of
\* the earlier ones that are kept.
Staged(t, runtime, lengths) ==
  LET run      == runs + 1
      incoming == [v \in DOMAIN lengths |-> [len |-> lengths[v], run |-> run, by |-> runtime]]
      records  == IF Merges(t, runtime) THEN Merged(results[t].records, incoming) ELSE incoming
      result   == [runtime |-> runtime, records |-> records]
  IN  [pc |-> "staged", trace |-> t, result |-> result,
       files |-> [v \in ValueIds |->
                    CASE v \notin Readable(result) -> 0
                      [] v \in Readable(result) /\ records[v].run = run -> run
                      [] OTHER -> dir[t].files[v]]]

Running(t, runtime, lengths) ==
  /\ Reached("idle") /\ runs < MaxRuns
  /\ runs' = runs + 1
  /\ op' = Staged(t, runtime, lengths)
  /\ UNCHANGED <<dir, results, available, current, budget, cached, aside, faults, misread, astray,
                 committed>>

\* An earlier capture that is to be kept must be there to be copied, or commit() raises
\* before anything has changed.
BeginCommit(t, runtime, lengths) ==
  /\ LET staged == Staged(t, runtime, lengths)
     IN  \A v \in Readable(staged.result) : staged.files[v] # 0
  /\ Running(t, runtime, lengths)

\* The manifest cannot be written to the staging directory, or the first rename fails.
AbandonStaged ==
  /\ Reached("staged")
  /\ op' = NoOperation
  /\ UNCHANGED <<dir, results, available, current, budget, cached, aside, faults, runs,
                 misread, astray, committed>>

SetAside ==
  /\ Reached("staged") /\ dir[op.trace] # None
  /\ aside' = dir[op.trace]
  /\ dir' = [dir EXCEPT ![op.trace] = None]
  /\ Goto("aside")
  /\ UNCHANGED <<results, available, current, budget, cached, faults, runs, misread, astray,
                 committed>>

PutInPlace ==
  /\ Reached("aside") \/ (Reached("staged") /\ dir[op.trace] = None)
  /\ dir' = [dir EXCEPT ![op.trace] = [manifest |-> op.result, files |-> op.files]]
  /\ aside' = None
  /\ astray' = astray \ {op.trace}
  /\ Goto("placed")
  /\ UNCHANGED <<results, available, current, budget, cached, faults, runs, misread,
                 committed>>

\* A mutant: the first rename is not undone.
PlaceFailsOnly ==
  /\ Reached("aside") \/ (Reached("staged") /\ dir[op.trace] = None)
  /\ Fails
  /\ aside' = None /\ op' = NoOperation
  /\ UNCHANGED <<dir, results, available, current, budget, cached, runs, misread, astray,
                 committed>>

\* The second rename fails: the first is undone, and if that fails too, the directory
\* that was moved aside is removed all the same.
PlaceFails ==
  /\ Reached("aside") \/ (Reached("staged") /\ dir[op.trace] = None)
  /\ Fails
  /\ \/ dir' = [dir EXCEPT ![op.trace] = aside] /\ UNCHANGED astray
     \/ aside # None /\ UNCHANGED dir /\ astray' = astray \cup {op.trace}
  /\ aside' = None /\ op' = NoOperation
  /\ UNCHANGED <<results, available, current, budget, cached, runs, misread, committed>>

\* A mutant: only what this run captured is charged.
AccountOfRun ==
  LET t     == op.trace
      own   == {v \in DOMAIN op.result.records : op.result.records[v].run = runs}
      cost  == Bytes([records |-> [v \in own |-> op.result.records[v]]])
      rest  == Apart(t)
  IN
  /\ Reached("placed")
  /\ results' = [results EXCEPT ![t] = op.result]
  /\ available' = Charging(rest, t, cost)
  /\ current' = (current - Charged(t)) + cost
  /\ cached' = {s \in cached : s[1] # t}
  /\ Goto("evicting")
  /\ UNCHANGED <<dir, budget, aside, faults, runs, misread, astray, committed>>

\* A mutant: the slices of the replaced captures stay.
AccountKeepingSlices ==
  LET t    == op.trace
      cost == Bytes(op.result)
      rest == Apart(t)
  IN
  /\ Reached("placed")
  /\ results' = [results EXCEPT ![t] = op.result]
  /\ available' = Charging(rest, t, cost)
  /\ current' = (current - Charged(t)) + cost
  /\ Goto("evicting")
  /\ UNCHANGED <<dir, budget, cached, aside, faults, runs, misread, astray, committed>>

\* The account changes only after the renames; nothing in between raises.
Account ==
  LET t    == op.trace
      cost == Bytes(op.result)
      rest == Apart(t)
  IN
  /\ Reached("placed")
  /\ results' = [results EXCEPT ![t] = op.result]
  /\ available' = Charging(rest, t, cost)
  /\ current' = (current - Charged(t)) + cost
  /\ cached' = {s \in cached : s[1] # t}
  /\ Goto("evicting")
  /\ UNCHANGED <<dir, budget, aside, faults, runs, misread, astray, committed>>

-----------------------------------------------------------------------------
(* _evict_to_budget() *)

OverBudget == current > budget /\ available # <<>>

\* The tombstone of a trace: every record stays, none is readable.
Tombstone(result) ==
  [result EXCEPT !.records = [v \in DOMAIN @ |-> [@[v] EXCEPT !.len = 0]]]

Emptied(t) == dir' = [dir EXCEPT ![t] =
                        IF @ = None THEN None ELSE [@ EXCEPT !.files = NoFiles]]

\* An error leaves commit(), or the store is not opened.
Broken == op' = IF op.result = None THEN Down ELSE NoOperation

\* The oldest trace leaves the account, and its captures are removed.
EvictCaptures ==
  LET victim == Head(available) IN
  /\ Reached("evicting") /\ OverBudget
  /\ available' = Tail(available)
  /\ current' = current - victim.cost
  /\ Emptied(victim.key)
  /\ op' = [op EXCEPT !.pc = "tombstone", !.trace = victim.key]
  /\ astray' = astray \cup {victim.key}
  /\ UNCHANGED <<results, budget, cached, aside, faults, runs, misread, committed>>

\* They cannot be removed, or not all of them: the error leaves commit(), whose trace
\* is committed by now.
EvictFails ==
  LET t == Head(available).key IN
  /\ Reached("evicting") /\ OverBudget /\ dir[t] # None
  /\ Fails
  /\ available' = Tail(available)
  /\ current' = current - Head(available).cost
  /\ \E left \in SUBSET ValueIds :
       dir' = [dir EXCEPT ![t].files = [v \in ValueIds |-> IF v \in left THEN @[v] ELSE 0]]
  /\ Broken
  /\ astray' = astray \cup {t}
  /\ UNCHANGED <<results, budget, cached, aside, runs, misread, committed>>

\* A directory that is gone cannot take the manifest either.
WriteTombstone ==
  LET t == op.trace IN
  /\ Reached("tombstone") /\ dir[t] # None
  /\ results' = [results EXCEPT ![t] = Tombstone(@)]
  /\ dir' = [dir EXCEPT ![t].manifest = Tombstone(results[t])]
  /\ cached' = {s \in cached : s[1] # t}
  /\ astray' = astray \ {t}
  /\ Goto("evicting")
  /\ UNCHANGED <<available, current, budget, aside, faults, runs, misread, committed>>

TombstoneFails ==
  /\ Reached("tombstone")
  /\ dir[op.trace] # None => Fails
  /\ dir[op.trace] = None => UNCHANGED faults
  /\ Broken
  /\ UNCHANGED <<dir, results, available, current, budget, cached, aside, runs, misread,
                 astray, committed>>

\* commit() or the opening of the store returns.
Return ==
  /\ Reached("evicting") /\ ~OverBudget
  /\ op' = NoOperation
  /\ committed' = committed \cup {t \in Traces : results[t] # None}
  /\ UNCHANGED <<dir, results, available, current, budget, cached, aside, faults, runs,
                 misread, astray>>

-----------------------------------------------------------------------------
(* read() and result() *)

\* result() and open(): the trace is the most recently used one.
LookAt(t) ==
  /\ Reached("idle") /\ results[t] # None
  /\ available' = MovedToEnd(t)
  /\ UNCHANGED <<dir, results, current, budget, cached, op, aside, faults, runs, misread, astray,
                 committed>>

\* A slice comes from the cache, or from the file if it was never there or has been
\* evicted; a file that is missing raises.  Either way its trace was just used.
Read(t, v) ==
  /\ Reached("idle") /\ results[t] # None /\ v \in Readable(results[t])
  /\ \E run \in {s[3] : s \in {c \in cached : c[1] = t /\ c[2] = v}}
                \cup (IF dir[t] = None THEN {} ELSE {dir[t].files[v]} \ {0}) :
       /\ cached' = cached \cup {<<t, v, run>>}
       /\ misread' = IF run = results[t].records[v].run THEN misread ELSE misread \cup {t}
  /\ available' = MovedToEnd(t)
  /\ UNCHANGED <<dir, results, current, budget, op, aside, faults, runs, astray, committed>>

-----------------------------------------------------------------------------
(* The process dies and starts again. *)

Crash ==
  /\ ~Reached("down")
  /\ op' = Down /\ aside' = None
  /\ results' = [t \in Traces |-> None]
  /\ available' = <<>> /\ current' = 0 /\ cached' = {}
  /\ astray' = IF aside = None THEN astray ELSE astray \cup {op.trace}
  /\ UNCHANGED <<dir, budget, faults, runs, misread, committed>>

OnDisk(t) == IF dir[t] = None THEN 0 ELSE Bytes(dir[t].manifest)

\* What the first n directories charge to the account, for every n.
Found ==
  LET found[n \in 0..Len(ByName)] ==
        IF n = 0 THEN <<>> ELSE Charging(found[n - 1], ByName[n], OnDisk(ByName[n]))
  IN  found

\* Every manifest that can be read is believed; what was moved aside, and staging
\* directories, are not looked for.
Load ==
  /\ Reached("down")
  /\ results' = [t \in Traces |-> IF dir[t] = None THEN None ELSE dir[t].manifest]
  /\ available' = Found[Len(ByName)] /\ current' = CostOf(available')
  /\ budget' \in Budgets
  /\ op' = [NoOperation EXCEPT !.pc = "evicting"]
  /\ UNCHANGED <<dir, cached, aside, faults, runs, misread, astray, committed>>

-----------------------------------------------------------------------------
ActivationNext ==
  \/ \E t \in Traces, runtime \in Runtimes, S \in (SUBSET ValueIds) \ {{}} :
       \E lengths \in [S -> 0..MaxLength] : BeginCommit(t, runtime, lengths)
  \/ AbandonStaged \/ SetAside \/ PutInPlace \/ PlaceFails \/ Account
  \/ EvictCaptures \/ EvictFails \/ WriteTombstone \/ TombstoneFails \/ Return
  \/ \E t \in Traces : LookAt(t) \/ \E v \in ValueIds : Read(t, v)
  \/ Crash \/ Load

ActivationSpec == ActivationInit /\ [][ActivationNext]_activations

-----------------------------------------------------------------------------
(* Properties. *)

ActivationTypeOK ==
  /\ dir \in [Traces -> Directory \cup {None}]
  /\ results \in [Traces -> Result \cup {None}]
  /\ available \in Seq([key : Traces, cost : Nat])
  /\ \A i, j \in DOMAIN available : available[i].key = available[j].key => i = j
  /\ current \in Nat /\ budget \in Budgets
  /\ cached \subseteq Traces \X ValueIds \X (1..MaxRuns)
  /\ op \in Operation
  /\ aside \in Directory \cup {None}
  /\ runs \in 0..MaxRuns /\ faults \in 0..MaxFaults
  /\ misread \subseteq Traces /\ astray \subseteq Traces /\ committed \subseteq Traces

\* Whatever was replaced or evicted since, no read returns the bytes of another run
\* than the one its record names, from the file or from the cache of slices.
ReadsCurrent == misread = {}

\* A trace never mixes the captures of two runtimes, through any number of narrowed
\* reruns, replacements, evictions and restarts.
OneRuntime ==
  \A t \in Traces : results[t] # None =>
    \A v \in Readable(results[t]) : results[t].records[v].by = results[t].runtime

ManifestOf(t) == IF dir[t] = None THEN None ELSE dir[t].manifest

\* At every moment, for the process may die at any: a manifest on disk names a capture
\* as readable exactly if the bytes of that run lie beside it, and between two
\* operations the store believes what the manifest says -- except for a trace whose
\* eviction was cut short between the captures and the manifest.
HonestManifests ==
  \A t \in Traces \ astray :
    /\ dir[t] # None =>
         \A v \in ValueIds :
           dir[t].files[v] = IF v \in Readable(dir[t].manifest)
                             THEN dir[t].manifest.records[v].run ELSE 0
    /\ Reached("idle") => results[t] = ManifestOf(t)

\* Between two operations every byte on disk is in the account, the copies of earlier
\* captures included, and unless an eviction failed the account keeps to the budget: a
\* trace larger than all of it is evicted at once.
BytesCharged ==
  Reached("idle") =>
    /\ \A t \in Traces \ astray :
         Charged(t) = OnDisk(t)
    /\ current = CostOf(available)
    /\ astray = {} => current <= budget

\* A trace that was committed stays on disk, as a capture or as a tombstone: only a
\* replacement that is cut short between its two renames, or whose rollback fails too,
\* loses it.
CommittedStays ==
  \A t \in committed \ astray : dir[t] # None \/ (Reached("aside") /\ op.trace = t)

\* What the records of a trace say is so: a read returns the capture of the run the record
\* names, on the runtime the trace is keyed by, and the manifest beside the files agrees.
RecordsHonest == ActivationTypeOK /\ ReadsCurrent /\ OneRuntime /\ HonestManifests
=============================================================================
