----------------------------- MODULE TensorStore -----------------------------
(***************************************************************************)
(* The tensor store of one document (storage/store.py): threads read       *)
(* slices of tensors through one verified descriptor per file and two      *)
(* caches, while another thread may close the store and other programs     *)
(* change the files.                                                       *)
(*                                                                         *)
(* A lock per file serialises the use of its descriptor; the store's own   *)
(* lock covers only the bookkeeping and is one step here.  A slice stands  *)
(* for one range of one tensor, or for all of a typed tensor, which is     *)
(* parsed as a whole.  Its bytes are abstracted to whether one of them was *)
(* read from contents that are not those the document was opened with.     *)
(***************************************************************************)
EXTENDS BudgetedCache, FiniteSets

CONSTANTS
  Threads,       \* threads that read
  Files,         \* artifact files of the document
  Slices,        \* ranges of tensors, and whole typed tensors
  Requests,      \* what callers ask for at once: sets of slices
  Typed,         \* the slices that stand for tensors in typed protobuf fields
  FileOf,        \* where a slice is stored
  Cost,          \* how many bytes it costs a cache
  Chunks,        \* reads between two cancellation checkpoints that it takes
  Hashed,        \* files whose whole-file digest the document recorded
  SliceBudget, TypedBudget,
  NoOne          \* not a thread

ASSUME StoreAssumption ==
  /\ Files # {} /\ Typed \subseteq Slices /\ Hashed \subseteq Files /\ NoOne \notin Threads
  /\ Requests \subseteq SUBSET Slices
  /\ FileOf \in [Slices -> Files] /\ Cost \in [Slices -> Nat]
  /\ Chunks \in [Slices -> Nat \ {0}]
  /\ SliceBudget \in Nat /\ TypedBudget \in Nat

VARIABLES
  disk,         \* what each path leads to: the original contents or changed ones
  overwritten,  \* history: files whose contents were changed in place
  descriptor,   \* per file and thread that opened it: closed, linked, detached or changed
  readers,      \* the store's reader of each file, named by the thread that opened it
  holder,       \* who holds the lock of each file
  thread,       \* per thread: where its read is
  slices,       \* the slice cache
  typed,        \* the cache of typed materializations
  closing,      \* open, closing or closed
  doomed,       \* descriptors close() has still to close
  produced,     \* history: slices that were read and not dropped by a cache since
  repeated,     \* history: slices that were read again although produced
  stained       \* history: files of which a changed byte was returned

vars == <<disk, overwritten, descriptor, readers, holder, thread, slices, typed, closing,
          doomed, produced, repeated, stained>>
outside == <<disk, overwritten, closing, doomed>>
files   == <<descriptor, readers, holder>>
history == <<produced, repeated, stained>>

-----------------------------------------------------------------------------
Idle == [pc |-> "idle", file |-> CHOOSE f \in Files : TRUE, group |-> FALSE,
         todo |-> {}, missing |-> {}, by |-> NoOne, left |-> 0, bad |-> FALSE]

Init ==
  /\ disk = [f \in Files |-> "original"] /\ overwritten = {}
  /\ descriptor = [f \in Files |-> [r \in Threads |-> "closed"]]
  /\ readers = [f \in Files |-> NoOne]
  /\ holder = [f \in Files |-> NoOne]
  /\ thread = [r \in Threads |-> Idle]
  /\ slices = EmptyCache /\ typed = EmptyCache
  /\ closing = "open" /\ doomed = {}
  /\ produced = {} /\ repeated = {} /\ stained = {}

At(r, pc) == thread[r].pc = pc
Going(r, t) == thread' = [thread EXCEPT ![r] = t]

\* Leaves the critical section of the file, if r is in it.
Released(r) == holder' = [f \in Files |-> IF holder[f] = r THEN NoOne ELSE holder[f]]

-----------------------------------------------------------------------------
(* read() of one slice, read_group() of several. *)

\* A closed store raises.  A group is coalesced from ranges of one file; what
\* does not coalesce, and every typed tensor, is read by itself.
Request(r, S) ==
  /\ At(r, "idle") /\ closing = "open"
  /\ S # {} /\ \E f \in Files :
       /\ \A k \in S : FileOf[k] = f
       /\ Cardinality(S) > 1 => S \cap Typed = {}
       /\ Going(r, [Idle EXCEPT !.pc = "looking", !.file = f, !.todo = S,
                                !.group = Cardinality(S) > 1])
  /\ UNCHANGED <<outside, files, slices, typed, history>>

CacheOf(k) == IF k \in Typed THEN typed ELSE slices

Returned(k, bad) == stained' = IF bad THEN stained \cup {FileOf[k]} ELSE stained

\* get(), and again under the file's lock peek(): another thread may have read the
\* slice in the meantime.
LookUp(r, k) ==
  /\ At(r, "looking") \/ At(r, "locked")
  /\ k \in thread[r].todo
  /\ IF Holds(CacheOf(k), k)
     THEN /\ Going(r, [thread[r] EXCEPT !.todo = @ \ {k}])
          /\ IF k \in Typed THEN typed' = Touch(typed, k) /\ UNCHANGED slices
                            ELSE slices' = Touch(slices, k) /\ UNCHANGED typed
          /\ Returned(k, EntryFor(CacheOf(k), k).bad)
     ELSE /\ Going(r, [thread[r] EXCEPT !.todo = @ \ {k}, !.missing = @ \cup {k}])
          /\ UNCHANGED <<slices, typed, stained>>
  /\ UNCHANGED <<outside, files, produced, repeated>>

Served(r) ==
  /\ At(r, "looking") \/ At(r, "locked")
  /\ thread[r].todo = {} /\ thread[r].missing = {}
  /\ Going(r, Idle) /\ Released(r)
  /\ UNCHANGED <<outside, descriptor, readers, slices, typed, history>>

Acquire(r) ==
  LET f == thread[r].file IN
  /\ At(r, "looking") /\ thread[r].todo = {} /\ thread[r].missing # {}
  /\ holder[f] = NoOne
  /\ holder' = [holder EXCEPT ![f] = r]
  /\ Going(r, [thread[r] EXCEPT !.pc = "locked", !.todo = thread[r].missing, !.missing = {}])
  /\ UNCHANGED <<outside, descriptor, readers, slices, typed, history>>

-----------------------------------------------------------------------------
(* _reader(): the open reader of the file, or a new one once it is verified. *)

\* A group is one read of its whole span.
Reading(r, by) ==
  /\ Going(r, [thread[r] EXCEPT !.pc = "reading", !.by = by,
       !.left = IF thread[r].group THEN 1 ELSE Chunks[CHOOSE k \in thread[r].missing : TRUE]])
  /\ repeated' = repeated \cup (thread[r].missing \cap produced)

Entering(r) == At(r, "locked") /\ thread[r].todo = {} /\ thread[r].missing # {}

EnterOpen(r) ==
  LET by == readers[thread[r].file] IN
  /\ Entering(r) /\ closing = "open" /\ by # NoOne
  /\ Reading(r, by)
  /\ UNCHANGED <<outside, files, slices, typed, produced, stained>>

OpenFile(r) ==
  LET f == thread[r].file IN
  /\ Entering(r) /\ closing = "open" /\ readers[f] = NoOne
  /\ descriptor' = [descriptor EXCEPT ![f][r] =
                      IF disk[f] = "original" THEN "linked" ELSE "changed"]
  /\ Going(r, [thread[r] EXCEPT !.pc = "hashing"])
  /\ UNCHANGED <<outside, readers, holder, slices, typed, history>>

\* The hash is computed through the descriptor that later reads use.
Verify(r) ==
  LET f == thread[r].file IN
  /\ At(r, "hashing")
  /\ f \in Hashed => descriptor[f][r] # "changed"
  /\ Going(r, [thread[r] EXCEPT !.pc = "verified"])
  /\ UNCHANGED <<outside, files, slices, typed, history>>

\* A mutant: the store is not looked at again.
RegisterAlways(r) ==
  /\ At(r, "verified")
  /\ readers' = [readers EXCEPT ![thread[r].file] = r]
  /\ Reading(r, r)
  /\ UNCHANGED <<outside, descriptor, holder, slices, typed, produced, stained>>

Register(r) ==
  /\ At(r, "verified") /\ closing = "open"
  /\ readers' = [readers EXCEPT ![thread[r].file] = r]
  /\ Reading(r, r)
  /\ UNCHANGED <<outside, descriptor, holder, slices, typed, produced, stained>>

\* A mutant: a call that raises keeps the lock.
RaiseHolding(r) ==
  LET f == thread[r].file IN
  /\ \/ Entering(r) /\ (closing # "open" \/ readers[f] = NoOne)
     \/ At(r, "hashing")
     \/ At(r, "verified") /\ closing # "open"
     \/ At(r, "reading") /\ thread[r].left > 0
  /\ descriptor' = IF At(r, "hashing") \/ At(r, "verified")
                   THEN [descriptor EXCEPT ![f][r] = "closed"] ELSE descriptor
  /\ Going(r, Idle)
  /\ UNCHANGED <<outside, readers, holder, slices, typed, history>>

\* The store was closed, the file cannot be opened or is not the one the document
\* describes, a read fails, or the caller cancels at a checkpoint: a reader that is
\* not yet the store's is closed, the lock is released, and the call raises.
Raise(r) ==
  LET f == thread[r].file IN
  /\ \/ Entering(r) /\ (closing # "open" \/ readers[f] = NoOne)
     \/ At(r, "hashing")
     \/ At(r, "verified") /\ closing # "open"
     \/ At(r, "reading") /\ thread[r].left > 0
  /\ descriptor' = IF At(r, "hashing") \/ At(r, "verified")
                   THEN [descriptor EXCEPT ![f][r] = "closed"] ELSE descriptor
  /\ Going(r, Idle) /\ Released(r)
  /\ UNCHANGED <<outside, readers, slices, typed, history>>

-----------------------------------------------------------------------------
(* The bytes. *)

ReadChunk(r) ==
  LET d == descriptor[thread[r].file][thread[r].by] IN
  /\ At(r, "reading") /\ thread[r].left > 0 /\ d # "closed"
  /\ Going(r, [thread[r] EXCEPT !.left = @ - 1, !.bad = @ \/ d = "changed"])
  /\ UNCHANGED <<outside, files, slices, typed, history>>

Entry(r, k) == [key |-> k, cost |-> Cost[k], bad |-> thread[r].bad]

\* A typed tensor is parsed and cached under the file's lock, however large it is.
ParseTyped(r, k) ==
  /\ At(r, "reading") /\ thread[r].left = 0 /\ thread[r].missing = {k} /\ k \in Typed
  /\ typed' = Put(typed, Entry(r, k), TypedBudget, TRUE)
  /\ produced' = (produced \cup {k}) \ (Typed \ Keys(typed'))
  /\ Returned(k, thread[r].bad)
  /\ Going(r, Idle) /\ Released(r)
  /\ UNCHANGED <<outside, descriptor, readers, slices, repeated>>

\* Slices are read under the lock and cached after it.
LeaveFile(r) ==
  /\ At(r, "reading") /\ thread[r].left = 0 /\ thread[r].missing \cap Typed = {}
  /\ produced' = produced \cup thread[r].missing
  /\ Going(r, [thread[r] EXCEPT !.pc = "putting"]) /\ Released(r)
  /\ UNCHANGED <<outside, descriptor, readers, slices, typed, repeated, stained>>

PutSlice(r, k) ==
  /\ At(r, "putting") /\ k \in thread[r].missing
  /\ slices' = Put(slices, Entry(r, k), SliceBudget, FALSE)
  /\ produced' = produced \ ((Keys(slices) \cup {k}) \ Keys(slices'))
  /\ Returned(k, thread[r].bad)
  /\ Going(r, IF thread[r].missing = {k} THEN Idle
              ELSE [thread[r] EXCEPT !.missing = @ \ {k}])
  /\ UNCHANGED <<outside, files, typed, repeated>>

-----------------------------------------------------------------------------
(* close(). *)

BeginClose ==
  /\ closing = "open"
  /\ closing' = "closing"
  /\ doomed' = {<<f, readers[f]>> : f \in {g \in Files : readers[g] # NoOne}}
  /\ readers' = [f \in Files |-> NoOne]
  /\ slices' = EmptyCache /\ typed' = EmptyCache
  /\ produced' = {}
  /\ UNCHANGED <<disk, overwritten, descriptor, holder, thread, repeated, stained>>

CloseReader(f, r) ==
  /\ <<f, r>> \in doomed /\ holder[f] = NoOne
  /\ descriptor' = [descriptor EXCEPT ![f][r] = "closed"]
  /\ doomed' = doomed \ {<<f, r>>}
  /\ UNCHANGED <<disk, overwritten, readers, holder, thread, slices, typed, closing, history>>

CloseReturns ==
  /\ closing = "closing" /\ doomed = {}
  /\ closing' = "closed"
  /\ UNCHANGED <<disk, overwritten, files, thread, slices, typed, doomed, history>>

-----------------------------------------------------------------------------
(* Other programs. *)

\* The path leads to another file: open descriptors keep the contents they have.
SwapFile(f) ==
  /\ disk[f] = "original"
  /\ disk' = [disk EXCEPT ![f] = "changed"]
  /\ descriptor' = [descriptor EXCEPT ![f] =
       [r \in Threads |-> IF @[r] = "linked" THEN "detached" ELSE @[r]]]
  /\ UNCHANGED <<overwritten, readers, holder, thread, slices, typed, closing, doomed, history>>

\* The file itself is written.
OverwriteFile(f) ==
  /\ disk[f] = "original"
  /\ disk' = [disk EXCEPT ![f] = "changed"]
  /\ overwritten' = overwritten \cup {f}
  /\ descriptor' = [descriptor EXCEPT ![f] =
       [r \in Threads |-> IF @[r] = "linked" THEN "changed" ELSE @[r]]]
  /\ UNCHANGED <<readers, holder, thread, slices, typed, closing, doomed, history>>

-----------------------------------------------------------------------------
Proceed(r) ==
  \/ \E k \in Slices : LookUp(r, k) \/ ParseTyped(r, k) \/ PutSlice(r, k)
  \/ Served(r) \/ Acquire(r) \/ EnterOpen(r) \/ OpenFile(r) \/ Verify(r) \/ Register(r)
  \/ Raise(r) \/ ReadChunk(r) \/ LeaveFile(r)

CloseProceeds == CloseReturns \/ \E f \in Files, r \in Threads : CloseReader(f, r)

Next ==
  \/ \E r \in Threads : Proceed(r) \/ \E S \in Requests : Request(r, S)
  \/ BeginClose \/ CloseProceeds
  \/ \E f \in Files : SwapFile(f) \/ OverwriteFile(f)

\* As long as some thread can go on, one of them does: the threads are never all
\* suspended for good.  Nothing is assumed of which one runs, nor of the order in
\* which a lock is given to those who wait for it.
Fairness == WF_vars(CloseProceeds \/ \E r \in Threads : Proceed(r))

Spec == Init /\ [][Next]_vars /\ Fairness

-----------------------------------------------------------------------------
(* Properties. *)

CacheEntry == [key : Slices, cost : Nat, bad : BOOLEAN]
CacheType  == [entries : Seq(CacheEntry), current : Nat]

\* The account of a cache is the sum of what it holds and keeps to its budget, except
\* for one oversized typed tensor alone.
AccountsKept ==
  /\ slices.current = CostOf(slices.entries) /\ slices.current <= SliceBudget
  /\ typed.current = CostOf(typed.entries)
  /\ typed.current <= TypedBudget \/ Len(typed.entries) = 1

TypeOK ==
  /\ disk \in [Files -> {"original", "changed"}] /\ overwritten \subseteq Files
  /\ descriptor \in [Files -> [Threads -> {"closed", "linked", "detached", "changed"}]]
  /\ readers \in [Files -> Threads \cup {NoOne}]
  /\ holder \in [Files -> Threads \cup {NoOne}]
  /\ thread \in [Threads ->
       [pc : {"idle", "looking", "locked", "hashing", "verified", "reading", "putting"},
        file : Files, group : BOOLEAN, todo : SUBSET Slices, missing : SUBSET Slices,
        by : Threads \cup {NoOne}, left : Nat, bad : BOOLEAN]]
  /\ slices \in CacheType /\ typed \in CacheType /\ AccountsKept
  /\ closing \in {"open", "closing", "closed"} /\ doomed \subseteq (Files \X Threads)
  /\ produced \subseteq Slices /\ repeated \subseteq Slices /\ stained \subseteq Files

Open(f) == {r \in Threads : descriptor[f][r] # "closed"}

\* However reads and a close interleave, a file never has two open descriptors, and a
\* thread in the middle of its chunks never has its descriptor closed under it.
OneDescriptor ==
  /\ \A f \in Files : Cardinality(Open(f)) <= 1
  /\ \A r \in Threads : At(r, "reading") => thread[r].by \in Open(thread[r].file)

\* When close() has returned, every descriptor still open belongs to a thread that is
\* about to find the store closed: none is left for good.
ClosedHoldsNothing ==
  closing = "closed" =>
    \A f \in Files : \A r \in Open(f) :
      /\ At(r, "hashing") \/ At(r, "verified")
      /\ thread[r].file = f

\* Unless a file is written in place, no byte that differs from the contents the
\* document was opened with is ever returned, from the file or from a cache: another
\* file under the same path is found out at the first read, or never seen.
ServedAsVerified == stained \cap Hashed \subseteq overwritten

\* A typed tensor is parsed again only if another one displaced it from the cache.
TypedParsedOnce == repeated \cap Typed = {}

\* The same for the physical read of a slice.
SliceReadOnce == repeated \subseteq Typed

\* Closing ends, and with it every read that was under way.
CloseEnds ==
  closing # "open" ~> (closing = "closed" /\ \A r \in Threads : At(r, "idle"))

\* What a reader of tensors gets from the store while it is closed or its file swapped:
\* verified bytes through one descriptor, none held after close(), and no typed tensor
\* parsed twice.
ReadsSound ==
  TypeOK /\ OneDescriptor /\ ClosedHoldsNothing /\ ServedAsVerified /\ TypedParsedOnce
=============================================================================
