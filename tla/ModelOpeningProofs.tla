--------------------------- MODULE ModelOpeningProofs ---------------------------
(***************************************************************************)
(* Opening and closing models, for any number of opens, models, dialogs    *)
(* and any length of the recent files.                                     *)
(*                                                                         *)
(* That no session leaks is not inductive: between the job that built a    *)
(* session and the shell that shows it, its worker, the waiting thread,    *)
(* the registry and the closing service hold it in turn.  Inv says who     *)
(* holds it at each point, which points of two threads exclude each other  *)
(* while opens are not crossed, and what the file of recent models is      *)
(* while saves are under way.                                              *)
(***************************************************************************)
EXTENDS ModelOpening, SequenceTheorems, TLAPS

\* The waiting thread is in show_session.
Presenting(j) == waiter[j].at \in {"presenting", "closing", "forgetting", "adopting"}
\* Open j is uploading, at work, or waited for.
Busy(j) == job[j].at = "uploading" \/ Active(j) \/ waiter[j].at \notin {"idle", "ended"}

\* The thread that waits for a job is where the job lets it be.
Followed(j) ==
  /\ job[j].at # "unused" => job[j].model \in Models
  /\ job[j].at = "unused" => job[j].whole
  /\ job[j].at \in {"unused", "uploading"} => waiter[j].at = "idle"
  /\ Active(j) => waiter[j].at = "waiting"
  /\ waiter[j].at \in {"finishing", "ended"} => job[j].at \in Ended
  /\ Presenting(j) => job[j].at = "succeeded"

\* Every open is followed, and the pending upload is being uploaded.
JobsFollowed ==
  /\ \A j \in Opens : Followed(j)
  /\ shell.upload # None => job[shell.upload].at = "uploading"

\* An open session is known to the service, is being collected, or is still the worker's;
\* who closes a session has one to close.
Held(j) ==
  /\ session[j] # "none" => job[j].at \in {"preparing", "registering", "returning"} \cup Ended
  /\ job[j].at \in {"preparing", "registering", "returning"} => session[j] # "none"
  /\ j \in registry \cup service.closing => session[j] # "none"
  /\ job[j].at \in {"failed", "cancelled"} => session[j] # "open"
  /\ session[j] = "open" =>
       j \in registry \cup service.closing \/ job[j].at \in {"preparing", "registering"}
  /\ waiter[j].at \in {"closing", "forgetting"} => waiter[j].previous \in Opens
  /\ waiter[j].at = "forgetting" => session[waiter[j].previous] = "closed"

\* Every session is held, also the one that the event loop closes.
SessionsHeld ==
  /\ \A j \in Opens : Held(j)
  /\ ui.at # "idle" => ui.session \in Opens
  /\ ui.at \in {"forgetting", "clearing"} => session[ui.session] = "closed"

\* close() collects sessions when no job is left to register one.
ServiceEmptied ==
  /\ service.at \in {"up", "jobs", "down"} => service.closing = {}
  /\ service.at \in {"sessions", "down"} => registry = {} /\ \A j \in Opens : ~Active(j)

\* Opens that are not crossed exclude each other, and the overlay keeps the user from
\* closing the model meanwhile.
OneAtATime ==
  ~crossed =>
    /\ \A i, j \in Opens : Busy(i) /\ Busy(j) => i = j
    /\ \A j \in Opens : Busy(j) => shell.overlay /\ ui.at = "idle"
    /\ \A j \in Opens : job[j].at = "uploading" => shell.upload = j
    /\ \A j \in Opens : Active(j) => job[j].whole
    /\ ui.at # "idle" => ui.session = shell.shown

\* The outgoing session is the one that is shown until the new one is adopted: whatever is
\* open besides it belongs to the open at work.
Replaced ==
  ~crossed /\ service.at = "up" =>
    \A j \in Opens :
      /\ waiter[j].at \in {"closing", "forgetting"} => waiter[j].previous = shell.shown
      /\ waiter[j].at = "closing" => shell.shown \in registry
      /\ waiter[j].at = "adopting" /\ shell.shown \in Opens \ {j} => session[shell.shown] # "open"
      /\ session[j] = "open" =>
           \/ shell.shown = j
           \/ job[j].at \in {"preparing", "registering", "returning"}
           \/ job[j].at = "succeeded" /\ (waiter[j].at = "waiting" \/ Presenting(j))

\* One save at a time writes the list as it is in memory; a model is listed once, the last
\* recorded first, and what was recorded is listed unless the list is full.
RecordedInOrder ==
  /\ \A i, k \in DOMAIN recent.memory : recent.memory[i] = recent.memory[k] => i = k
  /\ recent.last # None => recent.memory # <<>> /\ recent.memory[1] = recent.last
  /\ \A i, j \in Opens : job[i].at = "saving" /\ job[j].at = "saving" => i = j
  /\ \A j \in Opens : job[j].at = "saving" => recent.payload[j] = recent.memory
  /\ (\A j \in Opens : job[j].at \notin {"saving", "failed"}) => recent.file = recent.memory
  /\ \A j \in Opens :
       job[j].at \in {"saving", "detecting", "building", "preparing", "registering", "returning", "succeeded"} =>
         (\E i \in DOMAIN recent.memory : recent.memory[i] = job[j].model)
           \/ Len(recent.memory) = MaxRecent

\* The inductive invariant.
Inv == TypeOK /\ JobsFollowed /\ SessionsHeld /\ ServiceEmptied /\ OneAtATime /\ Replaced /\ RecordedInOrder

\* No entry is listed twice.
OnceEach(list) == \A i, k \in DOMAIN list : list[i] = list[k] => i = k

\* m at the head of the list, those before place at shifted by one, n of them.
Shifted(list, m, at, n) ==
  [k \in 1..n |-> IF k = 1 THEN m ELSE IF k <= at THEN list[k - 1] ELSE list[k]]

\* at is where m is, or behind the list.
PlaceIn(list, m, at) == \A i \in DOMAIN list : list[i] = m <=> i = at

\* Shifting a list up to the place of m keeps every entry once.
LEMMA ShiftingKeeps ==
  ASSUME NEW list \in Seq(Models), NEW m \in Models, OnceEach(list),
         NEW at \in Nat, at >= 1, at <= Len(list) + 1,
         PlaceIn(list, m, at),
         NEW n \in Nat, n >= 1, n >= Len(list), n <= Len(list) + 1,
         at <= Len(list) => n <= Len(list)
  PROVE  LET moved == Shifted(list, m, at, n)
         IN  /\ moved \in Seq(Models) /\ Len(moved) = n /\ DOMAIN moved = 1..n
             /\ moved[1] = m
             /\ OnceEach(moved)
             /\ at <= Len(list) \/ n > Len(list) =>
                  \A i \in DOMAIN list : \E k \in 1..n : moved[k] = list[i]
  <1> DEFINE moved == Shifted(list, m, at, n)
  <1>1. /\ \A i : i \in DOMAIN list <=> i \in Nat /\ 1 <= i /\ i <= Len(list)
        /\ Len(list) \in Nat
        /\ \A i \in DOMAIN list : list[i] \in Models
    OBVIOUS
  <1>2. \A l \in DOMAIN list : list[l] = m <=> l = at
    BY DEF PlaceIn
  <1>4. moved = [k \in 1..n |-> IF k = 1 THEN m ELSE IF k <= at THEN list[k - 1] ELSE list[k]]
    BY DEF Shifted
  <1> HIDE DEF moved
  <1>8. ASSUME NEW k \in 1..n
        PROVE  IF k = 1 THEN moved[k] = m
               ELSE IF k <= at THEN k - 1 \in DOMAIN list /\ moved[k] = list[k - 1]
               ELSE k \in DOMAIN list /\ moved[k] = list[k]
    <2>1. CASE k = 1
      BY <1>4, <2>1
    <2>2. CASE k # 1 /\ k <= at
      BY <1>1, <1>4, <2>2
    <2>3. CASE k # 1 /\ ~(k <= at)
      <3>1. k <= Len(list)
        BY <1>1, <2>3
      <3> QED
        BY <1>1, <1>4, <2>3, <3>1
    <2> QED
      BY <2>1, <2>2, <2>3
  <1>9. moved \in Seq(Models) /\ Len(moved) = n /\ DOMAIN moved = 1..n
    <2>1. \A k \in 1..n : moved[k] \in Models
      BY <1>1, <1>8
    <2>2. moved \in [1..n -> Models]
      BY <1>4, <2>1
    <2> QED
      BY <2>2
  <1>10. moved[1] = m
    BY <1>8
  <1>11. OnceEach(moved)
    <2>2. ASSUME NEW i \in 1..n, NEW k \in 1..n, i < k, moved[i] = moved[k]
          PROVE  FALSE
      <3>1. k # 1 /\ k \in Nat /\ i \in Nat /\ at \in Nat /\ i >= 1
        BY <2>2
      <3>2. CASE k <= at
        <4>1. k - 1 \in DOMAIN list /\ moved[k] = list[k - 1] /\ k - 1 # at
          BY <1>8, <3>1, <3>2
        <4>2. CASE i = 1
          BY <1>2, <1>10, <2>2, <4>1, <4>2
        <4>3. CASE i # 1
          <5>1. i - 1 \in DOMAIN list /\ moved[i] = list[i - 1] /\ i - 1 # k - 1
            BY <1>8, <2>2, <3>1, <3>2, <4>3
          <5> QED
            BY <2>2, <4>1, <5>1 DEF OnceEach
        <4> QED
          BY <4>2, <4>3
      <3>3. CASE ~(k <= at)
        <4>1. k \in DOMAIN list /\ moved[k] = list[k] /\ k # at
          BY <1>8, <3>1, <3>3
        <4>2. CASE i = 1
          BY <1>2, <1>10, <2>2, <4>1, <4>2
        <4>3. CASE i # 1 /\ i <= at
          <5>1. i - 1 \in DOMAIN list /\ moved[i] = list[i - 1] /\ i - 1 # k
            BY <1>8, <2>2, <3>1, <4>3
          <5> QED
            BY <2>2, <4>1, <5>1 DEF OnceEach
        <4>4. CASE ~(i <= at)
          <5>1. i \in DOMAIN list /\ moved[i] = list[i] /\ i # k
            BY <1>8, <2>2, <3>1, <4>4
          <5> QED
            BY <2>2, <4>1, <5>1 DEF OnceEach
        <4> QED
          BY <4>2, <4>3, <4>4
      <3> QED
        BY <3>2, <3>3
    <2> QED
      <3> SUFFICES ASSUME NEW i \in 1..n, NEW k \in 1..n, moved[i] = moved[k], i # k
                   PROVE  FALSE
        BY <1>9 DEF OnceEach
      <3>1. i < k \/ k < i
        OBVIOUS
      <3> QED
        BY <2>2, <3>1
  <1>12. ASSUME NEW i \in DOMAIN list, at <= Len(list) \/ n > Len(list)
         PROVE  \E k \in 1..n : moved[k] = list[i]
    <2>1. i \in Nat /\ 1 <= i /\ i <= Len(list) /\ at \in Nat
      BY <1>1
    <2>2. CASE i < at
      <3>1. i + 1 \in 1..n /\ i + 1 # 1 /\ i + 1 <= at /\ (i + 1) - 1 = i
        BY <1>12, <2>1, <2>2
      <3> QED
        BY <1>8, <3>1
    <2>3. CASE i = at
      <3>1. 1 \in 1..n /\ list[i] = m
        BY <1>2, <2>3
      <3> QED
        BY <1>10, <3>1
    <2>4. CASE i > at
      <3>1. i \in 1..n /\ i # 1 /\ ~(i <= at)
        BY <1>12, <2>1, <2>4
      <3> QED
        BY <1>8, <3>1
    <2> QED
      BY <2>1, <2>2, <2>3, <2>4
  <1> QED
    BY <1>9, <1>10, <1>11, <1>12 DEF moved

\* record_open: the list has m first, every entry once, and loses one only when it is full.
LEMMA MovedToFrontKeeps ==
  ASSUME NEW list \in Seq(Models), NEW m \in Models, OnceEach(list), Len(list) <= MaxRecent
  PROVE  LET moved == MovedToFront(list, m)
         IN  /\ moved \in Seq(Models) /\ Len(moved) \in 1..MaxRecent /\ Len(moved) >= Len(list)
             /\ moved[1] = m
             /\ OnceEach(moved)
             /\ \A i \in DOMAIN list : \/ \E k \in DOMAIN moved : moved[k] = list[i]
                                      \/ Len(moved) = MaxRecent
  <1> DEFINE cut(length) == IF length < MaxRecent THEN length ELSE MaxRecent
  <1>1. Len(list) \in Nat /\ MaxRecent \in Nat /\ MaxRecent >= 1
    BY OpeningAssumption
  <1>2. CASE \E i \in DOMAIN list : list[i] = m
    <2> DEFINE at == CHOOSE i \in DOMAIN list : list[i] = m
    <2>1. at \in DOMAIN list /\ list[at] = m
      BY <1>2, Zenon
    <2>2. MovedToFront(list, m) = Shifted(list, m, at, cut(Len(list)))
      BY <1>2, Zenon DEF MovedToFront, Shifted
    <2> HIDE DEF at
    <2> DEFINE n     == cut(Len(list))
               moved == Shifted(list, m, at, n)
    <2>3. n <= Len(list) /\ n >= Len(list) /\ n \in Nat /\ n >= 1
      BY <1>1, <2>1
    <2>4. at \in Nat /\ at >= 1 /\ at <= Len(list) /\ PlaceIn(list, m, at)
      BY <2>1 DEF OnceEach, PlaceIn
    <2> HIDE DEF n, at
    <2>6. /\ moved \in Seq(Models) /\ Len(moved) = n /\ DOMAIN moved = 1..n
          /\ moved[1] = m /\ OnceEach(moved)
          /\ \A i \in DOMAIN list : \E k \in 1..n : moved[k] = list[i]
      <3>1. /\ at \in Nat /\ at >= 1 /\ at <= Len(list) + 1
            /\ PlaceIn(list, m, at)
            /\ n \in Nat /\ n >= 1 /\ n >= Len(list) /\ n <= Len(list) + 1
            /\ at <= Len(list) => n <= Len(list)
        BY <1>1, <2>3, <2>4
      <3>2. /\ moved \in Seq(Models) /\ Len(moved) = n /\ DOMAIN moved = 1..n
            /\ moved[1] = m
            /\ OnceEach(moved)
            /\ at <= Len(list) \/ n > Len(list) =>
                 \A i \in DOMAIN list : \E k \in 1..n : moved[k] = list[i]
        BY <3>1, ShiftingKeeps
      <3> QED
        BY <2>4, <3>2
    <2> HIDE DEF moved
    <2>5. MovedToFront(list, m) = moved
      BY <2>2 DEF moved, n, at
    <2> QED
      BY <1>1, <2>3, <2>6, <2>5
  <1>3. CASE ~\E i \in DOMAIN list : list[i] = m
    <2> DEFINE length == Len(list) + 1
               n      == cut(length)
    <2>1. MovedToFront(list, m) = Shifted(list, m, length, n)
      BY <1>3, Zenon DEF MovedToFront, Shifted
    <2>2. /\ length \in Nat /\ length >= 1 /\ length > Len(list) /\ length <= Len(list) + 1
          /\ n \in Nat /\ n >= 1 /\ n <= MaxRecent /\ n <= Len(list) + 1 /\ n >= Len(list)
          /\ n > Len(list) \/ n = MaxRecent
          /\ PlaceIn(list, m, length)
      BY <1>1, <1>3 DEF PlaceIn
    <2> DEFINE moved == Shifted(list, m, length, n)
    <2> HIDE DEF n, length
    <2>3. /\ moved \in Seq(Models) /\ Len(moved) = n /\ DOMAIN moved = 1..n
          /\ moved[1] = m /\ OnceEach(moved)
          /\ n > Len(list) => \A i \in DOMAIN list : \E k \in 1..n : moved[k] = list[i]
      BY <1>1, <1>3, <2>2, ShiftingKeeps
    <2> HIDE DEF moved
    <2>4. MovedToFront(list, m) = moved
      BY <2>1 DEF moved, length
    <2> QED
      BY <1>1, <2>2, <2>3, <2>4
  <1> QED
    BY <1>2, <1>3

\* The types of fields, without the records they are in.
LEMMA Typed ==
  ASSUME TypeOK
  PROVE  /\ None \notin Opens
         /\ shell.upload \in Opens \cup {None} /\ shell.shown \in Opens \cup {None}
         /\ ui.session \in Opens \cup {None}
         /\ registry \subseteq Opens /\ service.closing \subseteq Opens
         /\ \A j \in Opens : /\ waiter[j].previous \in Opens \cup {None}
                             /\ session[j] \in {"none", "open", "closed"}
  BY OpeningAssumption DEF TypeOK, Opens, Shell, EventLoop, Service, Presenter

(* What the steps that touch several variables at once do, open by open. *)

LEMMA UploadCompletesShape ==
  ASSUME TypeOK, NEW j \in Opens, UploadCompletes(j)
  PROVE  /\ shell.upload \in Opens /\ shell.upload # None
         /\ job[j].at = "uploading" /\ job[j].model = job[shell.upload].model
         /\ \A i \in Opens :
              /\ job'[i].at = IF i = shell.upload THEN "queued" ELSE job[i].at
              /\ job'[i].model = job[i].model
              /\ job[i].whole \/ i = j => job'[i].whole
              /\ waiter'[i].at = IF i = shell.upload THEN "waiting" ELSE waiter[i].at
              /\ waiter'[i].previous = waiter[i].previous
         /\ shell'.upload = None /\ shell'.overlay /\ shell'.shown = shell.shown
         /\ UNCHANGED <<session, registry, recent, service, ui, crossed>>
  <1>1. shell.upload \in Opens /\ shell.upload # None /\ job[j].model = job[shell.upload].model
    BY DEF TypeOK, UploadCompletes, Concerns, Shell
  <1> DEFINE whole == [job EXCEPT ![j].whole = TRUE]
  <1>2. /\ whole \in [Opens -> OpenJob]
        /\ \A i \in Opens : /\ whole[i].at = job[i].at /\ whole[i].model = job[i].model
                            /\ job[i].whole \/ i = j => whole[i].whole
    BY DEF TypeOK, OpenJob
  <1>3. job' = [whole EXCEPT ![shell.upload].at = "queued"]
    BY DEF UploadCompletes
  <1> HIDE DEF whole
  <1>4. \A i \in Opens : /\ job'[i].at = IF i = shell.upload THEN "queued" ELSE whole[i].at
                         /\ job'[i].model = whole[i].model /\ job'[i].whole = whole[i].whole
    BY <1>1, <1>2, <1>3 DEF OpenJob
  <1>5. \A i \in Opens : /\ waiter'[i].at = IF i = shell.upload THEN "waiting" ELSE waiter[i].at
                         /\ waiter'[i].previous = waiter[i].previous
    BY <1>1 DEF TypeOK, UploadCompletes, Begin, Presenter
  <1>6. shell'.upload = None /\ shell'.overlay /\ shell'.shown = shell.shown
    BY DEF TypeOK, UploadCompletes, Begin, Shell
  <1>7. job[j].at = "uploading" /\ UNCHANGED <<session, registry, recent, service, ui, crossed>>
    BY DEF UploadCompletes, Begin
  <1> QED
    BY <1>1, <1>2, <1>4, <1>5, <1>6, <1>7

LEMMA PickPathShape ==
  ASSUME TypeOK, NEW j \in Opens, NEW m \in Models, PickPath(j, m)
  PROVE  /\ ui.at = "idle" /\ service.at = "up" /\ job[j].at = "unused"
         /\ \A i \in Opens :
              /\ job'[i].at = IF i = j THEN "queued" ELSE job[i].at
              /\ job'[i].model = IF i = j THEN m ELSE job[i].model
              /\ job'[i].whole = job[i].whole
              /\ waiter'[i].at = IF i = j THEN "waiting" ELSE waiter[i].at
              /\ waiter'[i].previous = waiter[i].previous
         /\ shell'.upload = shell.upload /\ shell'.overlay /\ shell'.shown = shell.shown
         /\ ~crossed' => ~crossed /\ AtRest
         /\ UNCHANGED <<session, registry, recent, service, ui>>
  <1>1. \A i \in Opens : /\ job'[i].at = IF i = j THEN "queued" ELSE job[i].at
                         /\ job'[i].model = IF i = j THEN m ELSE job[i].model
                         /\ job'[i].whole = job[i].whole
    BY DEF TypeOK, PickPath, OpenJob
  <1>2. \A i \in Opens : /\ waiter'[i].at = IF i = j THEN "waiting" ELSE waiter[i].at
                         /\ waiter'[i].previous = waiter[i].previous
    BY DEF TypeOK, PickPath, Begin, Presenter
  <1>3. shell'.upload = shell.upload /\ shell'.overlay /\ shell'.shown = shell.shown
    BY DEF TypeOK, PickPath, Begin, Shell
  <1>4. /\ ui.at = "idle" /\ service.at = "up" /\ job[j].at = "unused"
        /\ ~crossed' => ~crossed /\ AtRest
        /\ UNCHANGED <<session, registry, recent, service, ui>>
    BY DEF PickPath, Begin, Listening, Unused
  <1> QED
    BY <1>1, <1>2, <1>3, <1>4

LEMMA PickUploadShape ==
  ASSUME TypeOK, NEW j \in Opens, NEW m \in Models, PickUpload(j, m)
  PROVE  /\ ui.at = "idle" /\ service.at = "up" /\ job[j].at = "unused"
         /\ \A i \in Opens :
              /\ job'[i].at = IF i = j THEN "uploading" ELSE job[i].at
              /\ job'[i].model = IF i = j THEN m ELSE job[i].model
              /\ i # j => job'[i].whole = job[i].whole
         /\ shell'.upload = j /\ shell'.overlay /\ shell'.shown = shell.shown
         /\ ~crossed' => ~crossed /\ AtRest
         /\ UNCHANGED <<session, registry, recent, service, ui, waiter>>
  <1>1. \A i \in Opens : /\ job'[i].at = IF i = j THEN "uploading" ELSE job[i].at
                         /\ job'[i].model = IF i = j THEN m ELSE job[i].model
                         /\ i # j => job'[i].whole = job[i].whole
    BY DEF TypeOK, PickUpload, OpenJob
  <1>2. shell'.upload = j /\ shell'.overlay /\ shell'.shown = shell.shown
    BY DEF TypeOK, PickUpload, Shell
  <1>3. /\ ui.at = "idle" /\ service.at = "up" /\ job[j].at = "unused"
        /\ ~crossed' => ~crossed /\ AtRest
        /\ UNCHANGED <<session, registry, recent, service, ui, waiter>>
    BY DEF PickUpload, Listening, Unused
  <1> QED
    BY <1>1, <1>2, <1>3

LEMMA DisconnectShape ==
  ASSUME TypeOK, Disconnect
  PROVE  /\ service.at = "up" /\ service'.at = "jobs" /\ service'.closing = service.closing
         /\ ui.at = "idle"
         /\ \A i \in Opens :
              /\ job'[i].at = IF job[i].at = "queued" THEN "cancelled" ELSE job[i].at
              /\ job'[i].model = job[i].model /\ job'[i].whole = job[i].whole
         /\ UNCHANGED <<session, registry, recent, shell, waiter, ui, crossed>>
  <1>1. ASSUME NEW i \in Opens
        PROVE  /\ job'[i].at = IF job[i].at = "queued" THEN "cancelled" ELSE job[i].at
               /\ job'[i].model = job[i].model /\ job'[i].whole = job[i].whole
    <2>1. job[i] \in OpenJob
      BY DEF TypeOK
    <2>2. job'[i] = IF job[i].at = "queued" THEN [job[i] EXCEPT !.at = "cancelled"]
                    ELSE [job[i] EXCEPT !.cancelled = Active(i)]
      BY DEF Disconnect
    <2> QED
      BY <2>1, <2>2 DEF OpenJob
  <1>2. service'.at = "jobs" /\ service'.closing = service.closing
    BY DEF TypeOK, Disconnect, Service
  <1>3. /\ service.at = "up" /\ ui.at = "idle"
        /\ UNCHANGED <<session, registry, recent, shell, waiter, ui, crossed>>
    BY DEF Disconnect, Listening
  <1> QED
    BY <1>1, <1>2, <1>3

LEMMA PrepareSceneShape ==
  ASSUME TypeOK, NEW j \in Opens, PrepareScene(j)
  PROVE  /\ job[j].at = "preparing"
         /\ \A i \in Opens : /\ i # j => job'[i] = job[i]
                             /\ job'[i].model = job[i].model /\ job'[i].whole = job[i].whole
         /\ \/ job'[j].at = "registering" /\ session' = session
            \/ /\ job'[j].at \in {"cancelled", "failed"}
               /\ \A i \in Opens : session'[i] = IF i = j THEN "closed" ELSE session[i]
         /\ UNCHANGED <<registry, recent, service, shell, waiter, ui, crossed>>
  <1>1. CASE Goto(j, "registering") /\ UNCHANGED session
    BY <1>1 DEF TypeOK, PrepareScene, Goto, OpenJob, background
  <1>2. ASSUME NEW at \in {"cancelled", "failed"}, Goto(j, at),
               session' = [session EXCEPT ![j] = "closed"]
        PROVE  /\ \A i \in Opens : /\ i # j => job'[i] = job[i]
                                   /\ job'[i].model = job[i].model /\ job'[i].whole = job[i].whole
               /\ job'[j].at \in {"cancelled", "failed"}
               /\ \A i \in Opens : session'[i] = IF i = j THEN "closed" ELSE session[i]
    BY <1>2 DEF TypeOK, Goto, OpenJob
  <1> QED
    BY <1>1, <1>2 DEF PrepareScene, background

LEMMA ReadPreviousShape ==
  ASSUME TypeOK, NEW j \in Opens, ReadPrevious(j)
  PROVE  /\ waiter[j].at = "presenting"
         /\ \A i \in Opens : i # j => waiter'[i] = waiter[i]
         /\ \/ /\ shell.shown \in Opens \ {j} /\ session[shell.shown] = "open"
               /\ waiter'[j].at = "closing" /\ waiter'[j].previous = shell.shown
            \/ /\ waiter'[j].at = "adopting"
               /\ ~(shell.shown \in Opens \ {j} /\ session[shell.shown] = "open")
         /\ UNCHANGED <<job, session, registry, recent, service, shell, ui, crossed>>
  <1> DEFINE closes == shell.shown # None /\ shell.shown # j /\ session[shell.shown] = "open"
  <1>1. shell.shown \in Opens \cup {None}
    BY DEF TypeOK, Shell
  <1>2. /\ waiter[j].at = "presenting"
        /\ UNCHANGED <<job, session, registry, recent, service, shell, ui, crossed>>
    BY DEF ReadPrevious, Unchanged
  <1>3. CASE closes
    <2>1. waiter' = [waiter EXCEPT ![j] = [at |-> "closing", previous |-> shell.shown]]
      BY <1>3 DEF ReadPrevious
    <2> QED
      BY <1>1, <1>2, <1>3, <2>1 DEF TypeOK
  <1>4. CASE ~closes
    <2>1. waiter' = [waiter EXCEPT ![j] = [at |-> "adopting", previous |-> None]]
      BY <1>4 DEF ReadPrevious
    <2>2. ~(shell.shown \in Opens \ {j} /\ session[shell.shown] = "open")
      BY <1>4, OpeningAssumption DEF Opens
    <2> QED
      BY <1>2, <2>1, <2>2 DEF TypeOK
  <1> QED
    BY <1>3, <1>4

LEMMA ClosePreviousShape ==
  ASSUME TypeOK, NEW j \in Opens, ClosePrevious(j)
  PROVE  /\ waiter[j].at = "closing"
         /\ \A i \in Opens : /\ i # j => waiter'[i] = waiter[i]
                             /\ waiter'[i].previous = waiter[i].previous
         /\ IF waiter[j].previous \in registry
            THEN /\ \A i \in Opens : session'[i] = IF i = waiter[j].previous THEN "closed" ELSE session[i]
                 /\ waiter'[j].at = "forgetting"
            ELSE session' = session /\ waiter'[j].at = "finishing"
         /\ UNCHANGED <<job, registry, recent, service, shell, ui, crossed>>
  <1>1. waiter[j].at = "closing" /\ UNCHANGED <<job, registry, recent, service, shell, ui, crossed>>
    BY DEF ClosePrevious, Unchanged
  <1>2. CASE waiter[j].previous \in registry
    <2>1. Step(j, "forgetting") /\ session' = [session EXCEPT ![waiter[j].previous] = "closed"]
      BY <1>2 DEF ClosePrevious
    <2> QED
      BY <1>1, <1>2, <2>1 DEF TypeOK, Step, Presenter
  <1>3. CASE waiter[j].previous \notin registry
    <2>1. Step(j, "finishing") /\ session' = session
      BY <1>3 DEF ClosePrevious
    <2> QED
      BY <1>1, <1>3, <2>1 DEF TypeOK, Step, Presenter
  <1> QED
    BY <1>2, <1>3

LEMMA CloseShownShape ==
  ASSUME TypeOK, CloseShown
  PROVE  /\ ui.at = "closing"
         /\ IF ui.session \in registry
            THEN /\ \A i \in Opens : session'[i] = IF i = ui.session THEN "closed" ELSE session[i]
                 /\ ui'.at = "forgetting" /\ ui'.session = ui.session
            ELSE session' = session /\ ui'.at = "idle"
         /\ UNCHANGED <<job, registry, recent, service, shell, waiter, crossed>>
  <1>1. CASE ui.session \in registry
    <2>1. session' = [session EXCEPT ![ui.session] = "closed"] /\ ui' = [ui EXCEPT !.at = "forgetting"]
      BY <1>1 DEF CloseShown
    <2> QED
      BY <1>1, <2>1 DEF TypeOK, CloseShown, EventLoop
  <1>2. CASE ui.session \notin registry
    BY <1>2 DEF CloseShown
  <1> QED
    BY <1>1, <1>2

LEMMA CloseCollectedShape ==
  ASSUME TypeOK, CloseCollected
  PROVE  /\ service.at = "sessions" /\ service'.at = "sessions"
         /\ \E k \in service.closing :
              /\ \A i \in Opens : session'[i] = IF i = k THEN "closed" ELSE session[i]
              /\ service'.closing = service.closing \ {k}
         /\ UNCHANGED <<job, registry, recent, shell, waiter, ui, crossed>>
  <1>1. PICK k \in service.closing : /\ session' = [session EXCEPT ![k] = "closed"]
                                     /\ service' = [service EXCEPT !.closing = service.closing \ {k}]
    BY DEF CloseCollected
  <1>2. service.at = "sessions" /\ UNCHANGED <<job, registry, recent, shell, waiter, ui, crossed>>
    BY DEF CloseCollected
  <1>3. service'.at = "sessions" /\ service'.closing = service.closing \ {k}
    BY <1>1, <1>2 DEF TypeOK, Service
  <1>4. \A i \in Opens : session'[i] = IF i = k THEN "closed" ELSE session[i]
    BY <1>1 DEF TypeOK
  <1> QED
    BY <1>2, <1>3, <1>4

LEMMA RecordOpenShape ==
  ASSUME TypeOK, JobsFollowed, RecordedInOrder, NEW j \in Opens, RecordOpen(j)
  PROVE  /\ job[j].model \in Models
         /\ recent.memory \in Seq(Models) /\ Len(recent.memory) <= MaxRecent
         /\ recent'.memory = Updated(job[j].model)
         /\ recent'.last = job[j].model /\ recent'.file = recent.file
         /\ recent'.payload = [recent.payload EXCEPT ![j] = Updated(job[j].model)]
         /\ recent' \in Recents
         /\ Updated(job[j].model) \in Seq(Models)
         /\ Len(Updated(job[j].model)) \in 1..MaxRecent
         /\ Len(Updated(job[j].model)) >= Len(recent.memory)
         /\ Updated(job[j].model)[1] = job[j].model
         /\ OnceEach(Updated(job[j].model))
         /\ \A i \in DOMAIN recent.memory :
              \/ \E k \in DOMAIN Updated(job[j].model) : Updated(job[j].model)[k] = recent.memory[i]
              \/ Len(Updated(job[j].model)) = MaxRecent
  <1> DEFINE m == job[j].model
             list == recent.memory
             U == Updated(m)
  <1>1. recent \in Recents /\ Len(list) <= MaxRecent
    BY DEF TypeOK
  <1>2. recent' = [recent EXCEPT !.memory = U, !.last = m, !.payload[j] = U]
    BY DEF RecordOpen
  <1>3. m \in Models
    BY DEF JobsFollowed, Followed, RecordOpen
  <1>4. OnceEach(list)
    BY DEF RecordedInOrder, OnceEach
  <1>5. U = MovedToFront(list, m) /\ list \in Seq(Models)
    BY <1>1 DEF Updated, Recents
  <1> HIDE DEF m, list, U
  <1>6. /\ U \in Seq(Models) /\ Len(U) \in 1..MaxRecent /\ Len(U) >= Len(list)
        /\ U[1] = m
        /\ OnceEach(U)
        /\ \A i \in DOMAIN list : (\E k \in DOMAIN U : U[k] = list[i]) \/ Len(U) = MaxRecent
    BY <1>1, <1>3, <1>4, <1>5, MovedToFrontKeeps
  <1>7. /\ recent'.memory = U /\ recent'.last = m /\ recent'.file = recent.file
        /\ recent'.payload = [recent.payload EXCEPT ![j] = U]
        /\ recent' = [memory |-> U, file |-> recent.file, last |-> m,
                       payload |-> [recent.payload EXCEPT ![j] = U]]
    BY <1>1, <1>2 DEF Recents
  <1>8. [recent.payload EXCEPT ![j] = U] \in [Opens -> Seq(Models)]
    BY <1>1, <1>6 DEF Recents
  <1>9. recent' \in Recents
    BY <1>1, <1>3, <1>6, <1>7, <1>8 DEF Recents
  <1> QED
    BY <1>1, <1>3, <1>5, <1>6, <1>7, <1>9 DEF m, list, U

LEMMA SaveRecentShape ==
  ASSUME TypeOK, RecordedInOrder, NEW j \in Opens, SaveRecent(j)
  PROVE  /\ recent'.memory = recent.memory /\ recent'.last = recent.last
         /\ recent'.file = recent.memory
         /\ recent'.payload = [recent.payload EXCEPT ![j] = <<>>]
         /\ recent' \in Recents
  <1>1. recent \in Recents
    BY DEF TypeOK
  <1>2. recent.payload[j] = recent.memory
    BY DEF RecordedInOrder, SaveRecent
  <1>3. recent' = [recent EXCEPT !.file = recent.memory, !.payload[j] = <<>>]
    BY <1>2 DEF SaveRecent
  <1>4. /\ recent'.memory = recent.memory /\ recent'.last = recent.last
        /\ recent'.file = recent.memory
        /\ recent'.payload = [recent.payload EXCEPT ![j] = <<>>]
        /\ recent' = [memory |-> recent.memory, file |-> recent.memory, last |-> recent.last,
                       payload |-> [recent.payload EXCEPT ![j] = <<>>]]
    BY <1>1, <1>3 DEF Recents
  <1>5. [recent.payload EXCEPT ![j] = <<>>] \in [Opens -> Seq(Models)]
    <2>1. <<>> \in Seq(Models)
      OBVIOUS
    <2> QED
      BY <1>1, <2>1 DEF Recents
  <1> QED
    BY <1>1, <1>4, <1>5 DEF Recents

\* Every step keeps the types.
LEMMA TypeOKKept ==
  ASSUME JobsFollowed, RecordedInOrder, TypeOK, [Next]_vars
  PROVE  TypeOK'
  <1>1. ASSUME NEW j \in Opens, Pick(j)
        PROVE  TypeOK'
    <2>1. job' \in [Opens -> OpenJob]
      BY <1>1 DEF TypeOK, Pick, Checkpoint, Goto, OpenJob, Running, Ended, Shell
    <2> QED
      BY <1>1, <2>1 DEF TypeOK, Pick, Checkpoint, Goto, background
  <1>2. ASSUME NEW j \in Opens, Import(j)
        PROVE  TypeOK'
    <2>1. job' \in [Opens -> OpenJob]
      BY <1>2 DEF TypeOK, Import, Checkpoint, Goto, OpenJob, Running, Ended, Shell
    <2> QED
      BY <1>2, <2>1 DEF TypeOK, Import, Checkpoint, Goto, background
  <1>3. ASSUME NEW j \in Opens, RecordOpen(j)
        PROVE  TypeOK'
    <2>1. job' \in [Opens -> OpenJob]
      BY <1>3 DEF TypeOK, RecordOpen, Goto, OpenJob, Running, Ended
    <2>2. recent' \in Recents /\ recent'.memory = Updated(job[j].model)
          /\ Len(Updated(job[j].model)) \in 1..MaxRecent /\ recent'.file = recent.file
      BY <1>3, RecordOpenShape
    <2>3. Len(recent'.memory) <= MaxRecent /\ Len(recent'.file) <= MaxRecent
      BY <2>2, OpeningAssumption DEF TypeOK
    <2> QED
      BY <1>3, <2>1, <2>2, <2>3 DEF TypeOK, RecordOpen
  <1>4. ASSUME NEW j \in Opens, SaveRecent(j)
        PROVE  TypeOK'
    <2>1. job' \in [Opens -> OpenJob]
      BY <1>4 DEF TypeOK, SaveRecent, Checkpoint, Goto, OpenJob, Running, Ended
    <2>2. recent' \in Recents /\ Len(recent'.memory) <= MaxRecent /\ Len(recent'.file) <= MaxRecent
      BY <1>4, SaveRecentShape DEF TypeOK
    <2> QED
      BY <1>4, <2>1, <2>2 DEF TypeOK, SaveRecent
  <1>5. ASSUME NEW j \in Opens, Detect(j)
        PROVE  TypeOK'
    <2>1. job' \in [Opens -> OpenJob]
      BY <1>5 DEF TypeOK, Detect, Checkpoint, Goto, OpenJob, Running, Ended, Shell
    <2> QED
      BY <1>5, <2>1 DEF TypeOK, Detect, Checkpoint, Goto, background
  <1>6. ASSUME NEW j \in Opens, BuildSession(j)
        PROVE  TypeOK'
    <2>1. job' \in [Opens -> OpenJob]
      BY <1>6 DEF TypeOK, BuildSession, Goto, OpenJob, Running, Ended, Shell
    <2>2. session' \in [Opens -> {"none", "open", "closed"}]
      BY <1>6 DEF TypeOK, BuildSession, Goto, EventLoop
    <2> QED
      BY <1>6, <2>1, <2>2 DEF TypeOK, BuildSession, Goto, background
  <1>7. ASSUME NEW j \in Opens, PrepareScene(j)
        PROVE  TypeOK'
    <2>1. \E at \in {"registering", "cancelled", "failed"} : Goto(j, at)
      BY <1>7 DEF PrepareScene
    <2>2. job' \in [Opens -> OpenJob]
      BY <2>1 DEF TypeOK, Goto, OpenJob, Running, Ended
    <2>3. session' \in [Opens -> {"none", "open", "closed"}]
      BY <1>7 DEF TypeOK, PrepareScene
    <2> QED
      BY <1>7, <2>2, <2>3 DEF TypeOK, PrepareScene, background
  <1>8. ASSUME NEW j \in Opens, Register(j)
        PROVE  TypeOK'
    <2>1. job' \in [Opens -> OpenJob]
      BY <1>8 DEF TypeOK, Register, Goto, OpenJob, Running, Ended, Shell
    <2>2. registry' \subseteq Opens
      BY <1>8 DEF TypeOK, Register, Goto
    <2> QED
      BY <1>8, <2>1, <2>2 DEF TypeOK, Register, Goto, background
  <1>9. ASSUME NEW j \in Opens, Return(j)
        PROVE  TypeOK'
    <2>1. job' \in [Opens -> OpenJob]
      BY <1>9 DEF TypeOK, Return, Goto, OpenJob, Running, Ended, Shell
    <2>2. warming' \in [Opens -> {"none", "walking", "ended"}]
      BY <1>9 DEF TypeOK, Return, Goto
    <2> QED
      BY <1>9, <2>1, <2>2 DEF TypeOK, Return, Goto, background
  <1>10. ASSUME NEW j \in Opens, Fail(j)
        PROVE  TypeOK'
    <2>1. job' \in [Opens -> OpenJob]
      BY <1>10 DEF TypeOK, Fail, Goto, OpenJob, Running, Ended, Shell
    <2> QED
      BY <1>10, <2>1 DEF TypeOK, Fail, Goto, background
  <1>11. ASSUME NEW j \in Opens, EndWarming(j)
        PROVE  TypeOK'
    <2>1. warming' \in [Opens -> {"none", "walking", "ended"}]
      BY <1>11 DEF TypeOK, EndWarming
    <2> QED
      BY <1>11, <2>1 DEF TypeOK, EndWarming, background
  <1>12. ASSUME NEW j \in Opens, Wake(j)
        PROVE  TypeOK'
    <2>1. waiter' \in [Opens -> Presenter]
      BY <1>12 DEF TypeOK, Wake, Step, Presenter, Shell
    <2> QED
      BY <1>12, <2>1 DEF TypeOK, Wake, Step, Unchanged
  <1>13. ASSUME NEW j \in Opens, ReadPrevious(j)
        PROVE  TypeOK'
    <2>1. waiter' \in [Opens -> Presenter]
      BY <1>13 DEF TypeOK, ReadPrevious, Presenter, Shell
    <2> QED
      BY <1>13, <2>1 DEF TypeOK, ReadPrevious, Unchanged
  <1>14. ASSUME NEW j \in Opens, ClosePrevious(j)
        PROVE  TypeOK'
    <2>1. session' \in [Opens -> {"none", "open", "closed"}]
      BY <1>14 DEF TypeOK, ClosePrevious, Step, EventLoop
    <2>2. waiter' \in [Opens -> Presenter]
      BY <1>14 DEF TypeOK, ClosePrevious, Step, Presenter, Shell
    <2> QED
      BY <1>14, <2>1, <2>2 DEF TypeOK, ClosePrevious, Step, Unchanged
  <1>15. ASSUME NEW j \in Opens, ForgetPrevious(j)
        PROVE  TypeOK'
    <2>1. registry' \subseteq Opens
      BY <1>15 DEF TypeOK, ForgetPrevious, Step
    <2>2. waiter' \in [Opens -> Presenter]
      BY <1>15 DEF TypeOK, ForgetPrevious, Step, Presenter, Shell
    <2> QED
      BY <1>15, <2>1, <2>2 DEF TypeOK, ForgetPrevious, Step, Unchanged
  <1>16. ASSUME NEW j \in Opens, Adopt(j)
        PROVE  TypeOK'
    <2>1. shell' \in Shell
      BY <1>16 DEF TypeOK, Adopt, Step, Shell
    <2>2. waiter' \in [Opens -> Presenter]
      BY <1>16 DEF TypeOK, Adopt, Step, Presenter, Shell
    <2> QED
      BY <1>16, <2>1, <2>2 DEF TypeOK, Adopt, Step, Unchanged
  <1>17. ASSUME NEW j \in Opens, Finish(j)
        PROVE  TypeOK'
    <2>1. shell' \in Shell
      BY <1>17 DEF TypeOK, Finish, Step, Shell
    <2>2. waiter' \in [Opens -> Presenter]
      BY <1>17 DEF TypeOK, Finish, Step, Presenter, Shell
    <2> QED
      BY <1>17, <2>1, <2>2 DEF TypeOK, Finish, Step, Unchanged
  <1>18. ASSUME NEW j \in Opens, UploadFails(j)
        PROVE  TypeOK'
    <2>1. job' \in [Opens -> OpenJob]
      BY <1>18 DEF TypeOK, UploadFails, Concerns, Goto, OpenJob, Running, Ended, Shell
    <2>2. shell' \in Shell
      BY <1>18 DEF TypeOK, UploadFails, Concerns, Goto, Shell
    <2> QED
      BY <1>18, <2>1, <2>2 DEF TypeOK, UploadFails, Concerns, Goto, background
  <1>19. ASSUME NEW j \in Opens, UploadCompletes(j)
        PROVE  TypeOK'
    <2>1. shell.upload \in Opens
      BY <1>19 DEF TypeOK, UploadCompletes, Concerns, Shell
    <2> DEFINE whole == [job EXCEPT ![j].whole = TRUE]
    <2>2. whole \in [Opens -> OpenJob]
      BY DEF TypeOK, OpenJob
    <2>3. job' = [whole EXCEPT ![shell.upload].at = "queued"]
      BY <1>19 DEF UploadCompletes
    <2>4. job' \in [Opens -> OpenJob]
      <3> HIDE DEF whole
      <3> QED BY <2>1, <2>2, <2>3 DEF OpenJob
    <2>5. shell' \in Shell
      BY <1>19, <2>1 DEF TypeOK, UploadCompletes, Begin, Shell
    <2>6. waiter' \in [Opens -> Presenter]
      BY <1>19, <2>1 DEF TypeOK, UploadCompletes, Begin, Presenter
    <2> QED
      BY <1>19, <2>4, <2>5, <2>6 DEF TypeOK, UploadCompletes, Begin
  <1>20. ASSUME OpenClicked
        PROVE  TypeOK'
    <2>1. shell.dialogs \in 0..MaxDialogs /\ shell.dialogs < MaxDialogs
      BY <1>20 DEF TypeOK, OpenClicked, Shell
    <2>2. shell.dialogs + 1 \in 0..MaxDialogs
      BY <2>1, OpeningAssumption
    <2>3. shell' = [shell EXCEPT !.dialogs = shell.dialogs + 1]
      BY <1>20 DEF OpenClicked
    <2>4. shell' \in Shell
      BY <2>2, <2>3 DEF TypeOK, Shell
    <2> QED
      BY <1>20, <2>4 DEF TypeOK, OpenClicked, background
  <1>21. ASSUME Dismissed
        PROVE  TypeOK'
    <2>1. shell.dialogs \in 0..MaxDialogs /\ shell.dialogs > 0
      BY <1>21 DEF TypeOK, Dismissed, Shell
    <2>2. shell.dialogs - 1 \in 0..MaxDialogs
      BY <2>1, OpeningAssumption
    <2>3. shell' = [shell EXCEPT !.dialogs = shell.dialogs - 1]
      BY <1>21 DEF Dismissed
    <2>4. shell' \in Shell
      BY <2>2, <2>3 DEF TypeOK, Shell
    <2> QED
      BY <1>21, <2>4 DEF TypeOK, Dismissed, background
  <1>22. ASSUME NEW j \in Opens, NEW m \in Models, PickPath(j, m)
        PROVE  TypeOK'
    <2>1. shell.dialogs - 1 \in 0..MaxDialogs
      BY <1>22, OpeningAssumption DEF TypeOK, PickPath, Shell
    <2>2. shell' = [shell EXCEPT !.dialogs = shell.dialogs - 1, !.job = j, !.overlay = TRUE]
      BY <1>22 DEF TypeOK, PickPath, Begin, Shell
    <2>3. shell' \in Shell
      BY <2>1, <2>2 DEF TypeOK, Shell
    <2>4. job' \in [Opens -> OpenJob]
      BY <1>22 DEF TypeOK, PickPath, OpenJob
    <2>5. waiter' \in [Opens -> Presenter]
      BY <1>22 DEF TypeOK, PickPath, Begin, Presenter
    <2>6. crossed' \in BOOLEAN
      BY <1>22 DEF PickPath
    <2> QED
      BY <1>22, <2>3, <2>4, <2>5, <2>6 DEF TypeOK, PickPath, Begin
  <1>23. ASSUME NEW j \in Opens, NEW m \in Models, PickUpload(j, m)
        PROVE  TypeOK'
    <2>1. shell.dialogs - 1 \in 0..MaxDialogs
      BY <1>23, OpeningAssumption DEF TypeOK, PickUpload, Shell
    <2>2. shell' = [shell EXCEPT !.dialogs = shell.dialogs - 1, !.upload = j, !.overlay = TRUE]
      BY <1>23 DEF PickUpload
    <2>3. shell' \in Shell
      BY <2>1, <2>2 DEF TypeOK, Shell
    <2>4. job' \in [Opens -> OpenJob]
      BY <1>23 DEF TypeOK, PickUpload, OpenJob
    <2>5. crossed' \in BOOLEAN
      BY <1>23 DEF PickUpload
    <2> QED
      BY <1>23, <2>3, <2>4, <2>5 DEF TypeOK, PickUpload
  <1>24. ASSUME NEW j \in Opens, UploadIgnored(j)
        PROVE  TypeOK'
    <2>1. job' \in [Opens -> OpenJob]
      BY <1>24 DEF TypeOK, UploadIgnored, OpenJob
    <2> QED
      BY <1>24, <2>1 DEF TypeOK, UploadIgnored, background
  <1>25. ASSUME CancelOpen
        PROVE  TypeOK'
    <2>1. shell.job \in Opens
      BY <1>25 DEF TypeOK, CancelOpen, Opening, Shell
    <2>2. job' \in [Opens -> OpenJob]
      BY <1>25, <2>1 DEF TypeOK, CancelOpen, OpenJob
    <2> QED
      BY <1>25, <2>2 DEF TypeOK, CancelOpen, background
  <1>26. ASSUME CloseClicked
        PROVE  TypeOK'
    <2>1. ui' \in EventLoop
      BY <1>26 DEF TypeOK, CloseClicked, Listening, EventLoop, Shell
    <2> QED
      BY <1>26, <2>1 DEF TypeOK, CloseClicked, Listening
  <1>27. ASSUME Disconnect
        PROVE  TypeOK'
    <2>1. job' \in [Opens -> OpenJob]
      <3>1. ASSUME NEW j \in Opens
            PROVE  job'[j] \in OpenJob
        <4>1. job[j] \in OpenJob
          BY DEF TypeOK
        <4>2. job'[j] = IF job[j].at = "queued" THEN [job[j] EXCEPT !.at = "cancelled"]
                        ELSE [job[j] EXCEPT !.cancelled = Active(j)]
          BY <1>27 DEF Disconnect
        <4>3. Active(j) \in BOOLEAN
          BY DEF Active
        <4> QED
          BY <4>1, <4>2, <4>3 DEF OpenJob, Ended
      <3>2. job' = [j \in Opens |-> job'[j]]
        BY <1>27 DEF Disconnect
      <3> QED
        BY <3>1, <3>2
    <2>2. service' \in Service
      BY <1>27 DEF TypeOK, Disconnect, Service
    <2> QED
      BY <1>27, <2>1, <2>2 DEF TypeOK, Disconnect
  <1>28. ASSUME CloseShown
        PROVE  TypeOK'
    <2>1. session' \in [Opens -> {"none", "open", "closed"}]
      BY <1>28 DEF TypeOK, CloseShown, EventLoop
    <2>2. ui' \in EventLoop
      BY <1>28 DEF TypeOK, CloseShown, EventLoop, Shell
    <2> QED
      BY <1>28, <2>1, <2>2 DEF TypeOK, CloseShown
  <1>29. ASSUME ForgetShown
        PROVE  TypeOK'
    <2>1. registry' \subseteq Opens
      BY <1>29 DEF TypeOK, ForgetShown
    <2>2. ui' \in EventLoop
      BY <1>29 DEF TypeOK, ForgetShown, EventLoop, Shell
    <2> QED
      BY <1>29, <2>1, <2>2 DEF TypeOK, ForgetShown
  <1>30. ASSUME ClearShell
        PROVE  TypeOK'
    <2>1. shell' \in Shell
      BY <1>30 DEF TypeOK, ClearShell, Shell
    <2>2. ui' \in EventLoop
      BY <1>30 DEF TypeOK, ClearShell, EventLoop, Shell
    <2> QED
      BY <1>30, <2>1, <2>2 DEF TypeOK, ClearShell
  <1>31. ASSUME CollectSessions
        PROVE  TypeOK'
    <2>1. service' \in Service
      BY <1>31 DEF TypeOK, CollectSessions, Service
    <2>2. registry' \subseteq Opens
      BY <1>31 DEF TypeOK, CollectSessions
    <2> QED
      BY <1>31, <2>1, <2>2 DEF TypeOK, CollectSessions
  <1>32. ASSUME CloseCollected
        PROVE  TypeOK'
    <2>1. session' \in [Opens -> {"none", "open", "closed"}]
      BY <1>32 DEF TypeOK, CloseCollected, EventLoop
    <2>2. service' \in Service
      BY <1>32 DEF TypeOK, CloseCollected, Service
    <2> QED
      BY <1>32, <2>1, <2>2 DEF TypeOK, CloseCollected
  <1>33. ASSUME SaveAndReturn
        PROVE  TypeOK'
    <2>1. recent' \in Recents /\ Len(recent'.memory) <= MaxRecent /\ Len(recent'.file) <= MaxRecent
      BY <1>33 DEF TypeOK, SaveAndReturn, Recents
    <2>2. service' \in Service
      BY <1>33 DEF TypeOK, SaveAndReturn, Service
    <2> QED
      BY <1>33, <2>1, <2>2 DEF TypeOK, SaveAndReturn
  <1>34. CASE UNCHANGED vars
    BY <1>34 DEF TypeOK, vars
  <1> QED
    BY <1>1, <1>2, <1>3, <1>4, <1>5, <1>6, <1>7, <1>8, <1>9, <1>10, <1>11, <1>12, <1>13, <1>14,
       <1>15, <1>16, <1>17, <1>18, <1>19, <1>20, <1>21, <1>22, <1>23, <1>24, <1>25, <1>26,
       <1>27, <1>28, <1>29, <1>30, <1>31, <1>32, <1>33, <1>34
       DEF Next, Worker, Waiter, Uploading, CloseModel, Closing, Handler, Over, vars

\* Every step keeps the waiting threads in step with the jobs.
LEMMA JobsFollowedKept ==
  ASSUME TypeOK, JobsFollowed, [Next]_vars
  PROVE  JobsFollowed'
  <1> USE OpeningAssumption DEF Active, Running, Ended, Presenting, Followed, Held
  <1>1. CASE UNCHANGED <<job, waiter, shell>>
    BY <1>1 DEF JobsFollowed
  <1>2. ASSUME NEW j \in Opens, Pick(j)
        PROVE  JobsFollowed'
    BY <1>2 DEF JobsFollowed, TypeOK, Pick, Checkpoint, Goto, background
  <1>3. ASSUME NEW j \in Opens, Import(j)
        PROVE  JobsFollowed'
    BY <1>3 DEF JobsFollowed, TypeOK, Import, Checkpoint, Goto, background
  <1>4. ASSUME NEW j \in Opens, RecordOpen(j)
        PROVE  JobsFollowed'
    BY <1>4 DEF JobsFollowed, TypeOK, RecordOpen, Goto
  <1>5. ASSUME NEW j \in Opens, SaveRecent(j)
        PROVE  JobsFollowed'
    BY <1>5 DEF JobsFollowed, TypeOK, SaveRecent, Checkpoint, Goto
  <1>6. ASSUME NEW j \in Opens, Detect(j)
        PROVE  JobsFollowed'
    BY <1>6 DEF JobsFollowed, TypeOK, Detect, Checkpoint, Goto, background
  <1>7. ASSUME NEW j \in Opens, BuildSession(j)
        PROVE  JobsFollowed'
    BY <1>7 DEF JobsFollowed, TypeOK, BuildSession, Goto, background
  <1>8. ASSUME NEW j \in Opens, PrepareScene(j)
        PROVE  JobsFollowed'
    BY <1>8, Typed, PrepareSceneShape DEF JobsFollowed
  <1>9. ASSUME NEW j \in Opens, Register(j)
        PROVE  JobsFollowed'
    BY <1>9 DEF JobsFollowed, TypeOK, Register, Goto, background
  <1>10. ASSUME NEW j \in Opens, Return(j)
        PROVE  JobsFollowed'
    BY <1>10 DEF JobsFollowed, TypeOK, Return, Goto, background
  <1>11. ASSUME NEW j \in Opens, Fail(j)
        PROVE  JobsFollowed'
    BY <1>11 DEF JobsFollowed, TypeOK, Fail, Goto, background
  <1>12. ASSUME NEW j \in Opens, Wake(j)
        PROVE  JobsFollowed'
    BY <1>12 DEF JobsFollowed, TypeOK, Wake, Step, Unchanged
  <1>13. ASSUME NEW j \in Opens, ReadPrevious(j)
        PROVE  JobsFollowed'
    BY <1>13, Typed, ReadPreviousShape DEF JobsFollowed
  <1>14. ASSUME NEW j \in Opens, ClosePrevious(j)
        PROVE  JobsFollowed'
    BY <1>14 DEF JobsFollowed, TypeOK, ClosePrevious, Step, Unchanged
  <1>15. ASSUME NEW j \in Opens, ForgetPrevious(j)
        PROVE  JobsFollowed'
    BY <1>15 DEF JobsFollowed, TypeOK, ForgetPrevious, Step, Unchanged
  <1>16. ASSUME NEW j \in Opens, Adopt(j)
        PROVE  JobsFollowed'
    BY <1>16 DEF JobsFollowed, TypeOK, Adopt, Step, Unchanged
  <1>17. ASSUME NEW j \in Opens, Finish(j)
        PROVE  JobsFollowed'
    BY <1>17 DEF JobsFollowed, TypeOK, Finish, Step, Unchanged
  <1>18. ASSUME NEW j \in Opens, UploadFails(j)
        PROVE  JobsFollowed'
    BY <1>18 DEF JobsFollowed, TypeOK, UploadFails, Concerns, Goto, background
  <1>19. ASSUME NEW j \in Opens, UploadCompletes(j)
        PROVE  JobsFollowed'
    <2>1. ASSUME NEW i \in Opens
          PROVE  Followed(i)'
      <3>1. CASE i = shell.upload
        BY <1>19, <3>1, UploadCompletesShape DEF JobsFollowed
      <3>2. CASE i # shell.upload
        BY <1>19, <3>2, UploadCompletesShape DEF JobsFollowed
      <3> QED
        BY <3>1, <3>2
    <2> QED
      BY <1>19, <2>1, UploadCompletesShape DEF JobsFollowed
  <1>20. ASSUME OpenClicked
        PROVE  JobsFollowed'
    BY <1>20 DEF JobsFollowed, TypeOK, OpenClicked, background
  <1>21. ASSUME Dismissed
        PROVE  JobsFollowed'
    BY <1>21 DEF JobsFollowed, TypeOK, Dismissed, background
  <1>22. ASSUME NEW j \in Opens, NEW m \in Models, PickPath(j, m)
        PROVE  JobsFollowed'
    BY <1>22, Typed, PickPathShape DEF JobsFollowed
  <1>23. ASSUME NEW j \in Opens, NEW m \in Models, PickUpload(j, m)
        PROVE  JobsFollowed'
    BY <1>23 DEF JobsFollowed, TypeOK, PickUpload, Listening, Unused, AtRest
  <1>24. ASSUME NEW j \in Opens, UploadIgnored(j)
        PROVE  JobsFollowed'
    BY <1>24 DEF JobsFollowed, TypeOK, UploadIgnored, Concerns, background
  <1>25. ASSUME CancelOpen
        PROVE  JobsFollowed'
    BY <1>25 DEF JobsFollowed, TypeOK, CancelOpen, Opening, background
  <1>26. ASSUME Disconnect
        PROVE  JobsFollowed'
    BY <1>26, Typed, DisconnectShape DEF JobsFollowed
  <1>27. ASSUME ClearShell
        PROVE  JobsFollowed'
    BY <1>27 DEF JobsFollowed, TypeOK, ClearShell
  <1> QED
    BY <1>1, <1>2, <1>3, <1>4, <1>5, <1>6, <1>7, <1>8, <1>9, <1>10, <1>11, <1>12, <1>13, <1>14,
       <1>15, <1>16, <1>17, <1>18, <1>19, <1>20, <1>21, <1>22, <1>23, <1>24, <1>25, <1>26, <1>27
       DEF Next, Worker, Waiter, Uploading, CloseModel, Closing, Handler, Over, vars,
           EndWarming, CloseClicked, CloseShown, ForgetShown, CollectSessions, CloseCollected,
           SaveAndReturn, Listening, background

\* Every step leaves each open session with a holder.
LEMMA SessionsHeldKept ==
  ASSUME TypeOK, JobsFollowed, ServiceEmptied, SessionsHeld, [Next]_vars
  PROVE  SessionsHeld'
  <1> USE OpeningAssumption DEF Active, Running, Ended, Presenting, Followed, Held
  <1>1. CASE UNCHANGED <<session, job, registry, service, waiter, ui>>
    BY <1>1 DEF SessionsHeld
  <1>2. ASSUME NEW j \in Opens, Pick(j)
        PROVE  SessionsHeld'
    BY <1>2 DEF SessionsHeld, TypeOK, JobsFollowed, ServiceEmptied, Pick, Checkpoint, Goto,
                background
  <1>3. ASSUME NEW j \in Opens, Import(j)
        PROVE  SessionsHeld'
    BY <1>3 DEF SessionsHeld, TypeOK, JobsFollowed, ServiceEmptied, Import, Checkpoint, Goto,
                background
  <1>4. ASSUME NEW j \in Opens, RecordOpen(j)
        PROVE  SessionsHeld'
    BY <1>4 DEF SessionsHeld, TypeOK, JobsFollowed, ServiceEmptied, RecordOpen, Goto
  <1>5. ASSUME NEW j \in Opens, SaveRecent(j)
        PROVE  SessionsHeld'
    BY <1>5 DEF SessionsHeld, TypeOK, JobsFollowed, ServiceEmptied, SaveRecent, Checkpoint, Goto
  <1>6. ASSUME NEW j \in Opens, Detect(j)
        PROVE  SessionsHeld'
    BY <1>6 DEF SessionsHeld, TypeOK, JobsFollowed, ServiceEmptied, Detect, Checkpoint, Goto,
                background
  <1>7. ASSUME NEW j \in Opens, BuildSession(j)
        PROVE  SessionsHeld'
    BY <1>7 DEF SessionsHeld, TypeOK, JobsFollowed, ServiceEmptied, BuildSession, Goto,
                background
  <1>8. ASSUME NEW j \in Opens, PrepareScene(j)
        PROVE  SessionsHeld'
    <2>1. ASSUME NEW i \in Opens
          PROVE  Held(i)'
      <3>1. CASE i = j
        BY <1>8, <3>1, Typed, PrepareSceneShape DEF SessionsHeld, JobsFollowed
      <3>2. CASE i # j
        BY <1>8, <3>2, Typed, PrepareSceneShape DEF SessionsHeld, JobsFollowed
      <3> QED
        BY <3>1, <3>2
    <2> QED
      BY <1>8, <2>1, Typed, PrepareSceneShape DEF SessionsHeld
  <1>9. ASSUME NEW j \in Opens, Register(j)
        PROVE  SessionsHeld'
    BY <1>9 DEF SessionsHeld, TypeOK, JobsFollowed, ServiceEmptied, Register, Goto, background
  <1>10. ASSUME NEW j \in Opens, Return(j)
        PROVE  SessionsHeld'
    BY <1>10 DEF SessionsHeld, TypeOK, JobsFollowed, ServiceEmptied, Return, Goto, background
  <1>11. ASSUME NEW j \in Opens, Fail(j)
        PROVE  SessionsHeld'
    BY <1>11 DEF SessionsHeld, TypeOK, JobsFollowed, ServiceEmptied, Fail, Goto, background
  <1>12. ASSUME NEW j \in Opens, Wake(j)
        PROVE  SessionsHeld'
    BY <1>12 DEF SessionsHeld, TypeOK, JobsFollowed, ServiceEmptied, Wake, Step, Unchanged
  <1>13. ASSUME NEW j \in Opens, ReadPrevious(j)
        PROVE  SessionsHeld'
    BY <1>13, Typed, ReadPreviousShape DEF SessionsHeld, JobsFollowed, ServiceEmptied
  <1>14. ASSUME NEW j \in Opens, ClosePrevious(j)
        PROVE  SessionsHeld'
    BY <1>14, Typed, ClosePreviousShape DEF SessionsHeld, JobsFollowed, ServiceEmptied
  <1>15. ASSUME NEW j \in Opens, ForgetPrevious(j)
        PROVE  SessionsHeld'
    BY <1>15 DEF SessionsHeld, TypeOK, JobsFollowed, ServiceEmptied, ForgetPrevious, Step,
                 Unchanged
  <1>16. ASSUME NEW j \in Opens, Adopt(j)
        PROVE  SessionsHeld'
    BY <1>16 DEF SessionsHeld, TypeOK, JobsFollowed, ServiceEmptied, Adopt, Step, Unchanged
  <1>17. ASSUME NEW j \in Opens, Finish(j)
        PROVE  SessionsHeld'
    BY <1>17 DEF SessionsHeld, TypeOK, JobsFollowed, ServiceEmptied, Finish, Step, Unchanged
  <1>18. ASSUME NEW j \in Opens, UploadFails(j)
        PROVE  SessionsHeld'
    BY <1>18 DEF SessionsHeld, TypeOK, JobsFollowed, ServiceEmptied, UploadFails, Concerns,
                 Goto, background
  <1>19. ASSUME NEW j \in Opens, UploadCompletes(j)
        PROVE  SessionsHeld'
    BY <1>19, Typed, UploadCompletesShape DEF SessionsHeld, JobsFollowed, ServiceEmptied
  <1>20. ASSUME NEW j \in Opens, NEW m \in Models, PickPath(j, m)
        PROVE  SessionsHeld'
    BY <1>20, Typed, PickPathShape DEF SessionsHeld, JobsFollowed, ServiceEmptied
  <1>21. ASSUME NEW j \in Opens, NEW m \in Models, PickUpload(j, m)
        PROVE  SessionsHeld'
    BY <1>21, Typed, PickUploadShape DEF SessionsHeld, JobsFollowed, ServiceEmptied
  <1>22. ASSUME NEW j \in Opens, UploadIgnored(j)
        PROVE  SessionsHeld'
    BY <1>22 DEF SessionsHeld, TypeOK, JobsFollowed, ServiceEmptied, UploadIgnored, Concerns,
                 background
  <1>23. ASSUME CancelOpen
        PROVE  SessionsHeld'
    BY <1>23 DEF SessionsHeld, TypeOK, JobsFollowed, ServiceEmptied, CancelOpen, Opening,
                 background
  <1>24. ASSUME CloseClicked
        PROVE  SessionsHeld'
    <2>1. shell.shown \in Opens
      BY <1>24, Typed DEF CloseClicked
    <2>2. ui'.at = "closing" /\ ui'.session \in Opens
      BY <1>24, <2>1 DEF CloseClicked
    <2> QED
      BY <1>24, <2>2 DEF SessionsHeld, CloseClicked
  <1>25. ASSUME Disconnect
        PROVE  SessionsHeld'
    BY <1>25, Typed, DisconnectShape DEF SessionsHeld, JobsFollowed, ServiceEmptied
  <1>26. ASSUME CloseShown
        PROVE  SessionsHeld'
    BY <1>26, Typed, CloseShownShape DEF SessionsHeld, JobsFollowed, ServiceEmptied
  <1>27. ASSUME ForgetShown
        PROVE  SessionsHeld'
    BY <1>27 DEF SessionsHeld, TypeOK, JobsFollowed, ServiceEmptied, ForgetShown
  <1>28. ASSUME ClearShell
        PROVE  SessionsHeld'
    BY <1>28 DEF SessionsHeld, TypeOK, JobsFollowed, ServiceEmptied, ClearShell
  <1>29. ASSUME CollectSessions
        PROVE  SessionsHeld'
    BY <1>29 DEF SessionsHeld, TypeOK, JobsFollowed, ServiceEmptied, CollectSessions
  <1>30. ASSUME CloseCollected
        PROVE  SessionsHeld'
    BY <1>30, Typed, CloseCollectedShape DEF SessionsHeld, JobsFollowed, ServiceEmptied
  <1>31. ASSUME SaveAndReturn
        PROVE  SessionsHeld'
    BY <1>31 DEF SessionsHeld, TypeOK, JobsFollowed, ServiceEmptied, SaveAndReturn
  <1> QED
    BY <1>1, <1>2, <1>3, <1>4, <1>5, <1>6, <1>7, <1>8, <1>9, <1>10, <1>11, <1>12, <1>13, <1>14,
       <1>15, <1>16, <1>17, <1>18, <1>19, <1>20, <1>21, <1>22, <1>23, <1>24, <1>25, <1>26,
       <1>27, <1>28, <1>29, <1>30, <1>31
       DEF Next, Worker, Waiter, Uploading, CloseModel, Closing, Handler, Over, vars,
           EndWarming, OpenClicked, Dismissed, background

\* No session is registered once close() has collected them.
LEMMA ServiceEmptiedKept ==
  ASSUME TypeOK, SessionsHeld, ServiceEmptied, [Next]_vars
  PROVE  ServiceEmptied'
  <1> USE OpeningAssumption DEF Active, Running, Ended, Followed, Held
  <1>1. CASE UNCHANGED <<service, registry, job>>
    BY <1>1 DEF ServiceEmptied
  <1>2. ASSUME NEW j \in Opens, Pick(j)
        PROVE  ServiceEmptied'
    BY <1>2 DEF ServiceEmptied, TypeOK, SessionsHeld, Pick, Checkpoint, Goto, background
  <1>3. ASSUME NEW j \in Opens, Import(j)
        PROVE  ServiceEmptied'
    BY <1>3 DEF ServiceEmptied, TypeOK, SessionsHeld, Import, Checkpoint, Goto, background
  <1>4. ASSUME NEW j \in Opens, RecordOpen(j)
        PROVE  ServiceEmptied'
    BY <1>4 DEF ServiceEmptied, TypeOK, SessionsHeld, RecordOpen, Goto
  <1>5. ASSUME NEW j \in Opens, SaveRecent(j)
        PROVE  ServiceEmptied'
    BY <1>5 DEF ServiceEmptied, TypeOK, SessionsHeld, SaveRecent, Checkpoint, Goto
  <1>6. ASSUME NEW j \in Opens, Detect(j)
        PROVE  ServiceEmptied'
    BY <1>6 DEF ServiceEmptied, TypeOK, SessionsHeld, Detect, Checkpoint, Goto, background
  <1>7. ASSUME NEW j \in Opens, BuildSession(j)
        PROVE  ServiceEmptied'
    BY <1>7 DEF ServiceEmptied, TypeOK, SessionsHeld, BuildSession, Goto, background
  <1>8. ASSUME NEW j \in Opens, PrepareScene(j)
        PROVE  ServiceEmptied'
    BY <1>8 DEF ServiceEmptied, TypeOK, SessionsHeld, PrepareScene, Goto, background
  <1>9. ASSUME NEW j \in Opens, Register(j)
        PROVE  ServiceEmptied'
    BY <1>9 DEF ServiceEmptied, TypeOK, SessionsHeld, Register, Goto, background
  <1>10. ASSUME NEW j \in Opens, Return(j)
        PROVE  ServiceEmptied'
    BY <1>10 DEF ServiceEmptied, TypeOK, SessionsHeld, Return, Goto, background
  <1>11. ASSUME NEW j \in Opens, Fail(j)
        PROVE  ServiceEmptied'
    BY <1>11 DEF ServiceEmptied, TypeOK, SessionsHeld, Fail, Goto, background
  <1>12. ASSUME NEW j \in Opens, ForgetPrevious(j)
        PROVE  ServiceEmptied'
    BY <1>12 DEF ServiceEmptied, TypeOK, SessionsHeld, ForgetPrevious, Step, Unchanged
  <1>13. ASSUME NEW j \in Opens, UploadFails(j)
        PROVE  ServiceEmptied'
    BY <1>13 DEF ServiceEmptied, TypeOK, SessionsHeld, UploadFails, Concerns, Goto, background
  <1>14. ASSUME NEW j \in Opens, UploadCompletes(j)
        PROVE  ServiceEmptied'
    <2>1. service.at = "up"
      BY <1>14 DEF UploadCompletes, Listening
    <2> QED
      BY <1>14, <2>1, UploadCompletesShape DEF ServiceEmptied
  <1>15. ASSUME NEW j \in Opens, NEW m \in Models, PickPath(j, m)
        PROVE  ServiceEmptied'
    BY <1>15 DEF ServiceEmptied, TypeOK, SessionsHeld, PickPath, Listening, Unused, AtRest,
                 Begin
  <1>16. ASSUME NEW j \in Opens, NEW m \in Models, PickUpload(j, m)
        PROVE  ServiceEmptied'
    BY <1>16 DEF ServiceEmptied, TypeOK, SessionsHeld, PickUpload, Listening, Unused, AtRest
  <1>17. ASSUME NEW j \in Opens, UploadIgnored(j)
        PROVE  ServiceEmptied'
    BY <1>17 DEF ServiceEmptied, TypeOK, SessionsHeld, UploadIgnored, Concerns, background
  <1>18. ASSUME CancelOpen
        PROVE  ServiceEmptied'
    BY <1>18 DEF ServiceEmptied, TypeOK, SessionsHeld, CancelOpen, Opening, background
  <1>19. ASSUME Disconnect
        PROVE  ServiceEmptied'
    BY <1>19 DEF ServiceEmptied, TypeOK, SessionsHeld, Disconnect, Listening
  <1>20. ASSUME ForgetShown
        PROVE  ServiceEmptied'
    BY <1>20 DEF ServiceEmptied, TypeOK, SessionsHeld, ForgetShown
  <1>21. ASSUME CollectSessions
        PROVE  ServiceEmptied'
    BY <1>21 DEF ServiceEmptied, TypeOK, SessionsHeld, CollectSessions
  <1>22. ASSUME CloseCollected
        PROVE  ServiceEmptied'
    BY <1>22 DEF ServiceEmptied, TypeOK, SessionsHeld, CloseCollected
  <1>23. ASSUME SaveAndReturn
        PROVE  ServiceEmptied'
    BY <1>23 DEF ServiceEmptied, TypeOK, SessionsHeld, SaveAndReturn
  <1> QED
    BY <1>1, <1>2, <1>3, <1>4, <1>5, <1>6, <1>7, <1>8, <1>9, <1>10, <1>11, <1>12, <1>13, <1>14,
       <1>15, <1>16, <1>17, <1>18, <1>19, <1>20, <1>21, <1>22, <1>23
       DEF Next, Worker, Waiter, Uploading, CloseModel, Closing, Handler, Over, vars,
           EndWarming, Wake, ReadPrevious, ClosePrevious, Adopt, Finish, OpenClicked, Dismissed,
           CloseClicked, CloseShown, ClearShell, Listening, Step, Unchanged, background

\* No step starts an open beside another without crossing them.
LEMMA OneAtATimeKept ==
  ASSUME TypeOK, JobsFollowed, OneAtATime, [Next]_vars
  PROVE  OneAtATime'
  <1> USE OpeningAssumption DEF Busy, Active, Running, Ended, Presenting, Followed, Held
  <1>1. CASE UNCHANGED <<crossed, job, waiter, shell, ui>>
    BY <1>1 DEF OneAtATime
  <1>2. ASSUME NEW j \in Opens, Pick(j)
        PROVE  OneAtATime'
    BY <1>2 DEF OneAtATime, TypeOK, JobsFollowed, Pick, Checkpoint, Goto, background
  <1>3. ASSUME NEW j \in Opens, Import(j)
        PROVE  OneAtATime'
    BY <1>3 DEF OneAtATime, TypeOK, JobsFollowed, Import, Checkpoint, Goto, background
  <1>4. ASSUME NEW j \in Opens, RecordOpen(j)
        PROVE  OneAtATime'
    BY <1>4 DEF OneAtATime, TypeOK, JobsFollowed, RecordOpen, Goto
  <1>5. ASSUME NEW j \in Opens, SaveRecent(j)
        PROVE  OneAtATime'
    BY <1>5 DEF OneAtATime, TypeOK, JobsFollowed, SaveRecent, Checkpoint, Goto
  <1>6. ASSUME NEW j \in Opens, Detect(j)
        PROVE  OneAtATime'
    BY <1>6 DEF OneAtATime, TypeOK, JobsFollowed, Detect, Checkpoint, Goto, background
  <1>7. ASSUME NEW j \in Opens, BuildSession(j)
        PROVE  OneAtATime'
    BY <1>7 DEF OneAtATime, TypeOK, JobsFollowed, BuildSession, Goto, background
  <1>8. ASSUME NEW j \in Opens, PrepareScene(j)
        PROVE  OneAtATime'
    BY <1>8, Typed, PrepareSceneShape DEF OneAtATime, JobsFollowed
  <1>9. ASSUME NEW j \in Opens, Register(j)
        PROVE  OneAtATime'
    BY <1>9 DEF OneAtATime, TypeOK, JobsFollowed, Register, Goto, background
  <1>10. ASSUME NEW j \in Opens, Return(j)
        PROVE  OneAtATime'
    BY <1>10 DEF OneAtATime, TypeOK, JobsFollowed, Return, Goto, background
  <1>11. ASSUME NEW j \in Opens, Fail(j)
        PROVE  OneAtATime'
    BY <1>11 DEF OneAtATime, TypeOK, JobsFollowed, Fail, Goto, background
  <1>12. ASSUME NEW j \in Opens, Wake(j)
        PROVE  OneAtATime'
    BY <1>12 DEF OneAtATime, TypeOK, JobsFollowed, Wake, Step, Unchanged
  <1>13. ASSUME NEW j \in Opens, ReadPrevious(j)
        PROVE  OneAtATime'
    BY <1>13, Typed, ReadPreviousShape DEF OneAtATime, JobsFollowed
  <1>14. ASSUME NEW j \in Opens, ClosePrevious(j)
        PROVE  OneAtATime'
    BY <1>14 DEF OneAtATime, TypeOK, JobsFollowed, ClosePrevious, Step, Unchanged
  <1>15. ASSUME NEW j \in Opens, ForgetPrevious(j)
        PROVE  OneAtATime'
    BY <1>15 DEF OneAtATime, TypeOK, JobsFollowed, ForgetPrevious, Step, Unchanged
  <1>16. ASSUME NEW j \in Opens, Adopt(j)
        PROVE  OneAtATime'
    BY <1>16 DEF OneAtATime, TypeOK, JobsFollowed, Adopt, Step, Unchanged
  <1>17. ASSUME NEW j \in Opens, Finish(j)
        PROVE  OneAtATime'
    BY <1>17 DEF OneAtATime, TypeOK, JobsFollowed, Finish, Step, Unchanged
  <1>18. ASSUME NEW j \in Opens, UploadFails(j)
        PROVE  OneAtATime'
    BY <1>18 DEF OneAtATime, TypeOK, JobsFollowed, UploadFails, Concerns, Goto, background
  <1>19. ASSUME NEW j \in Opens, UploadCompletes(j)
        PROVE  OneAtATime'
    BY <1>19, Typed, UploadCompletesShape DEF OneAtATime, JobsFollowed
  <1>20. ASSUME OpenClicked
        PROVE  OneAtATime'
    BY <1>20 DEF OneAtATime, TypeOK, JobsFollowed, OpenClicked, background
  <1>21. ASSUME Dismissed
        PROVE  OneAtATime'
    BY <1>21 DEF OneAtATime, TypeOK, JobsFollowed, Dismissed, background
  <1>22. ASSUME NEW j \in Opens, NEW m \in Models, PickPath(j, m)
        PROVE  OneAtATime'
    BY <1>22, Typed, PickPathShape DEF OneAtATime, JobsFollowed, AtRest, Opening
  <1>23. ASSUME NEW j \in Opens, NEW m \in Models, PickUpload(j, m)
        PROVE  OneAtATime'
    BY <1>23, Typed, PickUploadShape DEF OneAtATime, JobsFollowed, AtRest, Opening
  <1>24. ASSUME NEW j \in Opens, UploadIgnored(j)
        PROVE  OneAtATime'
    BY <1>24 DEF OneAtATime, TypeOK, JobsFollowed, UploadIgnored, Concerns, background
  <1>25. ASSUME CancelOpen
        PROVE  OneAtATime'
    BY <1>25 DEF OneAtATime, TypeOK, JobsFollowed, CancelOpen, Opening, background
  <1>26. ASSUME CloseClicked
        PROVE  OneAtATime'
    BY <1>26 DEF OneAtATime, TypeOK, JobsFollowed, CloseClicked, Listening
  <1>27. ASSUME Disconnect
        PROVE  OneAtATime'
    BY <1>27 DEF OneAtATime, TypeOK, JobsFollowed, Disconnect, Listening
  <1>28. ASSUME CloseShown
        PROVE  OneAtATime'
    BY <1>28, Typed, CloseShownShape DEF OneAtATime, JobsFollowed
  <1>29. ASSUME ForgetShown
        PROVE  OneAtATime'
    BY <1>29 DEF OneAtATime, TypeOK, JobsFollowed, ForgetShown
  <1>30. ASSUME ClearShell
        PROVE  OneAtATime'
    BY <1>30 DEF OneAtATime, TypeOK, JobsFollowed, ClearShell
  <1> QED
    BY <1>1, <1>2, <1>3, <1>4, <1>5, <1>6, <1>7, <1>8, <1>9, <1>10, <1>11, <1>12, <1>13, <1>14,
       <1>15, <1>16, <1>17, <1>18, <1>19, <1>20, <1>21, <1>22, <1>23, <1>24, <1>25, <1>26,
       <1>27, <1>28, <1>29, <1>30
       DEF Next, Worker, Waiter, Uploading, CloseModel, Closing, Handler, Over, vars,
           EndWarming, CollectSessions, CloseCollected, SaveAndReturn, background

\* Every step leaves open only what is shown or about to be.
LEMMA ReplacedKept ==
  ASSUME TypeOK, JobsFollowed, SessionsHeld, ServiceEmptied, OneAtATime, Replaced, [Next]_vars
  PROVE  Replaced'
  <1> USE OpeningAssumption DEF Busy, Active, Running, Ended, Presenting, Followed, Held
  <1>1. CASE UNCHANGED <<crossed, service, waiter, shell, registry, session, job>>
    BY <1>1 DEF Replaced
  <1>2. ASSUME NEW j \in Opens, Pick(j)
        PROVE  Replaced'
    BY <1>2 DEF Replaced, TypeOK, JobsFollowed, SessionsHeld, ServiceEmptied, OneAtATime, Pick,
                Checkpoint, Goto, background
  <1>3. ASSUME NEW j \in Opens, Import(j)
        PROVE  Replaced'
    BY <1>3 DEF Replaced, TypeOK, JobsFollowed, SessionsHeld, ServiceEmptied, OneAtATime,
                Import, Checkpoint, Goto, background
  <1>4. ASSUME NEW j \in Opens, RecordOpen(j)
        PROVE  Replaced'
    BY <1>4 DEF Replaced, TypeOK, JobsFollowed, SessionsHeld, ServiceEmptied, OneAtATime,
                RecordOpen, Goto
  <1>5. ASSUME NEW j \in Opens, SaveRecent(j)
        PROVE  Replaced'
    BY <1>5 DEF Replaced, TypeOK, JobsFollowed, SessionsHeld, ServiceEmptied, OneAtATime,
                SaveRecent, Checkpoint, Goto
  <1>6. ASSUME NEW j \in Opens, Detect(j)
        PROVE  Replaced'
    BY <1>6 DEF Replaced, TypeOK, JobsFollowed, SessionsHeld, ServiceEmptied, OneAtATime,
                Detect, Checkpoint, Goto, background
  <1>7. ASSUME NEW j \in Opens, BuildSession(j)
        PROVE  Replaced'
    BY <1>7 DEF Replaced, TypeOK, JobsFollowed, SessionsHeld, ServiceEmptied, OneAtATime,
                BuildSession, Goto, background
  <1>8. ASSUME NEW j \in Opens, PrepareScene(j)
        PROVE  Replaced'
    BY <1>8, Typed, PrepareSceneShape DEF Replaced, JobsFollowed, SessionsHeld, ServiceEmptied, OneAtATime
  <1>9. ASSUME NEW j \in Opens, Register(j)
        PROVE  Replaced'
    BY <1>9 DEF Replaced, TypeOK, JobsFollowed, SessionsHeld, ServiceEmptied, OneAtATime,
                Register, Goto, background
  <1>10. ASSUME NEW j \in Opens, Return(j)
        PROVE  Replaced'
    BY <1>10 DEF Replaced, TypeOK, JobsFollowed, SessionsHeld, ServiceEmptied, OneAtATime,
                 Return, Goto, background
  <1>11. ASSUME NEW j \in Opens, Fail(j)
        PROVE  Replaced'
    BY <1>11 DEF Replaced, TypeOK, JobsFollowed, SessionsHeld, ServiceEmptied, OneAtATime, Fail,
                 Goto, background
  <1>12. ASSUME NEW j \in Opens, Wake(j)
        PROVE  Replaced'
    BY <1>12 DEF Replaced, TypeOK, JobsFollowed, SessionsHeld, ServiceEmptied, OneAtATime, Wake,
                 Step, Unchanged
  <1>13. ASSUME NEW j \in Opens, ReadPrevious(j)
        PROVE  Replaced'
    BY <1>13, Typed, ReadPreviousShape DEF Replaced, JobsFollowed, SessionsHeld, ServiceEmptied, OneAtATime
  <1>14. ASSUME NEW j \in Opens, ClosePrevious(j)
        PROVE  Replaced'
    BY <1>14, Typed, ClosePreviousShape DEF Replaced, JobsFollowed, SessionsHeld, ServiceEmptied, OneAtATime
  <1>15. ASSUME NEW j \in Opens, ForgetPrevious(j)
        PROVE  Replaced'
    BY <1>15 DEF Replaced, TypeOK, JobsFollowed, SessionsHeld, ServiceEmptied, OneAtATime,
                 ForgetPrevious, Step, Unchanged
  <1>16. ASSUME NEW j \in Opens, Adopt(j)
        PROVE  Replaced'
    BY <1>16 DEF Replaced, TypeOK, JobsFollowed, SessionsHeld, ServiceEmptied, OneAtATime,
                 Adopt, Step, Unchanged
  <1>17. ASSUME NEW j \in Opens, Finish(j)
        PROVE  Replaced'
    BY <1>17 DEF Replaced, TypeOK, JobsFollowed, SessionsHeld, ServiceEmptied, OneAtATime,
                 Finish, Step, Unchanged
  <1>18. ASSUME NEW j \in Opens, UploadFails(j)
        PROVE  Replaced'
    BY <1>18 DEF Replaced, TypeOK, JobsFollowed, SessionsHeld, ServiceEmptied, OneAtATime,
                 UploadFails, Concerns, Goto, background
  <1>19. ASSUME NEW j \in Opens, UploadCompletes(j)
        PROVE  Replaced'
    BY <1>19, Typed, UploadCompletesShape DEF Replaced, JobsFollowed, SessionsHeld, ServiceEmptied, OneAtATime
  <1>20. ASSUME OpenClicked
        PROVE  Replaced'
    BY <1>20 DEF Replaced, TypeOK, JobsFollowed, SessionsHeld, ServiceEmptied, OneAtATime,
                 OpenClicked, background
  <1>21. ASSUME Dismissed
        PROVE  Replaced'
    BY <1>21 DEF Replaced, TypeOK, JobsFollowed, SessionsHeld, ServiceEmptied, OneAtATime,
                 Dismissed, background
  <1>22. ASSUME NEW j \in Opens, NEW m \in Models, PickPath(j, m)
        PROVE  Replaced'
    BY <1>22, Typed, PickPathShape DEF Replaced, JobsFollowed, SessionsHeld, ServiceEmptied, OneAtATime
  <1>23. ASSUME NEW j \in Opens, NEW m \in Models, PickUpload(j, m)
        PROVE  Replaced'
    BY <1>23 DEF Replaced, TypeOK, JobsFollowed, SessionsHeld, ServiceEmptied, OneAtATime,
                 PickUpload, Listening, Unused, AtRest
  <1>24. ASSUME NEW j \in Opens, UploadIgnored(j)
        PROVE  Replaced'
    BY <1>24 DEF Replaced, TypeOK, JobsFollowed, SessionsHeld, ServiceEmptied, OneAtATime,
                 UploadIgnored, Concerns, background
  <1>25. ASSUME CancelOpen
        PROVE  Replaced'
    BY <1>25 DEF Replaced, TypeOK, JobsFollowed, SessionsHeld, ServiceEmptied, OneAtATime,
                 CancelOpen, Opening, background
  <1>26. ASSUME Disconnect
        PROVE  Replaced'
    BY <1>26, Typed, DisconnectShape DEF Replaced, JobsFollowed, SessionsHeld, ServiceEmptied, OneAtATime
  <1>27. ASSUME CloseShown
        PROVE  Replaced'
    BY <1>27, Typed, CloseShownShape DEF Replaced, JobsFollowed, SessionsHeld, ServiceEmptied, OneAtATime
  <1>28. ASSUME ForgetShown
        PROVE  Replaced'
    BY <1>28 DEF Replaced, TypeOK, JobsFollowed, SessionsHeld, ServiceEmptied, OneAtATime,
                 ForgetShown
  <1>29. ASSUME ClearShell
        PROVE  Replaced'
    BY <1>29 DEF Replaced, TypeOK, JobsFollowed, SessionsHeld, ServiceEmptied, OneAtATime,
                 ClearShell
  <1>30. ASSUME CollectSessions
        PROVE  Replaced'
    BY <1>30 DEF Replaced, TypeOK, JobsFollowed, SessionsHeld, ServiceEmptied, OneAtATime,
                 CollectSessions
  <1>31. ASSUME CloseCollected
        PROVE  Replaced'
    BY <1>31 DEF Replaced, TypeOK, JobsFollowed, SessionsHeld, ServiceEmptied, OneAtATime,
                 CloseCollected
  <1>32. ASSUME SaveAndReturn
        PROVE  Replaced'
    BY <1>32 DEF Replaced, TypeOK, JobsFollowed, SessionsHeld, ServiceEmptied, OneAtATime,
                 SaveAndReturn
  <1> QED
    BY <1>1, <1>2, <1>3, <1>4, <1>5, <1>6, <1>7, <1>8, <1>9, <1>10, <1>11, <1>12, <1>13, <1>14,
       <1>15, <1>16, <1>17, <1>18, <1>19, <1>20, <1>21, <1>22, <1>23, <1>24, <1>25, <1>26,
       <1>27, <1>28, <1>29, <1>30, <1>31, <1>32
       DEF Next, Worker, Waiter, Uploading, CloseModel, Closing, Handler, Over, vars,
           EndWarming, CloseClicked, Listening, background

\* Every step keeps the file of recent models in order.
LEMMA RecordedInOrderKept ==
  ASSUME TypeOK, JobsFollowed, RecordedInOrder, [Next]_vars
  PROVE  RecordedInOrder'
  <1> USE OpeningAssumption DEF Active, Running, Ended, Followed, Held
  <1>1. CASE UNCHANGED <<recent, job>>
    BY <1>1 DEF RecordedInOrder
  <1>2. ASSUME NEW j \in Opens, Pick(j)
        PROVE  RecordedInOrder'
    BY <1>2 DEF RecordedInOrder, TypeOK, JobsFollowed, Pick, Checkpoint, Goto, background
  <1>3. ASSUME NEW j \in Opens, Import(j)
        PROVE  RecordedInOrder'
    BY <1>3 DEF RecordedInOrder, TypeOK, JobsFollowed, Import, Checkpoint, Goto, background
  <1>4. ASSUME NEW j \in Opens, RecordOpen(j)
        PROVE  RecordedInOrder'
    <2> DEFINE U == Updated(job[j].model)
    <2>1. /\ U \in Seq(Models) /\ Len(U) \in 1..MaxRecent /\ U[1] = job[j].model /\ OnceEach(U)
          /\ recent'.memory = U /\ recent'.last = job[j].model
          /\ recent'.payload = [recent.payload EXCEPT ![j] = U]
          /\ job[j].model \in Models
      BY <1>4, RecordOpenShape
    <2>2. /\ Len(recent.memory) <= MaxRecent /\ Len(U) >= Len(recent.memory)
          /\ \A i \in DOMAIN recent.memory :
               (\E k \in DOMAIN U : U[k] = recent.memory[i]) \/ Len(U) = MaxRecent
          /\ recent.memory \in Seq(Models)
      BY <1>4, RecordOpenShape
    <2>3. /\ \A i \in Opens : job[i].at # "saving"
          /\ \A i \in Opens : job'[i].at = IF i = j THEN "saving" ELSE job[i].at
          /\ \A i \in Opens : job'[i].model = job[i].model
      <3>1. job' = [job EXCEPT ![j].at = "saving"] /\ \A i \in Opens : job[i].at # "saving"
        BY <1>4 DEF RecordOpen, Goto
      <3>2. job \in [Opens -> OpenJob]
        BY DEF TypeOK
      <3> QED
        BY <3>1, <3>2 DEF OpenJob
    <2>4. recent.payload \in [Opens -> Seq(Models)]
      BY DEF TypeOK, Recents
    <2> HIDE DEF U
    <2>5. \A i, k \in DOMAIN U : U[i] = U[k] => i = k
      BY <2>1 DEF OnceEach
    <2>6. U # <<>>
      BY <2>1
    <2>7. \A i \in Opens : job'[i].at = "saving" => recent'.payload[i] = U
      <3>1. ASSUME NEW i \in Opens, job'[i].at = "saving"
            PROVE  i = j
        BY <2>3, <3>1
      <3> QED
        BY <2>1, <2>4, <3>1
    <2>8. ASSUME NEW i \in Opens,
                 job'[i].at \in {"saving", "detecting", "building", "preparing", "registering",
                                 "returning", "succeeded"}
          PROVE  (\E k \in DOMAIN U : U[k] = job'[i].model) \/ Len(U) = MaxRecent
      <3>1. CASE i = j
        <4>1. 1 \in DOMAIN U
          BY <2>1
        <4>2. job'[j].model = job[j].model
          BY <2>3
        <4> QED
          BY <2>1, <3>1, <4>1, <4>2
      <3>2. CASE i # j
        <4>0. job[i].at \in {"saving", "detecting", "building", "preparing", "registering",
                              "returning", "succeeded"} /\ job'[i].model = job[i].model
          BY <2>3, <2>8, <3>2
        <4>1. \/ \E k \in DOMAIN recent.memory : recent.memory[k] = job[i].model
              \/ Len(recent.memory) = MaxRecent
          BY <4>0 DEF RecordedInOrder
        <4>2. Len(recent.memory) = MaxRecent => Len(U) = MaxRecent
          BY <2>1, <2>2
        <4> QED
          BY <2>2, <4>0, <4>1, <4>2
      <3> QED
        BY <3>1, <3>2
    <2> QED
      BY <2>1, <2>3, <2>5, <2>6, <2>7, <2>8 DEF RecordedInOrder
  <1>5. ASSUME NEW j \in Opens, SaveRecent(j)
        PROVE  RecordedInOrder'
    BY <1>5 DEF RecordedInOrder, TypeOK, JobsFollowed, SaveRecent, Checkpoint, Goto
  <1>6. ASSUME NEW j \in Opens, Detect(j)
        PROVE  RecordedInOrder'
    BY <1>6 DEF RecordedInOrder, TypeOK, JobsFollowed, Detect, Checkpoint, Goto, background
  <1>7. ASSUME NEW j \in Opens, BuildSession(j)
        PROVE  RecordedInOrder'
    BY <1>7 DEF RecordedInOrder, TypeOK, JobsFollowed, BuildSession, Goto, background
  <1>8. ASSUME NEW j \in Opens, PrepareScene(j)
        PROVE  RecordedInOrder'
    BY <1>8, Typed, PrepareSceneShape DEF RecordedInOrder, JobsFollowed
  <1>9. ASSUME NEW j \in Opens, Register(j)
        PROVE  RecordedInOrder'
    BY <1>9 DEF RecordedInOrder, TypeOK, JobsFollowed, Register, Goto, background
  <1>10. ASSUME NEW j \in Opens, Return(j)
        PROVE  RecordedInOrder'
    BY <1>10 DEF RecordedInOrder, TypeOK, JobsFollowed, Return, Goto, background
  <1>11. ASSUME NEW j \in Opens, Fail(j)
        PROVE  RecordedInOrder'
    BY <1>11 DEF RecordedInOrder, TypeOK, JobsFollowed, Fail, Goto, background
  <1>12. ASSUME NEW j \in Opens, UploadFails(j)
        PROVE  RecordedInOrder'
    BY <1>12 DEF RecordedInOrder, TypeOK, JobsFollowed, UploadFails, Concerns, Goto, background
  <1>13. ASSUME NEW j \in Opens, UploadCompletes(j)
        PROVE  RecordedInOrder'
    BY <1>13, Typed, UploadCompletesShape DEF RecordedInOrder, JobsFollowed
  <1>14. ASSUME NEW j \in Opens, NEW m \in Models, PickPath(j, m)
        PROVE  RecordedInOrder'
    BY <1>14, Typed, PickPathShape DEF RecordedInOrder, JobsFollowed
  <1>15. ASSUME NEW j \in Opens, NEW m \in Models, PickUpload(j, m)
        PROVE  RecordedInOrder'
    BY <1>15 DEF RecordedInOrder, TypeOK, JobsFollowed, PickUpload, Listening, Unused, AtRest
  <1>16. ASSUME NEW j \in Opens, UploadIgnored(j)
        PROVE  RecordedInOrder'
    BY <1>16 DEF RecordedInOrder, TypeOK, JobsFollowed, UploadIgnored, Concerns, background
  <1>17. ASSUME CancelOpen
        PROVE  RecordedInOrder'
    BY <1>17 DEF RecordedInOrder, TypeOK, JobsFollowed, CancelOpen, Opening, background
  <1>18. ASSUME Disconnect
        PROVE  RecordedInOrder'
    BY <1>18 DEF RecordedInOrder, TypeOK, JobsFollowed, Disconnect, Listening
  <1>19. ASSUME SaveAndReturn
        PROVE  RecordedInOrder'
    BY <1>19 DEF RecordedInOrder, TypeOK, JobsFollowed, SaveAndReturn
  <1> QED
    BY <1>1, <1>2, <1>3, <1>4, <1>5, <1>6, <1>7, <1>8, <1>9, <1>10, <1>11, <1>12, <1>13, <1>14,
       <1>15, <1>16, <1>17, <1>18, <1>19
       DEF Next, Worker, Waiter, Uploading, CloseModel, Closing, Handler, Over, vars,
           EndWarming, Wake, ReadPrevious, ClosePrevious, ForgetPrevious, Adopt, Finish,
           OpenClicked, Dismissed, CloseClicked, CloseShown, ForgetShown, ClearShell,
           CollectSessions, CloseCollected, Listening, Step, Unchanged, background

\* A service that starts satisfies the invariant.
LEMMA InvInit ==
  ASSUME Init
  PROVE  Inv
  <1> USE OpeningAssumption
  <1>1. \A j \in Opens : /\ job[j] = [at |-> "unused", model |-> None, cancelled |-> FALSE, whole |-> TRUE]
                         /\ session[j] = "none" /\ waiter[j] = [at |-> "idle", previous |-> None]
    BY DEF Init
  <1>2. TypeOK
    <2>1. <<>> \in Seq(Models) /\ Len(<<>>) = 0
      OBVIOUS
    <2>2. recent \in Recents /\ Len(recent.memory) <= MaxRecent /\ Len(recent.file) <= MaxRecent
      BY <2>1 DEF Init, Recents
    <2>3. job \in [Opens -> OpenJob]
      BY DEF Init, OpenJob
    <2>4. shell \in Shell
      BY DEF Init, Shell
    <2>5. waiter \in [Opens -> Presenter] /\ ui \in EventLoop /\ service \in Service
      BY DEF Init, Presenter, EventLoop, Service
    <2> QED
      BY <2>2, <2>3, <2>4, <2>5 DEF Init, TypeOK
  <1>3. JobsFollowed
    BY <1>1 DEF Init, JobsFollowed, Followed, Active, Running, Ended, Presenting
  <1>4. SessionsHeld
    BY <1>1 DEF Init, SessionsHeld, Held
  <1>5. ServiceEmptied
    BY DEF Init, ServiceEmptied
  <1>6. OneAtATime
    BY <1>1 DEF Init, OneAtATime, Busy, Active, Running
  <1>7. Replaced
    BY <1>1 DEF Init, Replaced
  <1>8. RecordedInOrder
    BY <1>1 DEF Init, RecordedInOrder
  <1> QED
    BY <1>2, <1>3, <1>4, <1>5, <1>6, <1>7, <1>8 DEF Inv

\* The invariant holds in every reachable state.
LEMMA Invariance == Spec => []Inv
  <1>1. Init => Inv
    BY InvInit
  <1>2. Inv /\ [Next]_vars => Inv'
    BY TypeOKKept, JobsFollowedKept, SessionsHeldKept, ServiceEmptiedKept, OneAtATimeKept,
       ReplacedKept, RecordedInOrderKept DEF Inv
  <1> QED
    BY <1>1, <1>2, PTL DEF Spec

\* However opens, cancellations, failures, replacements and closes of models interleave,
\* every session is shown or closed at rest (if no open was started beside another), and
\* ApplicationService.close() leaves none open: for any number of opens, models and dialogs.
THEOREM SessionsAreAccounted == Spec => []SessionsAccounted
  <1>1. ASSUME Inv
        PROVE  NothingLeaks
    <2> SUFFICES ASSUME Settled, ~crossed, NEW j \in Opens, session[j] = "open"
                 PROVE  shell.shown = j
      BY DEF NothingLeaks
    <2>1. ~Active(j) /\ waiter[j].at \in {"idle", "ended"}
      BY DEF Settled, AtRest
    <2>2. job[j].at \notin {"preparing", "registering", "returning"}
      BY <2>1 DEF Active, Running
    <2>3. waiter[j].at # "waiting" /\ ~Presenting(j)
      BY <2>1 DEF Presenting
    <2> QED
      BY <1>1, <2>2, <2>3 DEF Inv, Replaced, Settled
  <1>2. ASSUME Inv
        PROVE  DownIsDown
    <2> SUFFICES ASSUME service.at = "down", NEW j \in Opens
                 PROVE  session[j] # "open" /\ ~Active(j)
      BY DEF DownIsDown
    <2>1. registry = {} /\ service.closing = {} /\ ~Active(j)
      BY <1>2 DEF Inv, ServiceEmptied
    <2>2. job[j].at \notin {"preparing", "registering"}
      BY <2>1 DEF Active, Running
    <2> QED
      BY <1>2, <2>1, <2>2 DEF Inv, SessionsHeld, Held
  <1>3. Inv => SessionsAccounted
    BY <1>1, <1>2 DEF Inv, SessionsAccounted
  <1> QED
    BY <1>3, Invariance, PTL

\* No record of a recent model is lost to another open, the last one is the first of the
\* file when nobody is saving, and an upload that is opened is complete.
THEOREM OpensAreSound == Spec => []OpensSound
  <1>1. ASSUME Inv
        PROVE  LastRecordedFirst
    <2> SUFFICES ASSUME \A j \in Opens : job[j].at \notin {"saving", "failed"}, recent.last # None
                 PROVE  /\ recent.file = recent.memory
                        /\ Head(recent.file) = recent.last
                        /\ \A j \in Opens :
                             job[j].at \in {"detecting", "building", "preparing", "registering", "succeeded"} =>
                               \/ \E i \in DOMAIN recent.file : recent.file[i] = job[j].model
                               \/ Len(recent.file) = MaxRecent
      BY DEF LastRecordedFirst
    <2>1. recent.file = recent.memory /\ recent.memory # <<>> /\ recent.memory[1] = recent.last
      BY <1>1 DEF Inv, RecordedInOrder
    <2>2. Head(recent.memory) = recent.memory[1]
      BY <1>1, <2>1 DEF Inv, TypeOK, Recents
    <2> QED
      BY <1>1, <2>1, <2>2 DEF Inv, RecordedInOrder
  <1>2. ASSUME Inv
        PROVE  OpenedWhole
    BY <1>2 DEF Inv, OneAtATime, OpenedWhole, Active
  <1>3. Inv => OpensSound
    BY <1>1, <1>2 DEF OpensSound
  <1> QED
    BY <1>3, Invariance, PTL
=============================================================================
