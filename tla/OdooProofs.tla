----------------------------- MODULE OdooProofs -----------------------------
(***************************************************************************)
(* Proofs about the Odoo scans: the sessions of OdooScan, for any number   *)
(* of start and retry calls, sources, crashes and raising statements, and  *)
(* the paging of one source in OdooScanSource, for every page size, sample *)
(* size, table and number of retries.                                      *)
(***************************************************************************)
EXTENDS OdooScan, OdooScanSource, WellFoundedInduction, FiniteSetTheorems, TLAPS

USE ScanAssumption

-----------------------------------------------------------------------------
(* Snapshots.                                                              *)

\* A snapshot that says completed has no source left.
Whole(scan) ==
    scan.state = "completed" =>
        \A k \in Sources : scan.sources[k] \in {"completed", "unmapped"}

Scan(scan) == scan \in Snapshots /\ Whole(scan)

\* The absence of a session is no session.
LEMMA NoSnapshotIsNone ==
    NoSnapshot \notin Snapshots /\ NoSnapshot.state = "none" /\ Whole(NoSnapshot)
BY DEF NoSnapshot, Snapshots, States, Whole

\* A session is its state and its sources.
LEMMA SnapshotFields ==
    ASSUME NEW scan \in Snapshots
    PROVE  /\ scan.state \in States /\ scan.state # "none"
           /\ scan.sources \in [Sources -> Statuses]
           /\ scan = [state |-> scan.state, sources |-> scan.sources]
BY DEF Snapshots, States

\* POST /scan starts with every source pending.
LEMMA NewScan ==
    /\ Scan(InitFullSession) /\ InitFullSession.state = "pending"
    /\ \A k \in Sources : InitFullSession.sources[k] = "pending"
<1>1. InitFullSession \in Snapshots
  BY DEF InitFullSession, Snapshots, States, Statuses
<1>2. /\ InitFullSession.state = "pending"
      /\ \A k \in Sources : InitFullSession.sources[k] = "pending"
  BY DEF InitFullSession
<1>3. QED
  BY <1>1, <1>2 DEF Scan, Whole

\* A retry queues what it selects again and leaves completed sources alone.
LEMMA RequeuedScan ==
    ASSUME NEW scan \in Snapshots, NEW mode \in Modes
    PROVE  LET keys == SelectRetryKeys(scan, mode)
               again == Requeue(scan, keys)
           IN  /\ keys \in SUBSET Sources /\ Scan(again) /\ again.state = "running"
               /\ \A k \in keys : again.sources[k] = "pending"
               /\ \A k \in Sources :
                    scan.sources[k] = "completed" => again.sources[k] = "completed"
<1> DEFINE keys == SelectRetryKeys(scan, mode)
           again == Requeue(scan, keys)
<1>1. /\ keys \in SUBSET Sources
      /\ \A k \in Sources : scan.sources[k] = "completed" => k \notin keys
  BY DEF SelectRetryKeys, Unfinished
<1> HIDE DEF keys
<1>2. again.state = "running"
      /\ again.sources = [k \in Sources |-> IF k \in keys THEN "pending" ELSE scan.sources[k]]
  BY DEF Requeue
<1>3. again \in Snapshots
  <2>1. again.sources \in [Sources -> Statuses]
    BY <1>2, SnapshotFields DEF Statuses
  <2>2. QED
    BY <1>2, <2>1 DEF Requeue, Snapshots, States
<1>4. Scan(again)
  BY <1>2, <1>3 DEF Scan, Whole
<1>5. QED
  BY <1>1, <1>2, <1>4 DEF keys

\* _overall_state says completed only of a session that is.
LEMMA OverallIsWhole ==
    ASSUME NEW scan \in Snapshots
    PROVE  LET ended == [scan EXCEPT !.state = OverallState(scan.sources)]
           IN  Scan(ended) /\ ended.sources = scan.sources
<1> DEFINE considered == {scan.sources[k] : k \in Sources} \ {"unmapped"}
           overall == OverallState(scan.sources)
           ended == [scan EXCEPT !.state = overall]
<1>1. overall \in States
           /\ (overall = "completed" => considered \subseteq {"completed"})
  BY DEF OverallState, States
<1> HIDE DEF overall
<1>2. ended = [state |-> overall, sources |-> scan.sources]
  BY SnapshotFields
<1>3. ended \in Snapshots
  BY <1>1, <1>2, SnapshotFields DEF Snapshots
<1>4. Whole(ended)
  BY <1>1, <1>2 DEF Whole
<1>5. QED
  BY <1>2, <1>3, <1>4 DEF Scan, overall

\* Marking a session running touches no source.
LEMMA RunningScan ==
    ASSUME NEW scan \in Snapshots
    PROVE  LET begun == [scan EXCEPT !.state = "running"]
           IN  Scan(begun) /\ begun.state = "running" /\ begun.sources = scan.sources
<1> DEFINE begun == [scan EXCEPT !.state = "running"]
<1>1. begun = [state |-> "running", sources |-> scan.sources]
  BY SnapshotFields
<1>2. begun \in Snapshots /\ Whole(begun)
  BY <1>1, SnapshotFields DEF Snapshots, States, Whole
<1>3. QED
  BY <1>1, <1>2 DEF Scan

\* Storing a source's result touches no other source.
LEMMA ScanWithSource ==
    ASSUME NEW scan \in Snapshots, scan.state \in Unfinished,
           NEW k \in Sources, NEW status \in Statuses
    PROVE  LET next == [scan EXCEPT !.sources[k] = status]
           IN  /\ Scan(next) /\ next.state = scan.state
               /\ next.sources = [scan.sources EXCEPT ![k] = status]
<1> DEFINE next == [scan EXCEPT !.sources[k] = status]
<1>1. next = [state |-> scan.state, sources |-> [scan.sources EXCEPT ![k] = status]]
  BY SnapshotFields
<1>2. next \in Snapshots /\ Whole(next)
  BY <1>1, SnapshotFields DEF Snapshots, Whole, Unfinished
<1>3. QED
  BY <1>1, <1>2 DEF Scan

-----------------------------------------------------------------------------
(* The invariant.                                                          *)

\* A call that has no object yet.
Early(c) == pc[c] \in {"idle", "start_event", "load"}

\* A call, and then its task, that may still change the object it works on.
Busy(c) ==
    \/ pc[c] \in {"create", "retry_event"}
    \/ task[c] \in {"begin", "save_start", "save_running", "scan", "save_result"}

AllWhole ==
    /\ \A s \in Starts : Whole(row[s])
    /\ \A c \in Calls : Whole(object[c]) /\ Whole(saving[c])

\* Where a call and its task are, and what they know by then.
Staged ==
    \A c \in Calls :
        /\ pc[c] # "done" => task[c] = "none"
        /\ Early(c) => object[c] = NoSnapshot
        /\ pc[c] = "start_event" => c \in Starts
        /\ pc[c] = "create" => c \in Starts /\ on[c] = c
        /\ pc[c] # "idle" => session[c] \in Starts
        /\ pc[c] = "load" => row[session[c]] # NoSnapshot
        /\ pc[c] = "create" => \A k \in Sources : object[c].sources[k] = "pending"
        /\ task[c] \notin {"none", "begin", "scan", "over"} => saving[c] \in Snapshots
        /\ task[c] \in {"save_running", "scan"} => todo[c] # {}

\* The object of a busy call is unfinished, and what is to be scanned in it
\* is not completed.
Works(c) ==
    /\ on[c] \in Calls /\ object[on[c]] \in Snapshots
    /\ object[on[c]].state \in Unfinished
    /\ \A k \in todo[c] : object[on[c]].sources[k] # "completed"

Owned == \A c \in Calls : Busy(c) => Works(c)

\* No two busy calls work on one object.
Apart == \A c, d \in Calls : Busy(c) /\ Busy(d) /\ c # d => on[c] # on[d]

Known == \A s \in Starts : active[s] # None => object[active[s]] \in Snapshots

ScanInv == ScanTypeOK /\ AllWhole /\ Staged /\ Owned /\ Apart /\ Known

\* Without sessions the invariant holds.
LEMMA InitScan == Init => ScanInv
<1> SUFFICES ASSUME Init PROVE ScanInv
  OBVIOUS
<1> USE DEF Init
<1>1. ScanTypeOK
  BY DEF ScanTypeOK, CallSteps, TaskSteps
<1>2. AllWhole
  BY NoSnapshotIsNone DEF AllWhole
<1>3. Staged
  BY DEF Staged, Early
<1>4. \A c \in Calls : ~Busy(c)
  BY DEF Busy
<1>5. Owned /\ Apart /\ Known
  BY <1>4 DEF Owned, Apart, Known
<1>6. QED
  BY <1>1, <1>2, <1>3, <1>5 DEF ScanInv

\* A restart keeps it.
LEMMA CrashKeeps ==
    ASSUME ScanInv, Crash
    PROVE  ScanInv'
<1>1. ScanTypeOK'
  BY DEF ScanInv, Crash, ScanTypeOK, CallSteps, TaskSteps
<1>2. AllWhole'
  BY NoSnapshotIsNone DEF ScanInv, Crash, AllWhole
<1>3. \A c \in Calls : pc'[c] \in {"idle", "done"} /\ task'[c] = "none"
  BY DEF Crash
<1>4. Staged'
  <2> SUFFICES ASSUME NEW c \in Calls
               PROVE  /\ Early(c)' => object'[c] = NoSnapshot
                      /\ pc'[c] # "idle" => session'[c] \in Starts
    BY <1>3 DEF Staged
  <2>1. object'[c] = NoSnapshot
    BY DEF Crash
  <2>2. pc'[c] # "idle" => pc[c] # "idle"
    BY DEF Crash
  <2>3. QED
    BY <2>1, <2>2 DEF ScanInv, Staged, Crash
<1>5. \A c \in Calls : ~Busy(c)'
  BY <1>3 DEF Busy
<1>6. Known'
  BY DEF Crash, Known
<1>7. QED
  BY <1>1, <1>2, <1>4, <1>5, <1>6 DEF ScanInv, Owned, Apart

-----------------------------------------------------------------------------
(* Calls.                                                                  *)

\* POST /scan up to its audit event.
LEMMA StartKeeps ==
    ASSUME ScanInv, NEW c \in Calls, Start(c)
    PROVE  ScanInv'
<1>1. /\ c \in Starts /\ pc[c] = "idle"
      /\ session' = [session EXCEPT ![c] = c]
      /\ pc' = [pc EXCEPT ![c] = "start_event"]
      /\ UNCHANGED <<row, active, object, on, task, todo, saving, crashes>>
  BY DEF Start, Goto
<1>2. ScanTypeOK'
  BY <1>1 DEF ScanInv, ScanTypeOK, CallSteps
<1>3. AllWhole'
  BY <1>1 DEF ScanInv, AllWhole
<1>4. \A d \in Calls : /\ pc'[d] = IF d = c THEN "start_event" ELSE pc[d]
                       /\ session'[d] = IF d = c THEN c ELSE session[d]
  BY <1>1 DEF ScanInv, ScanTypeOK
<1>5. Staged'
  BY <1>1, <1>4 DEF ScanInv, Staged, Early
<1>6. \A d \in Calls : Busy(d)' => Busy(d)
  BY <1>1, <1>4 DEF Busy
<1>7. Owned' /\ Apart' /\ Known'
  BY <1>1, <1>6 DEF ScanInv, Owned, Works, Apart, Known
<1>8. QED
  BY <1>2, <1>3, <1>5, <1>7 DEF ScanInv

\* A call that ends without a task.
LEMMA EndKeeps ==
    ASSUME ScanInv, NEW c \in Calls, pc' = [pc EXCEPT ![c] = "done"], task[c] = "none",
           UNCHANGED <<active, object, on, task, todo, saving, crashes>>,
           session'[c] \in Starts, session' \in [Calls -> Starts \cup {None}],
           \A d \in Calls : d # c => session'[d] = session[d],
           row' \in [Starts -> Snapshots \cup {NoSnapshot}],
           \A s \in Starts : Whole(row'[s]) /\ (row'[s] = NoSnapshot => row[s] = NoSnapshot)
    PROVE  ScanInv'
<1>1. \A d \in Calls : pc'[d] = IF d = c THEN "done" ELSE pc[d]
  BY DEF ScanInv, ScanTypeOK
<1>2. ScanTypeOK'
  BY DEF ScanInv, ScanTypeOK, CallSteps
<1>3. AllWhole'
  BY DEF ScanInv, AllWhole
<1>4. Staged'
  BY <1>1 DEF ScanInv, Staged, Early
<1>5. \A d \in Calls : Busy(d)' => Busy(d)
  BY <1>1 DEF Busy
<1>6. Owned' /\ Apart' /\ Known'
  BY <1>5 DEF ScanInv, Owned, Works, Apart, Known
<1>7. QED
  BY <1>2, <1>3, <1>4, <1>6 DEF ScanInv

\* No call is busy with a finished object, or with that of a call that has none.
LEMMA NobodyBusyWith ==
    ASSUME ScanInv, NEW o \in Calls, object[o].state \notin Unfinished
    PROVE  \A d \in Calls : Busy(d) => on[d] # o
BY DEF ScanInv, Owned, Works

\* A retry sets the chosen sources of an object back and owns it from then on.
LEMMA PrepareKeeps ==
    ASSUME ScanInv, NEW c \in Calls, Early(c), NEW o \in Calls, NEW scan \in Snapshots,
           o = c \/ (object[o] = scan /\ scan.state \notin Unfinished),
           Prepare(c, o, scan), session'[c] \in Starts,
           session' \in [Calls -> Starts \cup {None}],
           \A d \in Calls : d # c => session'[d] = session[d],
           UNCHANGED <<row, active, task, saving, crashes>>
    PROVE  /\ ScanInv'
           /\ \A d \in Calls, k \in Sources :
                object[d].state # "none" /\ object[d].sources[k] = "completed" =>
                    object'[d].sources[k] = "completed"
<1>1. task[c] = "none" /\ object[c] = NoSnapshot
  BY DEF ScanInv, Staged, Early
<1>2. PICK mode \in Modes :
        LET keys == SelectRetryKeys(scan, mode) IN
        IF keys = {}
        THEN Goto(c, "done") /\ UNCHANGED <<object, on, todo>>
        ELSE /\ object' = [object EXCEPT ![o] = Requeue(scan, keys)]
             /\ on' = [on EXCEPT ![c] = o]
             /\ todo' = [todo EXCEPT ![c] = keys]
             /\ Goto(c, "retry_event")
  BY DEF Prepare
<1> DEFINE keys == SelectRetryKeys(scan, mode)
           again == Requeue(scan, keys)
<1>3. /\ keys \in SUBSET Sources /\ Scan(again) /\ again.state = "running"
      /\ \A k \in keys : again.sources[k] = "pending"
      /\ \A k \in Sources : scan.sources[k] = "completed" => again.sources[k] = "completed"
  BY RequeuedScan
<1> HIDE DEF keys, again
<1>4. CASE keys = {}
  <2>1. pc' = [pc EXCEPT ![c] = "done"] /\ UNCHANGED <<object, on, todo>>
    BY <1>2, <1>4 DEF keys, Goto
  <2>2. /\ row' \in [Starts -> Snapshots \cup {NoSnapshot}]
        /\ \A s \in Starts : Whole(row'[s]) /\ (row'[s] = NoSnapshot => row[s] = NoSnapshot)
    BY DEF ScanInv, ScanTypeOK, AllWhole
  <2>3. ScanInv'
    BY <1>1, <2>1, <2>2, EndKeeps
  <2>4. QED
    BY <2>1, <2>3
<1>5. CASE keys # {}
  <2>1. /\ object' = [object EXCEPT ![o] = again]
        /\ on' = [on EXCEPT ![c] = o]
        /\ todo' = [todo EXCEPT ![c] = keys]
        /\ pc' = [pc EXCEPT ![c] = "retry_event"]
    BY <1>2, <1>5 DEF keys, again, Goto
  <2>2. object[o].state \notin Unfinished
    BY <1>1, NoSnapshotIsNone DEF Unfinished
  <2>3. \A d \in Calls : Busy(d) => on[d] # o
    BY <2>2, NobodyBusyWith
  <2>4. \A d \in Calls : /\ pc'[d] = IF d = c THEN "retry_event" ELSE pc[d]
                         /\ on'[d] = IF d = c THEN o ELSE on[d]
                         /\ todo'[d] = IF d = c THEN keys ELSE todo[d]
                         /\ object'[d] = IF d = o THEN again ELSE object[d]
                         /\ task'[d] = task[d] /\ saving'[d] = saving[d]
    BY <2>1 DEF ScanInv, ScanTypeOK
  <2>5. again \in Snapshots /\ Whole(again)
    BY <1>3 DEF Scan
  <2>6. ScanTypeOK'
    BY <1>3, <2>1, <2>5 DEF ScanInv, ScanTypeOK, CallSteps
  <2>7. AllWhole'
    BY <2>4, <2>5 DEF ScanInv, AllWhole
  <2>8. o # c => ~Early(o)
    BY NoSnapshotIsNone DEF ScanInv, Staged
  <2>9. pc[o] # "create"
    BY <2>3 DEF ScanInv, Staged, Busy
  <2>10. Staged'
    <3> SUFFICES ASSUME NEW d \in Calls
                 PROVE  /\ pc'[d] # "done" => task'[d] = "none"
                        /\ Early(d)' => object'[d] = NoSnapshot
                        /\ pc'[d] = "start_event" => d \in Starts
                        /\ pc'[d] = "create" => d \in Starts /\ on'[d] = d
                        /\ pc'[d] # "idle" => session'[d] \in Starts
                        /\ pc'[d] = "load" => row'[session'[d]] # NoSnapshot
                        /\ pc'[d] = "create" => \A k \in Sources : object'[d].sources[k] = "pending"
                        /\ task'[d] \notin {"none", "begin", "scan", "over"} => saving'[d] \in Snapshots
                        /\ task'[d] \in {"save_running", "scan"} => todo'[d] # {}
      BY DEF Staged
    <3>1. CASE d = c
      BY <1>1, <2>4, <3>1 DEF Early
    <3>2. CASE d # c
      BY <2>4, <2>8, <2>9, <3>2 DEF ScanInv, Staged, Early
    <3>3. QED
      BY <3>1, <3>2
  <2>11. \A d \in Calls : d # c /\ Busy(d)' => Busy(d)
    BY <2>4 DEF Busy
  <2>12. Owned'
    <3> SUFFICES ASSUME NEW d \in Calls, Busy(d)' PROVE Works(d)'
      BY DEF Owned
    <3>1. CASE d = c
      BY <1>3, <2>4, <2>5, <3>1 DEF Works, Unfinished
    <3>2. CASE d # c
      <4>1. Busy(d) /\ on[d] # o /\ Works(d)
        BY <2>3, <2>11, <3>2 DEF ScanInv, Owned
      <4>2. QED
        BY <2>4, <3>2, <4>1 DEF Works
    <3>3. QED
      BY <3>1, <3>2
  <2>13. Apart'
    BY <2>3, <2>4, <2>11 DEF ScanInv, Apart
  <2>14. Known'
    BY <2>4, <2>5 DEF ScanInv, Known, ScanTypeOK
  <2>15. ASSUME NEW d \in Calls, NEW k \in Sources,
                object[d].state # "none", object[d].sources[k] = "completed"
         PROVE  object'[d].sources[k] = "completed"
    <3>1. CASE d = o
      <4>1. object[o] = scan
        BY <1>1, <2>15, <3>1, NoSnapshotIsNone
      <4>2. QED
        BY <1>3, <2>4, <2>15, <3>1, <4>1
    <3>2. CASE d # o
      BY <2>4, <2>15, <3>2
    <3>3. QED
      BY <3>1, <3>2
  <2>16. QED
    BY <2>6, <2>7, <2>10, <2>12, <2>13, <2>14, <2>15 DEF ScanInv
<1>6. QED
  BY <1>4, <1>5

\* What is completed in an object stays so in this step.
Kept ==
    \A c \in Calls, k \in Sources :
        object[c].state # "none" /\ object[c].sources[k] = "completed" =>
            \/ crashes' # crashes
            \/ object'[c].sources[k] = "completed"

\* ... with the audit event stored.
LEMMA StartAuditedKeeps ==
    ASSUME ScanInv, NEW c \in Calls, StartAudited(c)
    PROVE  ScanInv' /\ Kept
<1>1. /\ pc[c] = "start_event" /\ c \in Starts /\ task[c] = "none"
      /\ object[c] = NoSnapshot /\ session[c] \in Starts
  BY DEF StartAudited, ScanInv, Staged, Early
<1>2. UNCHANGED <<row, active, session, task, todo, saving, crashes>>
  BY DEF StartAudited
<1>3. CASE /\ object' = [object EXCEPT ![c] = InitFullSession]
           /\ on' = [on EXCEPT ![c] = c]
           /\ Goto(c, "create")
  <2>1. \A d \in Calls : /\ pc'[d] = IF d = c THEN "create" ELSE pc[d]
                         /\ on'[d] = IF d = c THEN c ELSE on[d]
                         /\ object'[d] = IF d = c THEN InitFullSession ELSE object[d]
    BY <1>3 DEF ScanInv, ScanTypeOK, Goto
  <2>2. object[c].state \notin Unfinished
    BY <1>1, NoSnapshotIsNone DEF Unfinished
  <2>3. \A d \in Calls : Busy(d) => on[d] # c
    BY <2>2, NobodyBusyWith
  <2>4. /\ InitFullSession \in Snapshots /\ Whole(InitFullSession)
        /\ InitFullSession.state \in Unfinished
        /\ \A k \in Sources : InitFullSession.sources[k] = "pending"
    BY NewScan DEF Scan, Unfinished
  <2>5. ScanTypeOK'
    BY <1>2, <1>3, <2>4 DEF ScanInv, ScanTypeOK, CallSteps, Goto
  <2>6. AllWhole'
    BY <1>2, <2>1, <2>4 DEF ScanInv, AllWhole
  <2>7. Staged'
    <3> SUFFICES ASSUME NEW d \in Calls
                 PROVE  /\ pc'[d] # "done" => task'[d] = "none"
                        /\ Early(d)' => object'[d] = NoSnapshot
                        /\ pc'[d] = "start_event" => d \in Starts
                        /\ pc'[d] = "create" => d \in Starts /\ on'[d] = d
                        /\ pc'[d] # "idle" => session'[d] \in Starts
                        /\ pc'[d] = "load" => row'[session'[d]] # NoSnapshot
                        /\ pc'[d] = "create" => \A k \in Sources : object'[d].sources[k] = "pending"
                        /\ task'[d] \notin {"none", "begin", "scan", "over"} => saving'[d] \in Snapshots
                        /\ task'[d] \in {"save_running", "scan"} => todo'[d] # {}
      BY DEF Staged
    <3>1. CASE d = c
      BY <1>1, <1>2, <2>1, <2>4, <3>1 DEF Early
    <3>2. CASE d # c
      BY <1>2, <2>1, <3>2 DEF ScanInv, Staged, Early
    <3>3. QED
      BY <3>1, <3>2
  <2>8. \A d \in Calls : d # c /\ Busy(d)' => Busy(d)
    BY <1>2, <2>1 DEF Busy
  <2>9. todo \in [Calls -> SUBSET Sources]
    BY DEF ScanInv, ScanTypeOK
  <2>10. Owned'
    <3> SUFFICES ASSUME NEW d \in Calls, Busy(d)' PROVE Works(d)'
      BY DEF Owned
    <3>1. CASE d = c
      BY <1>2, <2>1, <2>4, <2>9, <3>1 DEF Works
    <3>2. CASE d # c
      <4>1. on[d] # c /\ Works(d)
        BY <2>3, <2>8, <3>2 DEF ScanInv, Owned
      <4>2. QED
        BY <1>2, <2>1, <3>2, <4>1 DEF Works
    <3>3. QED
      BY <3>1, <3>2
  <2>11. Apart'
    BY <2>1, <2>3, <2>8 DEF ScanInv, Apart
  <2>12. Known'
    BY <1>2, <2>1, <2>4 DEF ScanInv, Known, ScanTypeOK
  <2>13. Kept
    BY <1>1, <2>1, NoSnapshotIsNone DEF Kept
  <2>14. QED
    BY <2>5, <2>6, <2>7, <2>10, <2>11, <2>12, <2>13 DEF ScanInv
<1>4. CASE Goto(c, "done") /\ UNCHANGED <<object, on>>
  <2>1. /\ row' \in [Starts -> Snapshots \cup {NoSnapshot}]
        /\ session' \in [Calls -> Starts \cup {None}]
        /\ \A s \in Starts : Whole(row'[s]) /\ (row'[s] = NoSnapshot => row[s] = NoSnapshot)
    BY <1>2 DEF ScanInv, ScanTypeOK, AllWhole
  <2>2. ScanInv'
    BY <1>1, <1>2, <1>4, <2>1, EndKeeps DEF Goto
  <2>3. QED
    BY <1>4, <2>2 DEF Kept
<1>5. QED
  BY <1>3, <1>4 DEF StartAudited

\* The call ends with a task of its own, which owns the object in its place.
LEMMA LaunchKeeps ==
    ASSUME ScanInv, NEW c \in Calls, pc[c] \in {"create", "retry_event"},
           NEW keys \in SUBSET Sources, Launch(c, keys),
           \A k \in keys : object[on[c]].sources[k] # "completed",
           UNCHANGED <<object, session, on, saving, crashes>>,
           row' \in [Starts -> Snapshots \cup {NoSnapshot}],
           \A s \in Starts : Whole(row'[s]) /\ (row'[s] = NoSnapshot => row[s] = NoSnapshot)
    PROVE  ScanInv'
<1>1. Busy(c) /\ Works(c) /\ task[c] = "none" /\ session[c] \in Starts
  BY DEF ScanInv, Staged, Owned, Busy
<1>2. /\ active' = [active EXCEPT ![session[c]] = on[c]]
      /\ task' = [task EXCEPT ![c] = "begin"]
      /\ todo' = [todo EXCEPT ![c] = keys]
      /\ pc' = [pc EXCEPT ![c] = "done"]
  BY DEF Launch, Goto
<1>3. \A d \in Calls : /\ pc'[d] = IF d = c THEN "done" ELSE pc[d]
                       /\ task'[d] = IF d = c THEN "begin" ELSE task[d]
                       /\ todo'[d] = IF d = c THEN keys ELSE todo[d]
  BY <1>2 DEF ScanInv, ScanTypeOK
<1>4. ScanTypeOK'
  BY <1>1, <1>2 DEF ScanInv, ScanTypeOK, CallSteps, TaskSteps, Works
<1>5. AllWhole'
  BY DEF ScanInv, AllWhole
<1>6. Staged'
  BY <1>1, <1>3 DEF ScanInv, Staged, Early
<1>7. \A d \in Calls : Busy(d)' => Busy(d)
  BY <1>1, <1>3 DEF Busy
<1>8. Owned'
  BY <1>1, <1>3, <1>7 DEF ScanInv, Owned, Works
<1>9. Apart'
  BY <1>7 DEF ScanInv, Apart
<1>10. Known'
  BY <1>1, <1>2 DEF ScanInv, Known, Works, ScanTypeOK
<1>11. QED
  BY <1>4, <1>5, <1>6, <1>8, <1>9, <1>10 DEF ScanInv

\* ... with the session stored and the task launched.
LEMMA StartSavedKeeps ==
    ASSUME ScanInv, NEW c \in Calls, StartSaved(c)
    PROVE  ScanInv' /\ Kept
<1>1. /\ pc[c] = "create" /\ c \in Starts /\ on[c] = c /\ task[c] = "none"
      /\ session[c] \in Starts
      /\ \A k \in Sources : object[c].sources[k] = "pending"
  BY DEF StartSaved, ScanInv, Staged
<1>2. object[c] \in Snapshots /\ Whole(object[c])
  BY <1>1 DEF ScanInv, Owned, Busy, Works, AllWhole
<1>3. UNCHANGED <<object, session, on, saving, crashes>>
  BY DEF StartSaved
<1>4. row' \in {row, [row EXCEPT ![c] = object[c]]}
  BY DEF StartSaved
<1>5. /\ row' \in [Starts -> Snapshots \cup {NoSnapshot}]
      /\ \A s \in Starts : Whole(row'[s]) /\ (row'[s] = NoSnapshot => row[s] = NoSnapshot)
  BY <1>1, <1>2, <1>4, NoSnapshotIsNone DEF ScanInv, ScanTypeOK, AllWhole
<1>6. CASE Launch(c, Sources)
  BY <1>1, <1>3, <1>5, <1>6, LaunchKeeps DEF Kept
<1>7. CASE DontLaunch(c)
  <2>1. session' \in [Calls -> Starts \cup {None}]
    BY <1>3 DEF ScanInv, ScanTypeOK
  <2>2. QED
    BY <1>1, <1>3, <1>5, <1>7, <2>1, EndKeeps DEF DontLaunch, Goto, Kept
<1>8. QED
  BY <1>6, <1>7 DEF StartSaved

\* POST /scan/retry and resume, on what is in memory.
LEMMA RetryKeeps ==
    ASSUME ScanInv, NEW c \in Calls, NEW s \in Starts, Retry(c, s)
    PROVE  ScanInv' /\ Kept
<1>1. /\ c \in Retries /\ pc[c] = "idle" /\ Early(c) /\ task[c] = "none"
      /\ object[c] = NoSnapshot /\ row[s] # NoSnapshot
      /\ session' = [session EXCEPT ![c] = s]
      /\ UNCHANGED <<row, active, task, saving, crashes>>
  BY DEF Retry, ScanInv, Staged, Early
<1>2. /\ session' \in [Calls -> Starts \cup {None}] /\ session'[c] = s
      /\ \A d \in Calls : d # c => session'[d] = session[d]
      /\ row' \in [Starts -> Snapshots \cup {NoSnapshot}]
      /\ \A t \in Starts : Whole(row'[t]) /\ (row'[t] = NoSnapshot => row[t] = NoSnapshot)
  BY <1>1 DEF ScanInv, ScanTypeOK, AllWhole
<1>3. CASE Goto(c, "done") /\ UNCHANGED <<object, on, todo>>
  BY <1>1, <1>2, <1>3, EndKeeps DEF Goto, Kept
<1>4. CASE active[s] # None /\ ~IsRunning(active[s]) /\ Prepare(c, active[s], object[active[s]])
  <2>1. active[s] \in Calls /\ object[active[s]] \in Snapshots
    BY <1>4 DEF ScanInv, Known, ScanTypeOK
  <2>2. object[active[s]].state \notin Unfinished
    BY <1>4 DEF IsRunning
  <2>3. QED
    BY <1>1, <1>2, <1>4, <2>1, <2>2, PrepareKeeps DEF Kept
<1>5. CASE Goto(c, "load") /\ UNCHANGED <<object, on, todo>>
  <2>1. \A d \in Calls : /\ pc'[d] = IF d = c THEN "load" ELSE pc[d]
                         /\ session'[d] = IF d = c THEN s ELSE session[d]
    BY <1>1, <1>5 DEF ScanInv, ScanTypeOK, Goto
  <2>2. ScanTypeOK'
    BY <1>1, <1>2, <1>5 DEF ScanInv, ScanTypeOK, CallSteps, Goto
  <2>3. AllWhole'
    BY <1>1, <1>5 DEF ScanInv, AllWhole
  <2>4. Staged'
    BY <1>1, <1>5, <2>1 DEF ScanInv, Staged, Early
  <2>5. \A d \in Calls : Busy(d)' => Busy(d)
    BY <1>1, <2>1 DEF Busy
  <2>6. Owned' /\ Apart' /\ Known'
    BY <1>1, <1>5, <2>5 DEF ScanInv, Owned, Works, Apart, Known
  <2>7. QED
    BY <1>5, <2>2, <2>3, <2>4, <2>6 DEF ScanInv, Kept
<1>6. QED
  BY <1>3, <1>4, <1>5 DEF Retry

\* ... with the session read from its row.
LEMMA RetryLoadedKeeps ==
    ASSUME ScanInv, NEW c \in Calls, RetryLoaded(c)
    PROVE  ScanInv' /\ Kept
<1>1. /\ pc[c] = "load" /\ Early(c) /\ task[c] = "none"
      /\ session[c] \in Starts /\ row[session[c]] # NoSnapshot
      /\ UNCHANGED <<row, active, session, task, saving, crashes>>
  BY DEF RetryLoaded, ScanInv, Staged, Early
<1>2. /\ session' \in [Calls -> Starts \cup {None}] /\ session'[c] \in Starts
      /\ row' \in [Starts -> Snapshots \cup {NoSnapshot}]
      /\ \A t \in Starts : Whole(row'[t]) /\ (row'[t] = NoSnapshot => row[t] = NoSnapshot)
  BY <1>1 DEF ScanInv, ScanTypeOK, AllWhole
<1>3. CASE Goto(c, "done") /\ UNCHANGED <<object, on, todo>>
  BY <1>1, <1>2, <1>3, EndKeeps DEF Goto, Kept
<1>4. CASE Prepare(c, c, row[session[c]])
  <2>1. PICK scan \in Snapshots : Prepare(c, c, scan)
    BY <1>1, <1>4 DEF ScanInv, ScanTypeOK
  <2>2. /\ Early(c) /\ session'[c] \in Starts
        /\ session' \in [Calls -> Starts \cup {None}]
        /\ \A d \in Calls : d # c => session'[d] = session[d]
        /\ UNCHANGED <<row, active, task, saving, crashes>>
    BY <1>1, <1>2
  <2>3. ScanInv'
    BY <2>1, <2>2, PrepareKeeps
  <2>4. \A d \in Calls, k \in Sources :
           object[d].state # "none" /\ object[d].sources[k] = "completed" =>
               object'[d].sources[k] = "completed"
    BY <2>1, <2>2, PrepareKeeps
  <2>5. QED
    BY <2>3, <2>4 DEF Kept
<1>5. QED
  BY <1>3, <1>4 DEF RetryLoaded

\* ... with the audit event stored and the task launched.
LEMMA RetryAuditedKeeps ==
    ASSUME ScanInv, NEW c \in Calls, RetryAudited(c)
    PROVE  ScanInv' /\ Kept
<1>1. /\ pc[c] = "retry_event" /\ task[c] = "none" /\ session[c] \in Starts
      /\ UNCHANGED <<row, object, session, on, saving, crashes>>
  BY DEF RetryAudited, ScanInv, Staged
<1>2. /\ session' \in [Calls -> Starts \cup {None}] /\ session'[c] \in Starts
      /\ row' \in [Starts -> Snapshots \cup {NoSnapshot}]
      /\ \A t \in Starts : Whole(row'[t]) /\ (row'[t] = NoSnapshot => row[t] = NoSnapshot)
  BY <1>1 DEF ScanInv, ScanTypeOK, AllWhole
<1>3. CASE Launch(c, todo[c])
  <2>1. todo[c] \in SUBSET Sources /\ \A k \in todo[c] : object[on[c]].sources[k] # "completed"
    BY <1>1 DEF ScanInv, ScanTypeOK, Owned, Busy, Works
  <2>2. QED
    BY <1>1, <1>2, <1>3, <2>1, LaunchKeeps DEF Kept
<1>4. CASE DontLaunch(c)
  BY <1>1, <1>2, <1>4, EndKeeps DEF DontLaunch, Goto, Kept
<1>5. QED
  BY <1>3, <1>4 DEF RetryAudited

-----------------------------------------------------------------------------
(* Tasks.                                                                  *)

\* A save is applied to the row of the task's session or lost.
RowSaved ==
    /\ row' \in [Starts -> Snapshots \cup {NoSnapshot}]
    /\ \A s \in Starts : Whole(row'[s]) /\ (row'[s] = NoSnapshot => row[s] = NoSnapshot)

\* A task only ever stores a session that may be stored.
LEMMA SavedRow ==
    ASSUME ScanInv, NEW c \in Calls,
           task[c] \notin {"none", "begin", "scan", "over"},
           Saved(c)
    PROVE  RowSaved
<1>1. pc[c] = "done" /\ session[c] \in Starts /\ saving[c] \in Snapshots /\ Whole(saving[c])
  BY DEF ScanInv, Staged, AllWhole
<1>2. CASE row' = [row EXCEPT ![session[c]] = saving[c]]
  BY <1>1, <1>2, NoSnapshotIsNone DEF RowSaved, ScanInv, ScanTypeOK, AllWhole
<1>3. CASE UNCHANGED row
  BY <1>3 DEF RowSaved, ScanInv, ScanTypeOK, AllWhole
<1>4. QED
  BY <1>2, <1>3 DEF Saved

\* An unfinished snapshot of which some sources are still to be scanned.
Open(scan, keys) ==
    /\ scan.state \in Unfinished
    /\ \A k \in keys : scan.sources[k] # "completed"

\* A step of the task of c that puts scan in the place of its object.
LEMMA TaskKeeps ==
    ASSUME ScanInv, NEW c \in Calls, Busy(c), task[c] # "none", RowSaved,
           UNCHANGED taskFrame,
           NEW how \in {"save_start", "save_running", "save_result", "save_final"},
           NEW scan, Scan(scan), SaveAs(c, scan, how),
           NEW keys \in SUBSET Sources, todo' = [todo EXCEPT ![c] = keys],
           how = "save_running" => keys # {},
           how = "save_final" \/ Open(scan, keys)
    PROVE  ScanInv'
<1> DEFINE o == on[c]
<1>1. o \in Calls /\ object[o] \in Snapshots /\ Works(c)
  BY DEF ScanInv, Owned, Works
<1>2. /\ object' = [object EXCEPT ![o] = scan]
      /\ saving' = [saving EXCEPT ![c] = scan]
      /\ task' = [task EXCEPT ![c] = how]
  BY DEF SaveAs
<1>3. UNCHANGED <<active, pc, session, on, crashes>>
  BY DEF taskFrame
<1> HIDE DEF o
<1>4. \A d \in Calls : /\ object'[d] = IF d = o THEN scan ELSE object[d]
                       /\ saving'[d] = IF d = c THEN scan ELSE saving[d]
                       /\ task'[d] = IF d = c THEN how ELSE task[d]
                       /\ todo'[d] = IF d = c THEN keys ELSE todo[d]
  BY <1>1, <1>2 DEF ScanInv, ScanTypeOK
<1>5. scan \in Snapshots /\ Whole(scan)
  BY DEF Scan
<1>6. pc[c] = "done" /\ session[c] \in Starts
  BY DEF ScanInv, Staged
<1>7. \A d \in Calls : d # c /\ Busy(d) => on[d] # o
  BY DEF ScanInv, Apart, o
<1>8. ~Early(o) /\ pc[o] # "create"
  <2>1. ~Early(o)
    BY <1>1, NoSnapshotIsNone DEF ScanInv, Staged
  <2>2. pc[o] = "create" => on[o] = o /\ Busy(o) /\ o # c
    BY <1>1, <1>6 DEF ScanInv, Staged, Busy
  <2>3. QED
    BY <1>1, <1>7, <2>1, <2>2
<1>9. ScanTypeOK'
  BY <1>1, <1>2, <1>3, <1>5 DEF ScanInv, ScanTypeOK, RowSaved, TaskSteps
<1>10. AllWhole'
  BY <1>4, <1>5 DEF ScanInv, AllWhole, RowSaved
<1>11. Staged'
  <2> SUFFICES ASSUME NEW d \in Calls
               PROVE  /\ pc'[d] # "done" => task'[d] = "none"
                      /\ Early(d)' => object'[d] = NoSnapshot
                      /\ pc'[d] = "start_event" => d \in Starts
                      /\ pc'[d] = "create" => d \in Starts /\ on'[d] = d
                      /\ pc'[d] # "idle" => session'[d] \in Starts
                      /\ pc'[d] = "load" => row'[session'[d]] # NoSnapshot
                      /\ pc'[d] = "create" => \A k \in Sources : object'[d].sources[k] = "pending"
                      /\ task'[d] \notin {"none", "begin", "scan", "over"} => saving'[d] \in Snapshots
                      /\ task'[d] \in {"save_running", "scan"} => todo'[d] # {}
    BY DEF Staged
  <2>1. CASE d = c
    BY <1>3, <1>4, <1>5, <1>6, <2>1 DEF Early
  <2>2. CASE d # c
    BY <1>3, <1>4, <1>8, <2>2 DEF ScanInv, Staged, Early, RowSaved
  <2>3. QED
    BY <2>1, <2>2
<1>12. \A d \in Calls : d # c /\ Busy(d)' => Busy(d)
  BY <1>3, <1>4 DEF Busy
<1>13. Owned'
  <2> SUFFICES ASSUME NEW d \in Calls, Busy(d)' PROVE Works(d)'
    BY DEF Owned
  <2>1. CASE d = c
    <3>1. how # "save_final"
      BY <1>3, <1>4, <1>6, <2>1 DEF Busy
    <3>2. QED
      BY <1>1, <1>3, <1>4, <1>5, <2>1, <3>1 DEF Works, Open, o
  <2>2. CASE d # c
    <3>1. on[d] # o /\ Works(d)
      BY <1>7, <1>12, <2>2 DEF ScanInv, Owned
    <3>2. QED
      BY <1>3, <1>4, <2>2, <3>1 DEF Works
  <2>3. QED
    BY <2>1, <2>2
<1>14. Apart'
  BY <1>3, <1>12 DEF ScanInv, Apart
<1>15. Known'
  BY <1>3, <1>4, <1>5 DEF ScanInv, Known, ScanTypeOK
<1>16. QED
  BY <1>9, <1>10, <1>11, <1>13, <1>14, <1>15 DEF ScanInv

\* A step of the task of c that leaves every object alone.
LEMMA TaskMovesOn ==
    ASSUME ScanInv, NEW c \in Calls, RowSaved, UNCHANGED taskFrame,
           UNCHANGED <<object, todo, saving>>,
           task' = [task EXCEPT ![c] = IF task[c] = "save_running" THEN "scan" ELSE "over"],
           task[c] \in {"save_running", "save_final"}
    PROVE  ScanInv' /\ Kept
<1>1. \A d \in Calls : d # c => task'[d] = task[d]
  BY DEF ScanInv, ScanTypeOK
<1>2. task'[c] = IF task[c] = "save_running" THEN "scan" ELSE "over"
  BY DEF ScanInv, ScanTypeOK
<1>3. UNCHANGED <<active, pc, session, on, crashes>>
  BY DEF taskFrame
<1>4. ScanTypeOK'
  BY <1>3 DEF ScanInv, ScanTypeOK, RowSaved, TaskSteps
<1>5. AllWhole'
  BY DEF ScanInv, AllWhole, RowSaved
<1>6. Staged'
  BY <1>1, <1>2, <1>3 DEF ScanInv, Staged, Early, RowSaved
<1>7. \A d \in Calls : Busy(d)' => Busy(d)
  BY <1>1, <1>2, <1>3 DEF Busy
<1>8. Owned' /\ Apart' /\ Known'
  BY <1>3, <1>7 DEF ScanInv, Owned, Works, Apart, Known
<1>9. QED
  BY <1>3, <1>4, <1>5, <1>6, <1>8 DEF ScanInv, Kept

\* A set of naturals has a least one.
LEMMA LeastNatural ==
    ASSUME NEW T, T \subseteq Nat, T # {}
    PROVE  \E x \in T : \A y \in T : x <= y
<1>1. PICK x \in T : \A y \in T : <<y, x>> \notin OpToRel(<, Nat)
  BY WFMin, NatLessThanWellFounded
<1>2. \A y \in T : ~(y < x)
  BY <1>1 DEF OpToRel
<1>3. \A y \in T : x <= y
  BY <1>2
<1>4. QED
  BY <1>3

\* The next source of a task is one it has to scan.
LEMMA NextKeyInTodo ==
    ASSUME ScanInv, NEW c \in Calls, todo[c] # {}
    PROVE  NextKey(c) \in todo[c] /\ NextKey(c) \in Sources
<1>1. todo[c] \in SUBSET Sources
  BY DEF ScanInv, ScanTypeOK
<1>2. todo[c] \subseteq Nat
  BY <1>1 DEF Sources
<1>3. \E k \in todo[c] : \A l \in todo[c] : k <= l
  BY <1>2, LeastNatural
<1>4. QED
  BY <1>1, <1>3 DEF NextKey

\* The object of a busy task, and the steps that leave its sources alone.
LEMMA TaskObject ==
    ASSUME ScanInv, NEW c \in Calls, Busy(c), task[c] # "none"
    PROVE  /\ on[c] \in Calls /\ object[on[c]] \in Snapshots
           /\ object[on[c]].state \in Unfinished /\ todo[c] \in SUBSET Sources
           /\ \A k \in todo[c] : object[on[c]].sources[k] # "completed"
           /\ pc[c] = "done"
           /\ todo = [todo EXCEPT ![c] = todo[c]]
BY DEF ScanInv, Owned, Works, Staged, ScanTypeOK

\* A snapshot with the completed sources still completed takes none back.
LEMMA SameSourcesKept ==
    ASSUME ScanInv, NEW c \in Calls, on[c] \in Calls, NEW scan, NEW how,
           SaveAs(c, scan, how),
           \A k \in Sources : object[on[c]].sources[k] = "completed" =>
                                 scan.sources[k] = "completed"
    PROVE  Kept
<1>1. object' = [object EXCEPT ![on[c]] = scan]
  BY DEF SaveAs
<1>2. \A d \in Calls : object'[d] = IF d = on[c] THEN scan ELSE object[d]
  BY <1>1 DEF ScanInv, ScanTypeOK
<1>3. QED
  BY <1>2 DEF Kept

\* The task stores that it runs.
LEMMA TaskBeginKeeps ==
    ASSUME ScanInv, NEW c \in Calls, TaskBegin(c)
    PROVE  ScanInv' /\ Kept
<1> DEFINE scan == [object[on[c]] EXCEPT !.state = "running"]
<1>1. /\ task[c] = "begin" /\ Busy(c) /\ SaveAs(c, scan, "save_start")
      /\ UNCHANGED <<row, todo>> /\ UNCHANGED taskFrame
  BY DEF TaskBegin, Busy
<1>2. /\ on[c] \in Calls /\ object[on[c]] \in Snapshots
      /\ todo[c] \in SUBSET Sources
      /\ \A k \in todo[c] : object[on[c]].sources[k] # "completed"
      /\ todo' = [todo EXCEPT ![c] = todo[c]]
  BY <1>1, TaskObject
<1>3. Scan(scan) /\ scan.state \in Unfinished /\ scan.sources = object[on[c]].sources
  BY <1>2, RunningScan DEF Unfinished
<1> HIDE DEF scan
<1>4. RowSaved
  BY <1>1 DEF RowSaved, ScanInv, ScanTypeOK, AllWhole
<1>5. Open(scan, todo[c])
  BY <1>2, <1>3 DEF Open
<1>6. ScanInv'
  BY <1>1, <1>2, <1>3, <1>4, <1>5, TaskKeeps
<1>7. Kept
  BY <1>1, <1>2, <1>3, SameSourcesKept
<1>8. QED
  BY <1>6, <1>7

\* The task takes up a source.
LEMMA TaskNextSourceKeeps ==
    ASSUME ScanInv, NEW c \in Calls, TaskNextSource(c)
    PROVE  ScanInv' /\ Kept
<1> DEFINE k == NextKey(c)
           scan == SetSource(c, k, "running")
<1>1. /\ task[c] \in {"save_start", "save_result"} /\ Busy(c) /\ todo[c] # {} /\ Saved(c)
      /\ SaveAs(c, scan, "save_running") /\ UNCHANGED todo /\ UNCHANGED taskFrame
  BY DEF TaskNextSource, Busy
<1>2. /\ on[c] \in Calls /\ object[on[c]] \in Snapshots
      /\ object[on[c]].state \in Unfinished /\ todo[c] \in SUBSET Sources
      /\ \A l \in todo[c] : object[on[c]].sources[l] # "completed"
      /\ todo' = [todo EXCEPT ![c] = todo[c]]
  BY <1>1, TaskObject
<1>3. k \in todo[c] /\ k \in Sources
  BY <1>1, NextKeyInTodo
<1> HIDE DEF k
<1>4. /\ Scan(scan) /\ scan.state = object[on[c]].state
      /\ scan.sources = [object[on[c]].sources EXCEPT ![k] = "running"]
  <2>1. "running" \in Statuses
    BY DEF Statuses
  <2>2. QED
    BY <1>2, <1>3, <2>1, ScanWithSource DEF SetSource
<1> HIDE DEF scan
<1>5. \A l \in Sources : scan.sources[l] = IF l = k THEN "running" ELSE object[on[c]].sources[l]
  BY <1>2, <1>4, SnapshotFields
<1>6. RowSaved
  BY <1>1, SavedRow
<1>7. Open(scan, todo[c])
  BY <1>2, <1>4, <1>5 DEF Open
<1>8. ScanInv'
  BY <1>1, <1>2, <1>4, <1>6, <1>7, TaskKeeps
<1>9. Kept
  BY <1>1, <1>2, <1>3, <1>5, SameSourcesKept
<1>10. QED
  BY <1>8, <1>9

\* The task stores what became of a source.
LEMMA TaskScannedKeeps ==
    ASSUME ScanInv, NEW c \in Calls, TaskScanned(c)
    PROVE  ScanInv' /\ Kept
<1> DEFINE k == NextKey(c)
<1>1. /\ task[c] = "scan" /\ Busy(c) /\ todo[c] # {}
      /\ todo' = [todo EXCEPT ![c] = todo[c] \ {k}]
      /\ UNCHANGED row /\ UNCHANGED taskFrame
  BY DEF TaskScanned, Busy, ScanInv, Staged
<1>2. PICK status \in Results : SaveAs(c, SetSource(c, k, status), "save_result")
  BY DEF TaskScanned
<1> DEFINE scan == SetSource(c, k, status)
<1>3. /\ on[c] \in Calls /\ object[on[c]] \in Snapshots
      /\ object[on[c]].state \in Unfinished /\ todo[c] \in SUBSET Sources
      /\ \A l \in todo[c] : object[on[c]].sources[l] # "completed"
  BY <1>1, TaskObject
<1>4. k \in todo[c] /\ k \in Sources
  BY <1>1, NextKeyInTodo
<1> HIDE DEF k
<1>5. /\ Scan(scan) /\ scan.state = object[on[c]].state
      /\ scan.sources = [object[on[c]].sources EXCEPT ![k] = status]
  BY <1>3, <1>4, ScanWithSource DEF SetSource, Statuses
<1> HIDE DEF scan
<1>6. \A l \in Sources : scan.sources[l] = IF l = k THEN status ELSE object[on[c]].sources[l]
  BY <1>3, <1>5, SnapshotFields
<1>7. RowSaved
  BY <1>1 DEF RowSaved, ScanInv, ScanTypeOK, AllWhole
<1>8. SaveAs(c, scan, "save_result")
  BY <1>2 DEF scan
<1> DEFINE keys == todo[c] \ {k}
<1>9. /\ keys \in SUBSET Sources /\ Open(scan, keys)
      /\ todo' = [todo EXCEPT ![c] = keys]
  BY <1>1, <1>3, <1>5, <1>6 DEF Open
<1> HIDE DEF keys
<1>10. ScanInv'
  <2>1. "save_result" # "save_running" /\ task[c] # "none"
    BY <1>1
  <2>2. QED
    BY <1>1, <1>5, <1>7, <1>8, <1>9, <2>1, TaskKeeps
<1>11. Kept
  BY <1>3, <1>4, <1>6, <1>8, SameSourcesKept
<1>12. QED
  BY <1>10, <1>11

\* The task stores how the session ended.
LEMMA TaskFinishKeeps ==
    ASSUME ScanInv, NEW c \in Calls, TaskFinish(c)
    PROVE  ScanInv' /\ Kept
<1> DEFINE scan == [object[on[c]] EXCEPT !.state = OverallState(object[on[c]].sources)]
<1>1. /\ task[c] \in {"save_start", "save_result"} /\ Busy(c) /\ Saved(c)
      /\ SaveAs(c, scan, "save_final") /\ UNCHANGED todo /\ UNCHANGED taskFrame
  BY DEF TaskFinish, Busy
<1>2. /\ on[c] \in Calls /\ object[on[c]] \in Snapshots
      /\ todo[c] \in SUBSET Sources
      /\ todo' = [todo EXCEPT ![c] = todo[c]]
  BY <1>1, TaskObject
<1>3. Scan(scan) /\ scan.sources = object[on[c]].sources
  BY <1>2, OverallIsWhole
<1> HIDE DEF scan
<1>4. RowSaved
  BY <1>1, SavedRow
<1>5. ScanInv'
  BY <1>1, <1>2, <1>3, <1>4, TaskKeeps
<1>6. Kept
  BY <1>1, <1>2, <1>3, SameSourcesKept
<1>7. QED
  BY <1>5, <1>6

\* Every step keeps the invariant and the completed sources.
LEMMA NextScan ==
    ASSUME ScanInv, Next
    PROVE  ScanInv' /\ Kept
<1>1. ASSUME NEW c \in Calls, Start(c) PROVE ScanInv' /\ Kept
  <2>1. UNCHANGED object
    BY <1>1 DEF Start
  <2>2. QED
    BY <1>1, <2>1, StartKeeps DEF Kept
<1>2. ASSUME NEW c \in Calls, CallStep(c) PROVE ScanInv' /\ Kept
  BY <1>2, StartAuditedKeeps, StartSavedKeeps, RetryLoadedKeeps, RetryAuditedKeeps
     DEF CallStep
<1>3. ASSUME NEW c \in Calls, TaskMarked(c) PROVE ScanInv' /\ Kept
  <2>1. /\ task[c] = "save_running" /\ Saved(c) /\ task' = [task EXCEPT ![c] = "scan"]
        /\ UNCHANGED <<object, todo, saving>> /\ UNCHANGED taskFrame
    BY <1>3 DEF TaskMarked
  <2>2. RowSaved
    BY <2>1, SavedRow
  <2>3. QED
    BY <2>1, <2>2, TaskMovesOn
<1>4. ASSUME NEW c \in Calls, TaskOver(c) PROVE ScanInv' /\ Kept
  <2>1. /\ task[c] = "save_final" /\ Saved(c) /\ task' = [task EXCEPT ![c] = "over"]
        /\ UNCHANGED <<object, todo, saving>> /\ UNCHANGED taskFrame
    BY <1>4 DEF TaskOver
  <2>2. RowSaved
    BY <2>1, SavedRow
  <2>3. QED
    BY <2>1, <2>2, TaskMovesOn
<1>5. ASSUME NEW c \in Calls, TaskStep(c) PROVE ScanInv' /\ Kept
  BY <1>3, <1>4, <1>5, TaskBeginKeeps, TaskNextSourceKeeps, TaskScannedKeeps,
     TaskFinishKeeps DEF TaskStep
<1>6. ASSUME NEW c \in Calls, NEW s \in Starts, Retry(c, s) PROVE ScanInv' /\ Kept
  BY <1>6, RetryKeeps
<1>7. CASE Crash
  <2>1. crashes' # crashes
    BY <1>7 DEF Crash, ScanInv, ScanTypeOK
  <2>2. QED
    BY <1>7, <2>1, CrashKeeps DEF Kept
<1>8. QED
  BY <1>1, <1>2, <1>5, <1>6, <1>7 DEF Next

\* So does doing nothing.
LEMMA StutterKeeps ==
    ASSUME ScanInv, UNCHANGED vars
    PROVE  ScanInv'
BY DEF vars, ScanInv, ScanTypeOK, AllWhole, Staged, Early, Owned, Busy, Works, Apart, Known

\* It holds in every state.
LEMMA ScanInvariant == Spec => []ScanInv
<1>1. ScanInv /\ [Next]_vars => ScanInv'
  BY NextScan, StutterKeeps
<1>2. QED
  BY InitScan, <1>1, PTL DEF Spec

-----------------------------------------------------------------------------
\* Every row, object, await and snapshot of the scan sessions keeps its type
\* (run_scan_session and the endpoints that start it).
THEOREM ScanTypeCorrect == Spec => []ScanTypeOK
<1>1. ScanInv => ScanTypeOK
  BY DEF ScanInv
<1>2. QED
  BY ScanInvariant, <1>1, PTL

\* A stored session that says completed has no source left that failed or was
\* not scanned, for any number of calls, crashes and lost saves
\* (run_scan_session, _overall_state).
THEOREM CompletedSessionsAreWhole == Spec => []CompletedMeansAll
<1>1. ScanInv => CompletedMeansAll
  BY DEF ScanInv, AllWhole, Whole, CompletedMeansAll
<1>2. QED
  BY ScanInvariant, <1>1, PTL

\* No start, retry or task of any number of calls takes a completed source of
\* a live session back (retry_odoo_scan).
THEOREM CompletedSourcesStay == Spec => CompletedStays
<1>1. ASSUME ScanInv, [Next]_vars PROVE [Kept]_vars
  BY <1>1, NextScan
<1>2. [][Kept]_vars <=> CompletedStays
  BY DEF Kept, CompletedStays
<1>3. QED
  BY ScanInvariant, <1>1, <1>2, PTL DEF Spec

-----------------------------------------------------------------------------
(***************************************************************************)
(* The paging of one source.                                               *)
(***************************************************************************)

-----------------------------------------------------------------------------
(* The inductive invariant.                                                *)

Read(upto) == {r \in Nat : r < upto /\ r < rows} \subseteq sampled

\* What the proof needs to know of the types.
Typed ==
    /\ rows \in Nat /\ total \in Int
    /\ seen \in Nat /\ offset \in Nat /\ pages \in Nat
    /\ result.complete \in BOOLEAN /\ result.next_offset \in Nat

\* In the paging loop nothing before offset has been skipped, and offset
\* counts at least the rows and the pages of this run.
Paging ==
    /\ step = "count" => seen = 0 /\ pages = 0
    /\ step = "page" =>
        /\ total = rows
        /\ seen <= offset
        /\ pages * PageSize <= offset
        /\ Read(offset)

\* A retry resumes where everything before has been read.
Resumable == Read(result.next_offset)

SampleInv == Typed /\ Paging /\ Resumable /\ CompletedHasSample /\ SampleIsBounded

-----------------------------------------------------------------------------
\* A page has at most PageSize rows, and fewer only at the end of the table.
LEMMA PageSizes ==
    ASSUME NEW from \in Nat, rows \in Nat, PageSize \in Nat \ {0}
    PROVE  /\ Cardinality(Page(from)) \in 0..PageSize
           /\ Cardinality(Page(from)) < PageSize => rows < from + PageSize
<1> DEFINE whole == from..(from + PageSize - 1)
<1>1. IsFiniteSet(whole) /\ Cardinality(whole) = PageSize
  BY FS_Interval
<1>2. Page(from) \subseteq whole
  BY DEF Page
<1>3. IsFiniteSet(Page(from)) /\ Cardinality(Page(from)) <= PageSize
  BY <1>1, <1>2, FS_Subset
<1>4. Cardinality(Page(from)) \in Nat
  BY <1>3, FS_CardinalityType
<1>5. rows >= from + PageSize => Page(from) = whole
  BY DEF Page
<1>6. QED
  BY <1>1, <1>3, <1>4, <1>5

\* The constants, as the assumption gives them.
LEMMA Constants ==
    /\ PageSize \in Nat \ {0} /\ SampleTarget \in Nat \ {0} /\ MaxPages \in Nat \ {0}
    /\ MaxRows \in Nat
    /\ SampleTarget <= PageSize * MaxPages
BY SourceAssumption DEF SourceAssumption

\* A page read from offset extends what has been read by PageSize.
LEMMA PageExtends ==
    ASSUME Typed, Read(offset), PageSize \in Nat \ {0}, sampled' = sampled \cup Page(offset),
           rows' = rows, offset' = offset + PageSize
    PROVE  Read(offset)'
<1>1. ASSUME NEW r \in Nat, r < offset + PageSize, r < rows
      PROVE  r \in sampled'
  <2>1. CASE r < offset
    BY <1>1, <2>1 DEF Read
  <2>2. CASE r >= offset
    BY <1>1, <2>2 DEF Typed, Page
  <2>3. QED
    BY <2>1, <2>2, <1>1 DEF Typed
<1>2. {r \in Nat : r < offset + PageSize /\ r < rows} \subseteq sampled'
  BY <1>1
<1>3. QED
  BY <1>2 DEF Read, Typed

\* A run that returns keeps the invariant if its result is true of what has
\* been read.
LEMMA Returns ==
    ASSUME SampleInv, NEW status, NEW complete \in BOOLEAN, NEW count, NEW done,
           NEW upto \in Nat, Return(status, complete, count, done, upto),
           rows' = rows, total' \in Int, seen' \in Nat, offset' \in Nat, pages' \in Nat,
           SampleIsBounded',
           {r \in Nat : r < upto /\ r < rows} \subseteq sampled',
           complete => 0..(Lesser(rows, SampleTarget) - 1) \subseteq sampled'
    PROVE  SampleInv'
<1>1. step' = "idle" /\ result'.complete = complete /\ result'.next_offset = upto
  BY DEF Return
<1>2. Typed' /\ Paging'
  BY <1>1 DEF SampleInv, Typed, Paging
<1>3. Resumable' /\ CompletedHasSample'
  BY <1>1 DEF Resumable, Read, CompletedHasSample, Lesser
<1>4. QED
  BY <1>2, <1>3 DEF SampleInv

\* The first state of a source.
LEMMA InitSample == SourceInit => SampleInv
<1>1. SUFFICES ASSUME SourceInit PROVE SampleInv
  OBVIOUS
<1>2. Typed /\ Paging /\ Resumable /\ CompletedHasSample
  BY <1>1, Constants DEF SourceInit, Typed, Paging, Resumable, Read, CompletedHasSample
<1>3. SampleIsBounded
  BY <1>1, Constants DEF SourceInit, SampleIsBounded
<1>4. QED
  BY <1>2, <1>3 DEF SampleInv

\* Every step of a scan keeps the invariant.
LEMMA StepSample == SampleInv /\ [SourceNext]_sourceVars => SampleInv'
<1> USE Constants
<1>1. SUFFICES ASSUME SampleInv, [SourceNext]_sourceVars PROVE SampleInv'
  OBVIOUS
<1>2. CASE Begin
  BY <1>1, <1>2
     DEF Begin, SampleInv, Typed, Paging, Resumable, Read, CompletedHasSample, SampleIsBounded
<1>3. CASE CountFails
  BY <1>1, <1>3 DEF CountFails, ReturnFailure, Return, SampleInv, Typed, Paging, Resumable,
                    Read, CompletedHasSample, SampleIsBounded
<1>4. CASE CountUnsupported
  BY <1>1, <1>4 DEF CountUnsupported, SampleInv, Typed, Paging, Resumable,
                    Read, CompletedHasSample, SampleIsBounded
<1>5. CASE Counted
  <2>1. CASE rows = 0
    <3>1. Return("empty", TRUE, 0, 0, 0)
      BY <1>5, <2>1 DEF Counted
    <3>2. UNCHANGED <<rows, seen, offset, pages, sampled>> /\ total' = rows
      BY <1>5, <2>1 DEF Counted
    <3>3. 0..(Lesser(rows, SampleTarget) - 1) = {}
      BY <2>1 DEF Lesser
    <3>4. QED
      <4>1. /\ rows' = rows /\ total' \in Int /\ seen' \in Nat /\ offset' \in Nat
            /\ pages' \in Nat /\ SampleIsBounded'
        BY <1>1, <3>2 DEF SampleInv, Typed, SampleIsBounded
      <4>2. {r \in Nat : r < 0 /\ r < rows} \subseteq sampled'
        OBVIOUS
      <4>3. TRUE \in BOOLEAN /\ 0 \in Nat
        OBVIOUS
      <4>4. TRUE => 0..(Lesser(rows, SampleTarget) - 1) \subseteq sampled'
        BY <3>3
      <4>5. QED
        BY <1>1, <3>1, <4>1, <4>2, <4>3, <4>4, Returns
  <2>2. CASE rows # 0
    BY <1>1, <1>5, <2>2 DEF Counted, ResumeAt, SampleInv, Typed, Paging, Resumable,
                            Read, CompletedHasSample, SampleIsBounded
  <2>3. QED
    BY <2>1, <2>2
<1>6. CASE LegacyRead
  <2> DEFINE n == Cardinality(Page(0))
  <2>1. UNCHANGED <<rows, total, seen, offset, pages>>
    BY <1>6 DEF LegacyRead
  <2>2. /\ rows' = rows /\ total' \in Int /\ seen' \in Nat /\ offset' \in Nat
        /\ pages' \in Nat /\ SampleIsBounded'
    BY <1>1, <2>1 DEF SampleInv, Typed, SampleIsBounded
  <2>3. n \in 0..PageSize /\ (n < PageSize => rows < 0 + PageSize)
    BY <1>1, PageSizes DEF SampleInv, Typed
  <2>4. CASE ReturnFailure(-1) /\ UNCHANGED sampled
    <3>1. PICK status \in Failures : Return(status, FALSE, -1, 0, 0)
      BY <2>4 DEF ReturnFailure
    <3>2. {r \in Nat : r < 0 /\ r < rows} \subseteq sampled'
      OBVIOUS
    <3>3. FALSE \in BOOLEAN /\ 0 \in Nat
      OBVIOUS
    <3>4. QED
      BY <1>1, <2>2, <3>1, <3>2, <3>3, Returns
  <2>5. CASE /\ sampled' = sampled \cup Page(0)
             /\ IF n = 0 THEN Return("empty", TRUE, 0, 1, PageSize)
                ELSE IF n >= PageSize THEN Return("capped", FALSE, n, 1, PageSize)
                ELSE Return("completed", TRUE, n, 1, PageSize)
    <3>1. {r \in Nat : r < PageSize /\ r < rows} \subseteq sampled'
      BY <1>1, <2>5 DEF Page, SampleInv, Typed
    <3>2. n < PageSize => 0..(Lesser(rows, SampleTarget) - 1) \subseteq sampled'
      BY <1>1, <2>3, <3>1 DEF Lesser, SampleInv, Typed
    <3>3. CASE n = 0
      <4> HIDE DEF n
      <4>1. n < PageSize
        BY <3>3
      <4>2. Return("empty", TRUE, 0, 1, PageSize)
        BY <2>5, <3>3
      <4>3. QED
        BY <1>1, <2>2, <4>1, <4>2, <3>1, <3>2, Returns
    <3>4. CASE n # 0 /\ n >= PageSize
      BY <1>1, <2>2, <2>5, <3>1, <3>4, Returns
    <3>5. CASE n # 0 /\ n < PageSize
      <4> HIDE DEF n
      <4>1. ~(n >= PageSize)
        BY <2>3, <3>5
      <4>2. Return("completed", TRUE, n, 1, PageSize)
        BY <2>5, <3>5, <4>1
      <4>3. QED
        BY <1>1, <2>2, <4>2, <3>1, <3>2, <3>5, Returns
    <3>6. QED
      BY <2>3, <3>3, <3>4, <3>5
  <2>6. QED
    BY <1>6, <2>4, <2>5 DEF LegacyRead
<1>7. CASE ReadPage
  <2> DEFINE n == Cardinality(Page(offset))
  <2>1. n \in 0..PageSize /\ (n < PageSize => rows < offset + PageSize)
    BY <1>1, PageSizes DEF SampleInv, Typed
  <2>2. /\ step = "page" /\ seen < Lesser(total, SampleTarget)
        /\ seen' = seen + n /\ pages' = pages + 1 /\ offset' = offset + PageSize
        /\ sampled' = sampled \cup Page(offset) /\ rows' = rows /\ total' = total
    BY <1>7 DEF ReadPage, GoOn
  <2>3. /\ rows' = rows /\ total' \in Int /\ seen' \in Nat /\ offset' \in Nat
        /\ pages' \in Nat
    BY <1>1, <2>1, <2>2 DEF SampleInv, Typed
  <2>4. SampleIsBounded'
    BY <1>1, <2>1, <2>2 DEF SampleInv, Typed, Lesser, SampleIsBounded
  <2>5. Read(offset)'
    BY <1>1, <2>2, PageExtends DEF SampleInv, Typed, Paging
  <2>6. CASE n < PageSize
    <3>1. Return("completed", TRUE, total, result.pages_done + pages', offset')
      BY <1>7, <2>6 DEF ReadPage, Finish
    <3>2. {r \in Nat : r < offset' /\ r < rows} \subseteq sampled'
      BY <2>3, <2>5 DEF Read
    <3>3. 0..(Lesser(rows, SampleTarget) - 1) \subseteq sampled'
      BY <1>1, <2>1, <2>2, <2>6, <3>2 DEF Lesser, SampleInv, Typed
    <3>4. QED
      BY <1>1, <2>3, <2>4, <3>1, <3>2, <3>3, Returns
  <2>7. CASE ~(n < PageSize)
    <3>1. UNCHANGED <<step, result>>
      BY <1>7, <2>7 DEF ReadPage
    <3>2. seen' <= offset'
      BY <1>1, <2>1, <2>2 DEF SampleInv, Typed, Paging
    <3>3. (pages + 1) * PageSize = pages * PageSize + PageSize
      BY <1>1 DEF SampleInv, Typed
    <3>4. pages' * PageSize <= offset'
      BY <1>1, <2>2, <3>3 DEF SampleInv, Typed, Paging
    <3>5. Typed' /\ Paging'
      BY <1>1, <2>2, <2>3, <2>5, <3>1, <3>2, <3>4 DEF SampleInv, Typed, Paging
    <3>6. Resumable' /\ CompletedHasSample'
      BY <1>1, <2>2, <3>1 DEF SampleInv, Resumable, Read, CompletedHasSample
    <3>7. QED
      BY <2>4, <3>5, <3>6 DEF SampleInv
  <2>8. QED
    BY <2>6, <2>7
<1>8. CASE PageFails
  <2>1. UNCHANGED <<rows, total, seen, offset, pages, sampled>> /\ step = "page"
    BY <1>8 DEF PageFails
  <2>5. /\ rows' = rows /\ total' \in Int /\ seen' \in Nat /\ offset' \in Nat
        /\ pages' \in Nat /\ SampleIsBounded'
    BY <1>1, <2>1 DEF SampleInv, Typed, SampleIsBounded
  <2>6. /\ offset \in Nat /\ FALSE \in BOOLEAN
        /\ {r \in Nat : r < offset /\ r < rows} \subseteq sampled'
    BY <1>1, <2>1 DEF SampleInv, Typed, Paging, Read
  <2>2. CASE pages = 0
    <3>1. PICK status \in Failures : Return(status, FALSE, total, 0, 0)
      BY <1>8, <2>2 DEF PageFails, ReturnFailure
    <3>2. {r \in Nat : r < 0 /\ r < rows} \subseteq sampled'
      OBVIOUS
    <3>3. FALSE \in BOOLEAN /\ 0 \in Nat
      OBVIOUS
    <3>4. QED
      BY <1>1, <2>5, <3>1, <3>2, <3>3, Returns
  <2>3. CASE pages # 0
    <3>1. Return("partial", FALSE, total, result.pages_done + pages, offset)
      BY <1>8, <2>3 DEF PageFails, Finish
    <3>2. QED
      BY <1>1, <2>5, <2>6, <3>1, Returns
  <2>4. QED
    BY <2>2, <2>3
<1>9. CASE Deadline
  <2>1. UNCHANGED <<rows, total, seen, offset, pages, sampled>> /\ step = "page"
    BY <1>9 DEF Deadline
  <2>2. Return("partial", FALSE, total, result.pages_done + pages, offset)
    BY <1>9 DEF Deadline, Finish
  <2>3. /\ rows' = rows /\ total' \in Int /\ seen' \in Nat /\ offset' \in Nat
        /\ pages' \in Nat /\ SampleIsBounded'
    BY <1>1, <2>1 DEF SampleInv, Typed, SampleIsBounded
  <2>4. /\ offset \in Nat /\ FALSE \in BOOLEAN
        /\ {r \in Nat : r < offset /\ r < rows} \subseteq sampled'
    BY <1>1, <2>1 DEF SampleInv, Typed, Paging, Read
  <2>5. QED
    BY <1>1, <2>2, <2>3, <2>4, Returns
<1>10. CASE SampleDone
  <2>1. UNCHANGED <<rows, total, seen, offset, pages, sampled>> /\ step = "page" /\ ~GoOn
    BY <1>10 DEF SampleDone
  <2>2. Return("completed", TRUE, total, result.pages_done + pages, offset)
    BY <1>10 DEF SampleDone, Finish
  <2>3. /\ rows' = rows /\ total' \in Int /\ seen' \in Nat /\ offset' \in Nat
        /\ pages' \in Nat /\ SampleIsBounded'
    BY <1>1, <2>1 DEF SampleInv, Typed, SampleIsBounded
  <2>4. /\ offset \in Nat /\ TRUE \in BOOLEAN
        /\ {r \in Nat : r < offset /\ r < rows} \subseteq sampled'
    BY <1>1, <2>1 DEF SampleInv, Typed, Paging, Read
  <2>5. seen <= offset /\ pages * PageSize <= offset /\ total = rows
    BY <1>1, <2>1 DEF SampleInv, Paging
  <2>6. CASE seen >= Lesser(total, SampleTarget)
    <3>1. 0..(Lesser(rows, SampleTarget) - 1) \subseteq sampled'
      BY <1>1, <2>4, <2>5, <2>6 DEF Lesser, SampleInv, Typed
    <3>2. QED
      BY <1>1, <2>2, <2>3, <2>4, <3>1, Returns
  <2>7. CASE pages >= MaxPages
    <3>1. PageSize * MaxPages <= pages * PageSize
      BY <1>1, <2>7 DEF SampleInv, Typed
    <3>2. SampleTarget <= offset
      BY <1>1, <2>5, <3>1 DEF SampleInv, Typed
    <3>3. 0..(Lesser(rows, SampleTarget) - 1) \subseteq sampled'
      BY <1>1, <2>4, <3>2 DEF Lesser, SampleInv, Typed
    <3>4. QED
      BY <1>1, <2>2, <2>3, <2>4, <3>3, Returns
  <2>8. QED
    BY <1>1, <2>1, <2>6, <2>7 DEF GoOn, Lesser, SampleInv, Typed
<1>11. CASE UNCHANGED sourceVars
  BY <1>1, <1>11 DEF sourceVars, SampleInv, Typed, Paging, Resumable, Read, CompletedHasSample,
                     SampleIsBounded
<1>12. QED
  BY <1>1, <1>2, <1>3, <1>4, <1>5, <1>6, <1>7, <1>8, <1>9, <1>10, <1>11 DEF SourceNext, ScanSource

-----------------------------------------------------------------------------
(* Theorems.                                                               *)

\* The invariant holds throughout.
LEMMA AlwaysSample == SourceSpec => []SampleInv
BY InitSample, StepSample, PTL DEF SourceSpec

\* A source scan_one_source reports as complete has its sample, for every page
\* size and table, over any sequence of failed, resumed and repeated runs.
THEOREM SampleComplete == SourceSpec => []CompletedHasSample
<1>1. SampleInv => CompletedHasSample
  BY DEF SampleInv
<1>2. QED
  BY <1>1, AlwaysSample, PTL

\* No run of scan_one_source reads more rows than the sample and one page.
THEOREM SampleBounded == SourceSpec => []SampleIsBounded
<1>1. SampleInv => SampleIsBounded
  BY DEF SampleInv
<1>2. QED
  BY <1>1, AlwaysSample, PTL
=============================================================================
