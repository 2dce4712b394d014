------------------------------- MODULE OdooScan -------------------------------
(***************************************************************************)
(* Odoo scan sessions of one project: the endpoints that start and retry a *)
(* scan (apps/edr/app.py), the background task that scans the sources one  *)
(* by one (apps/edr/admin/odoo_scan_session.py), the in-process registry   *)
(* ACTIVE_SESSIONS and the durable row in odoo_scan_sessions.              *)
(*                                                                         *)
(* A ScanSession is a mutable Python object.  A start call makes one; a    *)
(* retry call works on the registered object, or makes a second object of  *)
(* the same session from the durable row when the registry has none.  So   *)
(* objects and tasks are named by the call that made them.                 *)
(***************************************************************************)
EXTENDS Integers, FiniteSets

CONSTANTS
    Starts,    \* POST .../scan calls; each names the session it would create
    Retries,   \* POST .../scan/{session_id}/retry calls
    None,      \* no object
    NumSources,\* sources of the registry, scanned in order
    Modes,     \* retry modes in use: "failed", "incomplete"
    Raising,   \* statements that may raise: "event", "create", "save", "load"
    Crashes    \* bound: how often the process may die

Calls    == Starts \cup Retries
Sources  == 1..NumSources

ASSUME ScanAssumption ==
    /\ Starts \cap Retries = {}
    /\ None \notin Calls
    /\ NumSources \in Nat \ {0}
    /\ Modes \subseteq {"failed", "incomplete"}
    /\ Raising \subseteq {"event", "create", "save", "load"}
    /\ Crashes \in Nat

VARIABLES
    row,     \* row[s]: the durable snapshot of session s
    active,  \* active[s]: the object ACTIVE_SESSIONS holds for s
    object,  \* object[c]: the ScanSession object call c made
    pc,      \* the await call c is suspended at
    session, \* session[c]: the session call c is about
    on,      \* on[c]: the object call c, and then its task, works on
    task,    \* the await the task launched by c is suspended at
    todo,    \* todo[c]: the sources that task still has to scan
    saving,  \* saving[c]: the snapshot that task is writing
    crashes

vars == <<row, active, object, pc, session, on, task, todo, saving, crashes>>

\* "completed" stands for completed and empty, "partial" for partial and
\* capped, "failed" for failed and timeout.
Results      == {"completed", "partial", "failed", "unmapped"}
Statuses     == {"pending", "running"} \cup Results
Unfinished   == {"pending", "running"}
States       == {"pending", "running", "completed", "partial", "failed"}
Snapshots    == [state : States, sources : [Sources -> Statuses]]
NoSnapshot   == [state |-> "none", sources |-> <<>>]

CallSteps == {"idle", "start_event", "create", "load", "retry_event", "done"}
TaskSteps == {"none", "begin", "save_start", "save_running", "scan", "save_result",
              "save_final", "over"}

ScanTypeOK ==
    /\ row \in [Starts -> Snapshots \cup {NoSnapshot}]
    /\ active \in [Starts -> Calls \cup {None}]
    /\ object \in [Calls -> Snapshots \cup {NoSnapshot}]
    /\ pc \in [Calls -> CallSteps]
    /\ session \in [Calls -> Starts \cup {None}]
    /\ on \in [Calls -> Calls \cup {None}]
    /\ task \in [Calls -> TaskSteps]
    /\ todo \in [Calls -> SUBSET Sources]
    /\ saving \in [Calls -> Snapshots \cup {NoSnapshot}]
    /\ crashes \in 0..Crashes

-----------------------------------------------------------------------------
(* Pure parts of the engine.                                               *)

InitFullSession == [state |-> "pending", sources |-> [k \in Sources |-> "pending"]]

BuggySelectRetryKeys(scan, mode) ==  \* a retry scans everything again
    {k \in Sources : scan.sources[k] # "unmapped"}

SelectRetryKeys(scan, mode) ==
    {k \in Sources : scan.sources[k] \in
        IF mode = "failed" THEN {"failed"} ELSE {"failed", "partial"} \cup Unfinished}

BuggyOverallState(sources) ==  \* unfinished sources are not looked at
    LET considered == {sources[k] : k \in Sources} \ {"unmapped"} IN
    CASE considered \subseteq {"completed", "pending", "running"} -> "completed"
      [] considered = {"failed"} -> "failed"
      [] OTHER -> "partial"

OverallState(sources) ==
    LET considered == {sources[k] : k \in Sources} \ {"unmapped"} IN
    CASE considered \cap Unfinished # {}      -> "running"
      [] considered \subseteq {"completed"}   -> "completed"
      [] considered = {"failed"}              -> "failed"
      [] OTHER                                -> "partial"

Requeue(scan, keys) ==
    [state   |-> "running",
     sources |-> [k \in Sources |-> IF k \in keys THEN "pending" ELSE scan.sources[k]]]

\* active_running_for_project: the registry never forgets a session.
IsRunning(c)  == c # None /\ object[c].state \in Unfinished
ActiveRunning == {s \in Starts : IsRunning(active[s])}

Goto(c, step) == pc' = [pc EXCEPT ![c] = step]

-----------------------------------------------------------------------------
(* _launch_scan_task: register the object, start a task for the given keys. *)

Launch(c, keys) ==
    /\ active' = [active EXCEPT ![session[c]] = on[c]]
    /\ task' = [task EXCEPT ![c] = "begin"]
    /\ todo' = [todo EXCEPT ![c] = keys]
    /\ Goto(c, "done")

DontLaunch(c) ==
    /\ Goto(c, "done")
    /\ UNCHANGED <<active, task, todo>>

-----------------------------------------------------------------------------
(* POST .../odoo-source-map/scan                                           *)

Start(c) ==
    /\ c \in Starts /\ pc[c] = "idle"
    /\ session' = [session EXCEPT ![c] = c]
    /\ Goto(c, "start_event")
    /\ UNCHANGED <<row, active, object, on, task, todo, saving, crashes>>

\* Once the admin event is stored: reuse a running scan, or make a session.
StartAudited(c) ==
    /\ pc[c] = "start_event"
    /\ \/ /\ ActiveRunning = {}
          /\ object' = [object EXCEPT ![c] = InitFullSession]
          /\ on' = [on EXCEPT ![c] = c]
          /\ Goto(c, "create")
       \/ /\ ActiveRunning # {} \/ "event" \in Raising
          /\ Goto(c, "done")
          /\ UNCHANGED <<object, on>>
    /\ UNCHANGED <<row, active, session, task, todo, saving, crashes>>

\* The new session is saved before it is registered; a save that raises
\* fails the call.
StartSaved(c) ==
    /\ pc[c] = "create"
    /\ \/ row' = [row EXCEPT ![c] = object[c]] /\ Launch(c, Sources)
       \/ "create" \in Raising /\ row' \in {row, [row EXCEPT ![c] = object[c]]} /\ DontLaunch(c)
    /\ UNCHANGED <<object, session, on, saving, crashes>>

-----------------------------------------------------------------------------
(* POST .../odoo-source-map/scan/{session_id}/retry                        *)

\* With the keys to scan again chosen, the object is set back at once; only
\* then is the admin event stored.
Prepare(c, o, scan) ==
    \E mode \in Modes :
        LET keys == SelectRetryKeys(scan, mode) IN
        IF keys = {}
        THEN Goto(c, "done") /\ UNCHANGED <<object, on, todo>>
        ELSE /\ object' = [object EXCEPT ![o] = Requeue(scan, keys)]
             /\ on' = [on EXCEPT ![c] = o]
             /\ todo' = [todo EXCEPT ![c] = keys]
             /\ Goto(c, "retry_event")

Retry(c, s) ==
    /\ c \in Retries /\ pc[c] = "idle"
    /\ row[s] # NoSnapshot
    /\ session' = [session EXCEPT ![c] = s]
    /\ \/ /\ IsRunning(active[s])
          /\ Goto(c, "done")
          /\ UNCHANGED <<object, on, todo>>
       \/ /\ active[s] # None /\ ~IsRunning(active[s])
          /\ Prepare(c, active[s], object[active[s]])
       \/ /\ active[s] = None
          /\ Goto(c, "load")
          /\ UNCHANGED <<object, on, todo>>
    /\ UNCHANGED <<row, active, task, saving, crashes>>

\* The registry is not looked at again after this await.
RetryLoaded(c) ==
    /\ pc[c] = "load"
    /\ \/ Prepare(c, c, row[session[c]])
       \/ "load" \in Raising /\ Goto(c, "done") /\ UNCHANGED <<object, on, todo>>
    /\ UNCHANGED <<row, active, session, task, saving, crashes>>

RetryAudited(c) ==
    /\ pc[c] = "retry_event"
    /\ \/ Launch(c, todo[c])
       \/ "event" \in Raising /\ DontLaunch(c)
    /\ UNCHANGED <<row, object, session, on, saving, crashes>>

-----------------------------------------------------------------------------
(* run_scan_session.  A task is suspended while it saves a snapshot taken  *)
(* before, or while scan_one_source waits for Odoo.                        *)

\* Change the task's object, take the snapshot and start saving it.
SaveAs(c, scan, step) ==
    /\ object' = [object EXCEPT ![on[c]] = scan]
    /\ saving' = [saving EXCEPT ![c] = scan]
    /\ task' = [task EXCEPT ![c] = step]

SetSource(c, k, status) == [object[on[c]] EXCEPT !.sources[k] = status]

taskFrame == <<active, pc, session, on, crashes>>

TaskBegin(c) ==
    /\ task[c] = "begin"
    /\ SaveAs(c, [object[on[c]] EXCEPT !.state = "running"], "save_start")
    /\ UNCHANGED <<row, todo, taskFrame>>

\* The save is applied, or raises and is forgotten (applied or not).
Saved(c) ==
    \/ row' = [row EXCEPT ![session[c]] = saving[c]]
    \/ "save" \in Raising /\ UNCHANGED row

NextKey(c) == CHOOSE k \in todo[c] : \A l \in todo[c] : k <= l

TaskNextSource(c) ==
    /\ task[c] \in {"save_start", "save_result"}
    /\ todo[c] # {}
    /\ Saved(c)
    /\ SaveAs(c, SetSource(c, NextKey(c), "running"), "save_running")
    /\ UNCHANGED <<todo, taskFrame>>

TaskMarked(c) ==
    /\ task[c] = "save_running"
    /\ Saved(c)
    /\ task' = [task EXCEPT ![c] = "scan"]
    /\ UNCHANGED <<object, todo, saving, taskFrame>>

BuggyTaskScanned(c) ==  \* a source that failed stays queued
    /\ task[c] = "scan"
    /\ \E result \in Results :
          /\ SaveAs(c, SetSource(c, NextKey(c), result), "save_result")
          /\ todo' = [todo EXCEPT ![c] = IF result = "failed" THEN @ ELSE @ \ {NextKey(c)}]
    /\ UNCHANGED <<row, taskFrame>>

TaskScanned(c) ==
    /\ task[c] = "scan"
    /\ \E result \in Results :
          SaveAs(c, SetSource(c, NextKey(c), result), "save_result")
    /\ todo' = [todo EXCEPT ![c] = @ \ {NextKey(c)}]
    /\ UNCHANGED <<row, taskFrame>>

TaskFinish(c) ==
    /\ task[c] \in {"save_start", "save_result"}
    /\ todo[c] = {}
    /\ Saved(c)
    /\ SaveAs(c, [object[on[c]] EXCEPT !.state = OverallState(object[on[c]].sources)],
              "save_final")
    /\ UNCHANGED <<todo, taskFrame>>

TaskOver(c) ==
    /\ task[c] = "save_final"
    /\ Saved(c)
    /\ task' = [task EXCEPT ![c] = "over"]
    /\ UNCHANGED <<object, todo, saving, taskFrame>>

-----------------------------------------------------------------------------
\* The process dies; rows are all that is left.
Crash ==
    /\ crashes < Crashes
    /\ crashes' = crashes + 1
    /\ active' = [s \in Starts |-> None]
    /\ object' = [c \in Calls |-> NoSnapshot]
    /\ pc' = [c \in Calls |-> IF pc[c] = "idle" THEN "idle" ELSE "done"]
    /\ on' = [c \in Calls |-> None]
    /\ task' = [c \in Calls |-> "none"]
    /\ todo' = [c \in Calls |-> {}]
    /\ saving' = [c \in Calls |-> NoSnapshot]
    /\ UNCHANGED <<row, session>>

Init ==
    /\ row = [s \in Starts |-> NoSnapshot]
    /\ active = [s \in Starts |-> None]
    /\ object = [c \in Calls |-> NoSnapshot]
    /\ pc = [c \in Calls |-> "idle"]
    /\ session = [c \in Calls |-> None]
    /\ on = [c \in Calls |-> None]
    /\ task = [c \in Calls |-> "none"]
    /\ todo = [c \in Calls |-> {}]
    /\ saving = [c \in Calls |-> NoSnapshot]
    /\ crashes = 0

CallStep(c) ==
    StartAudited(c) \/ StartSaved(c) \/ RetryLoaded(c) \/ RetryAudited(c)

TaskStep(c) ==
    \/ TaskBegin(c) \/ TaskNextSource(c) \/ TaskMarked(c)
    \/ TaskScanned(c) \/ TaskFinish(c) \/ TaskOver(c)

Next ==
    \/ \E c \in Calls : Start(c) \/ CallStep(c) \/ TaskStep(c)
    \/ \E c \in Calls, s \in Starts : Retry(c, s)
    \/ Crash

Spec == Init /\ [][Next]_vars

\* Every await of a task is bounded: asyncio.wait_for around each call to
\* Odoo, and statements that answer or raise.
FairSpec == Spec /\ \A c \in Calls : WF_vars(CallStep(c)) /\ WF_vars(TaskStep(c))

-----------------------------------------------------------------------------
(* Properties.                                                             *)

Working(c) == task[c] \notin {"none", "over"}

\* retry_odoo_scan: "Already-completed sources are left untouched".  In the
\* object, a completed source stays completed until the process dies.
CompletedStays ==
    [][\A c \in Calls, k \in Sources :
          object[c].state # "none" /\ object[c].sources[k] = "completed" =>
              \/ crashes' # crashes
              \/ object'[c].sources[k] = "completed"]_vars

\* Whatever the order in which saves reach the table, a durable session that
\* says completed has no source left that failed or was not scanned.
CompletedMeansAll ==
    \A s \in Starts : row[s].state = "completed" =>
        \A k \in Sources : row[s].sources[k] \in {"completed", "unmapped"}

\* Every scan ends, whatever its sources answer and whether or not its
\* progress can be saved.
ScanEnds == \A c \in Calls : Working(c) ~> ~Working(c)

-----------------------------------------------------------------------------
(* What the repository says and the code does not do.                      *)

\* apps/edr/admin/odoo_scan_session.py:20: "a failed/partial source can be
\* retried or resumed".  A registered scan that says pending or running has a task
\* that works on it, or a retry about to launch one: otherwise every later start would
\* reuse it and every later retry would leave it alone, for ever.
RunningIsOwned ==
    \A s \in ActiveRunning :
        \E c \in Calls : on[c] = active[s] /\ (Working(c) \/ pc[c] = "retry_event")

\* apps/edr/app.py:3026: "idempotent: reuse running scan".  One project never
\* has two sessions scanning.
OneScanPerProject == Cardinality({session[c] : c \in {d \in Calls : Working(d)}}) <= 1
=============================================================================
