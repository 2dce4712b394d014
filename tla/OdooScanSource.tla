--------------------------- MODULE OdooScanSource ---------------------------
(***************************************************************************)
(* scan_one_source of apps/edr/admin/odoo_scan_session.py: count the rows  *)
(* of one Odoo source, then read a bounded sample page by page; and the    *)
(* retries that resume it from the result of the run before.               *)
(*                                                                         *)
(* Odoo is external: its table has a fixed number of rows, and each call   *)
(* to it answers, raises or times out.                                     *)
(***************************************************************************)
EXTENDS Integers, FiniteSets

CONSTANTS
    PageSize,     \* ScanConfig.page_size
    SampleTarget, \* ScanConfig.sample_target
    MaxPages,     \* ScanConfig.max_pages
    MaxRows,      \* bound: rows the Odoo table may have
    MaxRuns       \* bound: scans of the source, the first and its retries

ASSUME SourceAssumption ==
    /\ {PageSize, SampleTarget, MaxPages, MaxRuns} \subseteq Nat \ {0}
    /\ MaxRows \in Nat
    /\ SampleTarget <= PageSize * MaxPages

VARIABLES
    rows,    \* rows of the source in Odoo
    run,     \* scans begun
    step,    \* what the scan waits for
    total,   \* answer of search_count; -1 when the workflow has none
    seen,    \* rows read in this run
    offset,  \* offset of the next page
    pages,   \* pages read in this run
    result,  \* SourceScanState of the run before, the prior of this one
    sampled  \* history: the rows some run has read, as offsets

sourceVars == <<rows, run, step, total, seen, offset, pages, result, sampled>>

Failures  == {"timeout", "failed"}
OK        == {"completed", "empty"}
ScanState == [status : {"pending", "partial", "capped"} \cup Failures \cup OK,
              complete : BOOLEAN, count : -1..MaxRows,
              pages_done : 0..(MaxRuns * MaxPages), next_offset : Nat]

SourceTypeOK ==
    /\ rows \in 0..MaxRows
    /\ run \in 0..MaxRuns
    /\ step \in {"idle", "count", "legacy", "page"}
    /\ total \in -1..MaxRows
    /\ seen \in Nat /\ offset \in Nat
    /\ pages \in 0..MaxPages
    /\ result \in ScanState
    /\ sampled \subseteq 0..(MaxRows - 1)

-----------------------------------------------------------------------------
Lesser(a, b) == IF a < b THEN a ELSE b

\* What one search_read returns: the rows of a page, as offsets.
Page(from) == {r \in from..(from + PageSize - 1) : r < rows}

Return(status, complete, count, pages_done, next_offset) ==
    /\ step' = "idle"
    /\ result' = [status |-> status, complete |-> complete, count |-> count,
                  pages_done |-> pages_done, next_offset |-> next_offset]

\* A run that breaks before it has read a page returns a fresh state: the
\* place and the page count of the runs before are gone.
ReturnFailure(count) == \E status \in Failures : Return(status, FALSE, count, 0, 0)

SourceInit ==
    /\ rows \in 0..MaxRows
    /\ run = 0
    /\ step = "idle"
    /\ total = -1
    /\ seen = 0 /\ offset = 0 /\ pages = 0
    /\ result = [status |-> "pending", complete |-> FALSE, count |-> -1,
                 pages_done |-> 0, next_offset |-> 0]
    /\ sampled = {}

\* The first scan, or a retry: those select what is not completed or empty.
Begin ==
    /\ step = "idle"
    /\ result.status \notin OK
    /\ run < MaxRuns
    /\ run' = run + 1
    /\ step' = "count"
    /\ total' = -1
    /\ seen' = 0 /\ offset' = 0 /\ pages' = 0
    /\ UNCHANGED <<rows, result, sampled>>

CountFails ==
    /\ step = "count"
    /\ ReturnFailure(-1)
    /\ UNCHANGED <<rows, run, total, seen, offset, pages, sampled>>

CountUnsupported ==
    /\ step = "count"
    /\ step' = "legacy"
    /\ UNCHANGED <<rows, run, total, seen, offset, pages, result, sampled>>

BuggyResumeAt(prior) == prior.next_offset + PageSize  \* takes it for the last page read

ResumeAt(prior) == prior.next_offset

Counted ==
    /\ step = "count"
    /\ total' = rows
    /\ IF rows = 0
       THEN Return("empty", TRUE, 0, 0, 0) /\ UNCHANGED offset
       ELSE step' = "page" /\ offset' = ResumeAt(result) /\ UNCHANGED result
    /\ UNCHANGED <<rows, run, seen, pages, sampled>>

\* Without search_count: one page, and a floor for the count if it is full.
LegacyRead ==
    /\ step = "legacy"
    /\ LET n == Cardinality(Page(0)) IN
       \/ /\ sampled' = sampled \cup Page(0)
          /\ IF n = 0 THEN Return("empty", TRUE, 0, 1, PageSize)
             ELSE IF n >= PageSize THEN Return("capped", FALSE, n, 1, PageSize)
             ELSE Return("completed", TRUE, n, 1, PageSize)
       \/ ReturnFailure(-1) /\ UNCHANGED sampled
    /\ UNCHANGED <<rows, run, total, seen, offset, pages>>

-----------------------------------------------------------------------------
(* The paging loop.                                                        *)

BuggyGoOn == pages < MaxPages  \* reads on when it has its sample

\* The loop condition.
GoOn == seen < Lesser(total, SampleTarget) /\ pages < MaxPages

Finish(status, upto, read) ==
    Return(status, status = "completed", total, result.pages_done + read, upto)

ReadPage ==
    /\ step = "page" /\ GoOn
    /\ LET page == Page(offset) IN
       /\ seen' = seen + Cardinality(page)
       /\ sampled' = sampled \cup page
       /\ pages' = pages + 1
       /\ offset' = offset + PageSize
       /\ IF Cardinality(page) < PageSize
          THEN Finish("completed", offset', pages')
          ELSE UNCHANGED <<step, result>>
    /\ UNCHANGED <<rows, run, total>>

PageFails ==
    /\ step = "page" /\ GoOn
    /\ IF pages = 0 THEN ReturnFailure(total) ELSE Finish("partial", offset, pages)
    /\ UNCHANGED <<rows, run, total, seen, offset, pages, sampled>>

\* source_timeout_s has passed when the loop looks at the clock.
Deadline ==
    /\ step = "page" /\ GoOn
    /\ Finish("partial", offset, pages)
    /\ UNCHANGED <<rows, run, total, seen, offset, pages, sampled>>

BuggySampleDone ==  \* expects to hit the target exactly
    /\ step = "page" /\ seen = Lesser(total, SampleTarget)
    /\ Finish("completed", offset, pages)
    /\ UNCHANGED <<rows, run, total, seen, offset, pages, sampled>>

SampleDone ==
    /\ step = "page" /\ ~GoOn
    /\ Finish("completed", offset, pages)
    /\ UNCHANGED <<rows, run, total, seen, offset, pages, sampled>>

ScanSource ==
    \/ CountFails \/ CountUnsupported \/ Counted \/ LegacyRead
    \/ ReadPage \/ PageFails \/ Deadline \/ SampleDone

SourceNext == Begin \/ ScanSource

SourceSpec == SourceInit /\ [][SourceNext]_sourceVars

\* asyncio.wait_for bounds every call to Odoo.
FairSourceSpec == SourceSpec /\ WF_sourceVars(ScanSource)

-----------------------------------------------------------------------------
(* Properties.                                                             *)

\* A source that says completed has its sample: the first SampleTarget rows
\* were all read, by this run or, resumed, by the runs before it - whatever
\* calls failed in between and whether or not Odoo could count every time.
CompletedHasSample ==
    result.complete => 0..(Lesser(rows, SampleTarget) - 1) \subseteq sampled

\* The engine's docstring: "never fetching a full large table in one call".
\* No run reads more than the sample rounded up to pages.
SampleIsBounded == seen < SampleTarget + PageSize

\* Every run returns.
RunReturns == step # "idle" ~> step = "idle"
=============================================================================
