---------------------------- MODULE SourceMapping ----------------------------
(***************************************************************************)
(* The table source_mappings and the admin calls that write it: PUT,       *)
(* disable, the confirmation of a SharePoint site, the e-mail group        *)
(* enrichment, the Odoo-SharePoint synchronisation; the rescan and the     *)
(* report gate, which only read it; and the migrations that EVERY one of   *)
(* these calls runs first, inside init_schema.                             *)
(*                                                                         *)
(* Each call works on the rows it has read and writes whole rows, with an  *)
(* await of PostgreSQL or Microsoft Graph between any two steps, so calls  *)
(* interleave anywhere.                                                    *)
(***************************************************************************)
EXTENDS MappingRules

CONSTANTS
    Calls,      \* admin calls and report submissions
    Verified,   \* projects whose rows the mapping file owns (PRJ-001, PRJ-002)
    Synced,     \* codes of rows made by the synchronisation (odoo-<id>)
    FileSite,   \* the file's site for a verified project
    FileMailbox,\* the file's group address
    Bodies,     \* what an admin may PUT
    DbFaults,   \* PostgreSQL statements may raise
    Restarts    \* bound: how often the server process may die

Codes == Verified \cup Synced

ASSUME SourceMappingAssumption ==
    /\ Verified \cap Synced = {}
    /\ FileSite \in [Verified -> Sites]
    /\ FileMailbox \in Mailboxes
    /\ Bodies \subseteq Body
    /\ DbFaults \in BOOLEAN
    /\ Restarts \in Nat

VARIABLES
    rows,     \* source_mappings
    call,     \* what each call is doing
    audited,  \* <<call, code>>: admin.source_mapping_changed events
    overtaken,\* history: rows changed since the call read them
    proposal, \* what the latest rescan said of one row
    restarts  \* how often the server process has died

vars == <<rows, call, audited, overtaken, proposal, restarts>>

-----------------------------------------------------------------------------
File(code) == FileBody(FileSite[code], FileMailbox)

Kinds == {"put", "disable", "confirm", "enrich", "sync", "rescan", "report"}

Steps == {"idle", "schema", "read", "audit", "graph", "event", "write", "done"}

Outcomes == {"none", "saved", "refused", "raised", "admitted", "lost"}

(* Kinds that name one row; the others list the table.                     *)
OneRow == {"put", "disable", "confirm", "report"}

NoPlan == [c \in {} |-> NoRow]

Idle == [kind |-> "none", step |-> "idle", code |-> "none",
         seen |-> NoPlan, plan |-> NoPlan, outcome |-> "none"]

NoProposal == [status |-> "none", sites |-> {}, strong |-> {}]

Present == {code \in Codes : rows[code] # NoRow}

Running(c) == call[c].step \notin {"idle", "done"}

Finish(c, outcome) ==
    call' = [call EXCEPT ![c] = [Idle EXCEPT !.step = "done", !.outcome = outcome]]

(* Writing rows marks them as overtaken for every other call at work.      *)
SetRows(table) ==
    /\ rows' = table
    /\ overtaken' =
         [c \in Calls |->
            IF call[c].step \in {"audit", "graph", "event", "write"}
            THEN overtaken[c] \cup {code \in Codes : table[code] # rows[code]}
            ELSE overtaken[c]]

-----------------------------------------------------------------------------
(* init_schema: seed an empty table from the file, then migrate the rows   *)
(* of the verified projects.  The statements commit one by one: a process  *)
(* that dies on the way has done it for some of the projects only.         *)
Seeded(table, codes) ==
    [code \in Codes |->
        IF code \in codes /\ Present = {}
        THEN [body |-> File(code), status |-> "complete"] ELSE table[code]]

MigratedRows(table, codes) ==
    [code \in Codes |->
        IF code \in codes /\ table[code] # NoRow
        THEN Migrated(table[code], File(code)) ELSE table[code]]

SchemaRows(seed, migrate) == MigratedRows(Seeded(rows, seed), migrate)

-----------------------------------------------------------------------------
Start(c, kind, code) ==
    call' = [call EXCEPT ![c].kind = kind, ![c].code = code, ![c].step = "schema"]

Begin(c) ==
    /\ call[c].step = "idle"
    /\ \/ \E kind \in OneRow, code \in Codes : Start(c, kind, code)
       \/ \E kind \in Kinds \ OneRow : Start(c, kind, "none")
    /\ UNCHANGED <<rows, audited, overtaken, proposal, restarts>>

InitSchema(c) ==
    /\ call[c].step = "schema"
    /\ SetRows(SchemaRows(Verified, Verified))
    /\ call' = [call EXCEPT ![c].step = "read"]
    /\ UNCHANGED <<audited, proposal, restarts>>

(* PUT reads nothing: the body is the caller's.                            *)
ReadPut(c) ==
    /\ call[c].step = "read" /\ call[c].kind = "put"
    /\ \E body \in Bodies :
         call' = [call EXCEPT
                    ![c].step = "event",
                    ![c].plan = [code \in {call[c].code} |->
                        [body |-> body, status |-> ComputedStatus(body)]]]
    /\ UNCHANGED <<rows, audited, overtaken, proposal, restarts>>

(* 404 without a row, 409 when it is disabled already.                     *)
ReadDisable(c) ==
    /\ call[c].step = "read" /\ call[c].kind = "disable"
    /\ LET row == rows[call[c].code]
       IN  IF row = NoRow \/ row.status = "disabled"
           THEN Finish(c, "refused")
           ELSE call' = [call EXCEPT
                   ![c].step = "event",
                   ![c].plan = [code \in {call[c].code} |->
                                   [row EXCEPT !.status = "disabled"]]]
    /\ UNCHANGED <<rows, audited, overtaken, proposal, restarts>>

(* 404 without a row, 409 when the row has another, real site.  Statuses   *)
(* are computed anew, so the confirmation of a disabled row enables it.    *)
(* A bug: only the site of a complete row counts as confirmed.             *)
OtherCompleteSite(row, site) ==
    row.status = "complete" /\ row.body.sharepoint # site

OtherSite(row, site) ==
    ~PlaceholderSite(row.body.sharepoint) /\ row.body.sharepoint # site

ReadConfirm(c) ==
    /\ call[c].step = "read" /\ call[c].kind = "confirm"
    /\ \E site \in Sites, mailboxes \in SUBSET Mailboxes :
         LET row  == rows[call[c].code]
             body == ConfirmedBody(row.body, site, mailboxes)
         IN  IF row = NoRow \/ OtherSite(row, site)
             THEN Finish(c, "refused")
             ELSE call' = [call EXCEPT
                     ![c].step = "event",
                     ![c].plan = [code \in {call[c].code} |->
                         [body |-> body, status |-> ComputedStatus(body)]]]
    /\ UNCHANGED <<rows, audited, overtaken, proposal, restarts>>

(* Enrichment, synchronisation and rescan list the table, log that they    *)
(* were started and ask Graph.                                             *)
ReadTable(c) ==
    /\ call[c].step = "read"
    /\ call[c].kind \in {"enrich", "sync", "rescan"}
    /\ call' = [call EXCEPT
                  ![c].step = "audit",
                  ![c].seen = [code \in Present |-> rows[code]]]
    /\ UNCHANGED <<rows, audited, overtaken, proposal, restarts>>

RecordRun(c) ==
    /\ call[c].step = "audit"
    /\ call' = [call EXCEPT ![c].step = "graph"]
    /\ UNCHANGED <<rows, audited, overtaken, proposal, restarts>>

-----------------------------------------------------------------------------
(* What Microsoft Graph and Odoo answer.                                   *)

WritePlan(c, plan) ==
    IF DOMAIN plan = {}
    THEN Finish(c, "saved")
    ELSE call' = [call EXCEPT ![c].step = "event", ![c].plan = plan]

(* No token, or one without the roles: nothing is written.                 *)
GraphBlocked(c) ==
    /\ call[c].step = "graph"
    /\ Finish(c, "refused")
    /\ UNCHANGED <<rows, audited, overtaken, proposal, restarts>>

(* enrich_email_groups: the projects asked for that had a row.             *)
EnrichGroups(c) ==
    /\ call[c].step = "graph" /\ call[c].kind = "enrich"
    /\ LET seen == call[c].seen
       IN  \E scope \in SUBSET (Verified \cap DOMAIN seen) :
           \E ms \in [scope -> UNION {EnrichmentResults(seen[code].body) : code \in scope}] :
             /\ \A code \in scope : ms[code] \in EnrichmentResults(seen[code].body)
             /\ WritePlan(c, [code \in scope |->
                    LET body == EnrichedBody(seen[code].body, ms[code])
                    IN  [body |-> body, status |-> ComputedStatus(body)]])
    /\ UNCHANGED <<rows, audited, overtaken, proposal, restarts>>

(* Every Odoo project whose name is the name of exactly one site, if the   *)
(* site has a drive and no row of the list was stored complete with it.    *)
(* Two Odoo projects of one name match the same site.                      *)
MatchSites(c) ==
    /\ call[c].step = "graph" /\ call[c].kind = "sync"
    /\ \E matched \in SUBSET Synced : \E site \in [matched -> Sites] :
         LET saved == {code \in matched :
                          site[code] \notin ConfirmedSites(call[c].seen)}
         IN  WritePlan(c, [code \in saved |->
                [body |-> SyncedBody(site[code]), status |-> "complete"]])
    /\ UNCHANGED <<rows, audited, overtaken, proposal, restarts>>

(* A rescan proposes a site for every row it listed and writes nothing.    *)
(* One row shows what it says: its own site when Graph reaches it, else a  *)
(* site found by name.                                                     *)
Propose(row, match, top, reachable) ==
    CASE row.status = "disabled" ->
            [status |-> "DISABLED", sites |-> {}, strong |-> {}]
      [] row.status # "disabled" /\ ~PlaceholderSite(row.body.sharepoint) ->
            [status |-> IF reachable THEN "AUTO_MAPPED" ELSE "NEEDS_CONFIRMATION",
             sites  |-> IF reachable THEN {row.body.sharepoint} ELSE {},
             strong |-> {row.body.sharepoint}]
      [] OTHER ->
            [status |-> Discovered(match, top),
             sites  |-> IF Discovered(match, top) = "AUTO_MAPPED"
                        THEN StrongIn(match, top) ELSE {},
             strong |-> StrongIn(match, Sites)]

Rescan(c) ==
    /\ call[c].step = "graph" /\ call[c].kind = "rescan"
    /\ \E code \in DOMAIN call[c].seen, match \in [Sites -> Strengths] :
       \E top \in Candidates(match), reachable \in BOOLEAN :
         proposal' = Propose(call[c].seen[code], match, top, reachable)
    /\ Finish(c, "saved")
    /\ UNCHANGED <<rows, audited, overtaken, restarts>>

-----------------------------------------------------------------------------
(* A bug: the event of the run is taken for the event of the change.       *)
RecordRunOnly(c) ==
    /\ call[c].step = "event"
    /\ \E code \in DOMAIN call[c].plan :
         /\ audited' = IF call[c].kind = "sync" THEN audited
                       ELSE audited \cup {<<c, code>>}
         /\ call' = [call EXCEPT ![c].step = "write", ![c].code = code]
    /\ UNCHANGED <<rows, overtaken, proposal, restarts>>

(* A-21: the event of a change comes before its write.                     *)
RecordChange(c) ==
    /\ call[c].step = "event"
    /\ \E code \in DOMAIN call[c].plan :
         /\ audited' = audited \cup {<<c, code>>}
         /\ call' = [call EXCEPT ![c].step = "write", ![c].code = code]
    /\ UNCHANGED <<rows, overtaken, proposal, restarts>>

(* Disabling updates one column, every other call the whole row.           *)
Written(c) ==
    IF call[c].kind = "disable"
    THEN [rows EXCEPT ![call[c].code].status = "disabled"]
    ELSE [rows EXCEPT ![call[c].code] = call[c].plan[call[c].code]]

WriteRow(c) ==
    /\ call[c].step = "write"
    /\ SetRows(Written(c))
    /\ LET left == DOMAIN call[c].plan \ {call[c].code}
       IN  WritePlan(c, [code \in left |-> call[c].plan[code]])
    /\ UNCHANGED <<audited, proposal, restarts>>

(* A-20: a report for a project whose stored status is not complete is     *)
(* refused, unless the table is empty.                                     *)
AdmitReport(c) ==
    /\ call[c].step = "read" /\ call[c].kind = "report"
    /\ LET row == rows[call[c].code]
       IN  Finish(c, IF Present = {} \/ row.status = "complete"
                     THEN "admitted" ELSE "refused")
    /\ UNCHANGED <<rows, audited, overtaken, proposal, restarts>>

-----------------------------------------------------------------------------
(* A statement raises: the call ends, with the statement done or not.  The *)
(* report gate lets the report through.                                    *)
SomeOfSchema(c) ==
    \/ \E seeded \in SUBSET Verified : SetRows(SchemaRows(seeded, {}))
    \/ \E migrated \in SUBSET Verified : SetRows(SchemaRows(Verified, migrated))

Raise(c) ==
    /\ DbFaults
    /\ call[c].step \in {"schema", "read", "audit", "event", "write"}
    /\ Finish(c, IF call[c].kind = "report" THEN "admitted" ELSE "raised")
    /\ \/ UNCHANGED <<rows, overtaken>>
       \/ call[c].step = "schema" /\ SomeOfSchema(c)
       \/ call[c].step = "write" /\ SetRows(Written(c))
    /\ UNCHANGED <<audited, proposal, restarts>>

(* The process dies: calls are lost, rows stay.                            *)
Restart ==
    /\ restarts < Restarts
    /\ restarts' = restarts + 1
    /\ call' = [c \in Calls |->
                  IF Running(c)
                  THEN [Idle EXCEPT !.step = "done", !.outcome = "lost"]
                  ELSE call[c]]
    /\ \/ UNCHANGED <<rows, overtaken>>
       \/ \E c \in Calls : call[c].step = "schema" /\ SomeOfSchema(c)
    /\ UNCHANGED <<audited, proposal>>

Init ==
    /\ rows = [code \in Codes |-> NoRow]
    /\ call = [c \in Calls |-> Idle]
    /\ audited = {}
    /\ overtaken = [c \in Calls |-> {}]
    /\ proposal = NoProposal
    /\ restarts = 0

ReadStep(c) ==
    ReadPut(c) \/ ReadDisable(c) \/ ReadConfirm(c) \/ ReadTable(c) \/ AdmitReport(c)

GraphStep(c) ==
    GraphBlocked(c) \/ EnrichGroups(c) \/ MatchSites(c) \/ Rescan(c)

CallStep(c) ==
    \/ Begin(c) \/ InitSchema(c) \/ ReadStep(c) \/ RecordRun(c) \/ GraphStep(c)
    \/ RecordChange(c) \/ WriteRow(c) \/ Raise(c)

Next == Restart \/ \E c \in Calls : CallStep(c)

Spec == Init /\ [][Next]_vars

-----------------------------------------------------------------------------
(* Types.                                                                  *)
MappingTypeOK ==
    /\ rows \in [Codes -> Row \cup {NoRow}]
    /\ \A c \in Calls :
         /\ call[c].kind \in Kinds \cup {"none"}
         /\ call[c].step \in Steps
         /\ call[c].outcome \in Outcomes
         /\ DOMAIN call[c].seen \subseteq Codes
         /\ DOMAIN call[c].plan \subseteq Codes
         /\ \A code \in DOMAIN call[c].plan : call[c].plan[code] \in Row
    /\ audited \subseteq Calls \X Codes
    /\ overtaken \in [Calls -> SUBSET Codes]
    /\ restarts \in 0..Restarts

(* A stored status is what the columns earn, or "disabled": a report gate  *)
(* that trusts it judges the row.  Only the row of a verified project with *)
(* group data is exempt: the migration rewrites its coordinates and leaves *)
(* its status.                                                             *)
StoredStatusIsComputed ==
    \A code \in Present :
        \/ code \in Verified /\ rows[code].body.microsoft.status \in Enriched
        \/ rows[code].status \in {"disabled", ComputedStatus(rows[code].body)}

(* Call c takes the step that writes the row of code.                      *)
Writes(c, code) ==
    /\ call[c].step = "write" /\ call[c].code = code
    /\ call'[c] # call[c] /\ call'[c].outcome # "lost"

(* A-21: no step changes a row without the event of the call that does it, *)
(* the migration of the verified projects apart.                           *)
ChangesAudited ==
    [][\A code \in Codes : rows'[code] # rows[code] =>
          \/ \E c \in Calls : Writes(c, code) /\ <<c, code>> \in audited
          \/ code \in Verified /\ \E c \in Calls : call[c].step = "schema"]_vars

(* A confirmation replaces a confirmed site only if the row changed after  *)
(* the confirmation had read it.                                           *)
ConfirmKeepsSite ==
    [][\A c \in Calls, code \in Codes :
          (Writes(c, code) /\ call[c].kind = "confirm" /\ code \notin overtaken[c])
          => \/ PlaceholderSite(rows[code].body.sharepoint)
             \/ rows'[code].body.sharepoint = rows[code].body.sharepoint]_vars

(* The synchronisation does not give a project the site of another row     *)
(* stored complete, unless that row changed after the list was read.       *)
SyncTakesFreeSites ==
    [][\A c \in Calls, code \in Codes :
          (Writes(c, code) /\ call[c].kind = "sync" /\ rows' # rows)
          => \A other \in Present \ (overtaken[c] \cup {code}) :
                rows[other].status = "complete" =>
                    rows[other].body.sharepoint # rows'[code].body.sharepoint]_vars

(* The enrichment writes a whole row, yet what an admin entered in it      *)
(* (name, site, Odoo project) stays, unless it was entered while Graph     *)
(* was asked.                                                              *)
Entered(row) == <<row.body.project_name, row.body.sharepoint, row.body.odoo>>

EnrichmentKeepsEntries ==
    [][\A c \in Calls, code \in Codes :
          (Writes(c, code) /\ call[c].kind = "enrich" /\ code \notin overtaken[c])
          => Entered(rows'[code]) = Entered(rows[code])]_vars

(* A rescan calls a mapping automatic only for the row's own site or the   *)
(* one strong match among ALL sites, though it looks closely at a few.     *)
RescanPicksUnique ==
    proposal.status = "AUTO_MAPPED" =>
        proposal.sites = proposal.strong /\ Cardinality(proposal.sites) = 1

(* UI contract: a disabled mapping blocks reports until it is re-enabled:  *)
(* only a PUT or a confirmation of the row enables it.                     *)
DisabledUntilSaved ==
    [][\A code \in Present :
          (rows[code].status = "disabled" /\ rows'[code].status # "disabled")
          => \E c \in Calls : /\ call[c].kind \in {"put", "confirm"}
                              /\ call[c].step = "write" /\ call[c].code = code]_vars
=============================================================================
