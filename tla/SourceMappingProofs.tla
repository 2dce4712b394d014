------------------------- MODULE SourceMappingProofs -------------------------
(***************************************************************************)
(* Proofs about SourceMapping, for any number of admin calls and reports,  *)
(* any projects, sites, mailboxes and placeholders, any mapping file and   *)
(* any bodies put, with raising statements and any number of restarts.     *)
(***************************************************************************)
EXTENDS SourceMapping, FiniteSetTheorems, TLAPS

-----------------------------------------------------------------------------
(* The rules about one row.                                                *)

\* What the assumptions say of the constants.
LEMMA MappingConstants ==
    /\ "" \notin Sites \cup Mailboxes \cup Placeholders
    /\ Placeholders \cap (Sites \cup Mailboxes \cup {"name", "other name", "folder"}) = {}
    /\ IsFiniteSet(Sites) /\ TopCandidates \in Nat /\ TopCandidates >= 2
    /\ FileSite \in [Verified -> Sites] /\ FileMailbox \in Mailboxes
    /\ Bodies \subseteq Body /\ DbFaults \in BOOLEAN /\ Restarts \in Nat
BY MappingRulesAssumption, SourceMappingAssumption

\* compute_status gives one of two statuses.
LEMMA ComputedIsStatus ==
    ASSUME NEW body PROVE ComputedStatus(body) \in {"complete", "incomplete"}
BY DEF ComputedStatus

\* The mapping file gives bodies.
LEMMA FileBodyType ==
    ASSUME NEW code \in Verified
    PROVE  /\ File(code) \in Body
           /\ File(code).microsoft.status \in Enriched
<1>1. FileSite[code] \in Sites /\ FileMailbox \in Mailboxes
  BY MappingConstants
<1>2. File(code).microsoft \in Microsoft
  BY <1>1 DEF File, FileBody, Microsoft, Texts, GroupStatus, Enriched
<1>3. QED
  BY <1>1, <1>2 DEF File, FileBody, Body, Texts, OdooIds, Sources, Enriched

\* confirm_microsoft writes a body with the site it was given.
LEMMA ConfirmedBodyType ==
    ASSUME NEW body \in Body, NEW site \in Sites, NEW mailboxes \in SUBSET Mailboxes
    PROVE  /\ ConfirmedBody(body, site, mailboxes) \in Body
           /\ ConfirmedBody(body, site, mailboxes).sharepoint = site
BY DEF ConfirmedBody, Body, Texts

\* E-mail group enrichment leaves the name, the site and the Odoo part alone.
LEMMA EnrichedBodyType ==
    ASSUME NEW body \in Body, NEW ms \in EnrichmentResults(body)
    PROVE  /\ EnrichedBody(body, ms) \in Body
           /\ EnrichedBody(body, ms).project_name = body.project_name
           /\ EnrichedBody(body, ms).sharepoint = body.sharepoint
           /\ EnrichedBody(body, ms).odoo = body.odoo
<1>1. ms \in Microsoft
  <2>1. NoGroup("NO_SHAREPOINT_SITE") \in Microsoft /\ NoGroup("NO_GROUP_SOURCE") \in Microsoft
    BY DEF NoGroup, NoMicrosoft, Microsoft, Texts, GroupStatus
  <2>2. ASSUME NEW mail \in Mailboxes \cup {""}, NEW enabled \in BOOLEAN,
               NEW members \in SUBSET Mailboxes
        PROVE  GroupFound(mail, enabled, members) \in Microsoft
    BY DEF GroupFound, RealEmail, Microsoft, Texts, GroupStatus, Enriched
  <2>3. \/ ms \in {NoGroup("NO_SHAREPOINT_SITE"), NoGroup("NO_GROUP_SOURCE")}
        \/ \E g \in [mail : Mailboxes \cup {""}, enabled : BOOLEAN,
                     members : SUBSET Mailboxes] :
              ms = GroupFound(g.mail, g.enabled, g.members)
    BY DEF EnrichmentResults
  <2>4. QED
    BY <2>1, <2>2, <2>3
<1>2. ms.members \in SUBSET Mailboxes
  BY <1>1 DEF Microsoft
<1>3. QED
  BY <1>1, <1>2 DEF EnrichedBody, Body, Texts, Sources

\* The status a synchronisation stores is the one its body earns.
LEMMA SyncedBodyType ==
    ASSUME NEW site \in Sites
    PROVE  /\ SyncedBody(site) \in Body /\ SyncedBody(site).sharepoint = site
           /\ ComputedStatus(SyncedBody(site)) = "complete"
<1>1. SyncedBody(site) \in Body
  <2>1. NoMicrosoft \in Microsoft
    BY DEF NoMicrosoft, Microsoft, Texts, GroupStatus
  <2>2. QED
    BY <2>1 DEF SyncedBody, Body, Texts, OdooIds, Sources
<1>2. ValidationErrors(SyncedBody(site)) = {}
  <2> DEFINE b == SyncedBody(site)
  <2>1. /\ b.project_name = "name" /\ b.sharepoint = site /\ b.owncloud = ""
        /\ b.mailboxes = {} /\ b.microsoft.mail = "" /\ ~b.microsoft.blockers
        /\ b.odoo.id = "number" /\ b.odoo.name = "name"
        /\ b.enabled_sources = {"sharepoint", "odoo"}
    BY DEF SyncedBody, NoMicrosoft
  <2> HIDE DEF b
  <2>2. ~HasPlaceholder(b) /\ site # ""
    BY <2>1, MappingConstants DEF HasPlaceholder
  <2>3. OdooErrors(b) = {}
    BY <2>1 DEF OdooErrors
  <2>4. ValidationErrors(b) = {}
    BY <2>1, <2>2, <2>3 DEF ValidationErrors
  <2>5. QED
    BY <2>4 DEF b
<1>3. QED
  BY <1>1, <1>2 DEF SyncedBody, ComputedStatus

\* The migration keeps the status of a row with group data, and gives every
\* other row group data.
LEMMA MigratedRow ==
    ASSUME NEW row \in Row, NEW code \in Verified
    PROVE  /\ Migrated(row, File(code)) \in Row
           /\ Migrated(row, File(code)).body.microsoft.status \in Enriched
<1> DEFINE file == File(code)
<1>1. file \in Body /\ file.microsoft.status \in Enriched
  BY FileBodyType
<1> HIDE DEF file
<1> DEFINE coordinates ==
        [row.body EXCEPT !.project_name = file.project_name,
                         !.sharepoint = file.sharepoint,
                         !.owncloud = file.owncloud,
                         !.mailboxes = file.mailboxes,
                         !.odoo = file.odoo]
<1>2. row.body \in Body /\ row.status \in Statuses
  BY DEF Row
<1>3. coordinates \in Body /\ coordinates.microsoft = row.body.microsoft
  BY <1>1, <1>2 DEF Body
<1>4. CASE row.body.microsoft.status \in Enriched
  <2>1. Migrated(row, file) = [row EXCEPT !.body = coordinates]
    BY <1>4 DEF Migrated
  <2> HIDE DEF coordinates
  <2>2. QED
    BY <1>3, <1>4, <2>1 DEF Row, file
<1>5. CASE row.body.microsoft.status \notin Enriched
  <2>1. Migrated(row, file) = [body |-> [coordinates EXCEPT
                                            !.microsoft = file.microsoft,
                                            !.enabled_sources = file.enabled_sources],
                               status |-> "complete"]
    BY <1>5 DEF Migrated
  <2> HIDE DEF coordinates
  <2> DEFINE body == [coordinates EXCEPT !.microsoft = file.microsoft,
                                         !.enabled_sources = file.enabled_sources]
  <2>2. body \in Body /\ body.microsoft = file.microsoft
    BY <1>1, <1>3 DEF Body
  <2> HIDE DEF body
  <2>3. Migrated(row, file) = [body |-> body, status |-> "complete"]
    BY <2>1 DEF body
  <2>4. QED
    BY <1>1, <2>2, <2>3 DEF Row, Statuses, file
<1>6. QED
  BY <1>4, <1>5

\* The one strong match among the sites looked at is the only one among all
\* sites: a strong site comes before every other one, and at least two are
\* looked at when there are two.
LEMMA StrongestIsUnique ==
    ASSUME NEW match \in [Sites -> Strengths], NEW top \in Candidates(match),
           Cardinality(StrongIn(match, top)) = 1
    PROVE  StrongIn(match, top) = StrongIn(match, Sites)
<1> DEFINE scored == {s \in Sites : match[s] # "none"}
<1>1. /\ top \subseteq scored /\ IsFiniteSet(scored) /\ IsFiniteSet(top)
      /\ Cardinality(top) = IF Cardinality(scored) < TopCandidates
                            THEN Cardinality(scored) ELSE TopCandidates
      /\ \A s \in top, t \in scored \ top : Rank(match[s]) <= Rank(match[t])
  <2>1. DOMAIN match = Sites
    OBVIOUS
  <2>2. /\ top \subseteq scored
        /\ Cardinality(top) = IF Cardinality(scored) < TopCandidates
                              THEN Cardinality(scored) ELSE TopCandidates
        /\ \A s \in top, t \in scored \ top : Rank(match[s]) <= Rank(match[t])
    BY <2>1 DEF Candidates
  <2>3. IsFiniteSet(scored)
    BY MappingConstants, FS_Subset
  <2> HIDE DEF scored
  <2>4. QED
    BY <2>2, <2>3, FS_Subset
<1>2. ASSUME NEW t \in StrongIn(match, Sites), t \notin top
      PROVE  FALSE
  <2>1. t \in scored \ top /\ match[t] = "strong"
    BY <1>2 DEF StrongIn
  <2>2. ASSUME NEW s \in top PROVE match[s] = "strong"
    <3>1. Rank(match[s]) <= Rank("strong") /\ match[s] \in Strengths
      BY <1>1, <2>1, <2>2
    <3>2. QED
      BY <3>1 DEF Rank, Strengths
  <2>3. StrongIn(match, top) = top
    BY <2>2 DEF StrongIn
  <2> HIDE DEF scored
  <2>4. Cardinality(scored) \in Nat /\ Cardinality(top) = 1
    BY <1>1, <2>3, FS_CardinalityType
  <2>5. Cardinality(scored) = Cardinality(top)
    <3>1. TopCandidates \in Nat /\ TopCandidates >= 2
      BY MappingConstants
    <3>2. Cardinality(top) = IF Cardinality(scored) < TopCandidates
                             THEN Cardinality(scored) ELSE TopCandidates
      BY <1>1
    <3>3. QED
      BY <2>4, <3>1, <3>2
  <2>6. scored = top
    BY <1>1, <2>5, FS_Subset
  <2>7. QED
    BY <2>1, <2>6
<1>3. QED
  BY <1>1, <1>2 DEF StrongIn

\* What the rescan maps by itself is the only strong candidate.
LEMMA ProposalIsUnique ==
    ASSUME NEW row \in Row, NEW match \in [Sites -> Strengths],
           NEW top \in Candidates(match), NEW reachable \in BOOLEAN,
           Propose(row, match, top, reachable).status = "AUTO_MAPPED"
    PROVE  LET said == Propose(row, match, top, reachable)
           IN  said.sites = said.strong /\ Cardinality(said.sites) = 1
<1> DEFINE said == Propose(row, match, top, reachable)
<1>1. CASE row.status = "disabled"
  BY <1>1 DEF Propose
<1>2. CASE row.status # "disabled" /\ ~PlaceholderSite(row.body.sharepoint)
  <2>1. said = [status |-> IF reachable THEN "AUTO_MAPPED" ELSE "NEEDS_CONFIRMATION",
                sites  |-> IF reachable THEN {row.body.sharepoint} ELSE {},
                strong |-> {row.body.sharepoint}]
    BY <1>2 DEF Propose
  <2>2. said.sites = {row.body.sharepoint} /\ said.strong = {row.body.sharepoint}
    BY <2>1
  <2>3. QED
    BY <2>2, FS_Singleton
<1>3. CASE row.status # "disabled" /\ PlaceholderSite(row.body.sharepoint)
  <2>1. said = [status |-> Discovered(match, top),
                sites  |-> IF Discovered(match, top) = "AUTO_MAPPED"
                           THEN StrongIn(match, top) ELSE {},
                strong |-> StrongIn(match, Sites)]
    BY <1>3 DEF Propose
  <2>2. Discovered(match, top) = "AUTO_MAPPED"
    BY <2>1
  <2>3. Cardinality(StrongIn(match, top)) = 1
    BY <2>2 DEF Discovered
  <2>4. StrongIn(match, top) = StrongIn(match, Sites)
    BY <2>3, StrongestIsUnique
  <2>5. QED
    BY <2>1, <2>2, <2>3, <2>4
<1>4. QED
  BY <1>1, <1>2, <1>3

-----------------------------------------------------------------------------
(* The inductive invariant.                                                *)

Tables == UNION {[codes -> Row] : codes \in SUBSET Codes}

CallState ==
    [kind : Kinds \cup {"none"}, step : Steps, code : Codes \cup {"none"},
     seen : Tables, plan : Tables, outcome : Outcomes]

Typed ==
    /\ rows \in [Codes -> Row \cup {NoRow}]
    /\ call \in [Calls -> CallState]
    /\ audited \subseteq Calls \X Codes
    /\ overtaken \in [Calls -> SUBSET Codes]
    /\ restarts \in 0..Restarts

\* A stored status is what the columns earn, or "disabled", or it is the
\* migration's.
Earned(code, row) ==
    \/ code \in Verified /\ row.body.microsoft.status \in Enriched
    \/ row.status \in {"disabled", ComputedStatus(row.body)}

AllEarned(table) == \A code \in Codes : table[code] # NoRow => Earned(code, table[code])

AtWork == {"audit", "graph", "event", "write"}

\* A call under way has no outcome; one that names a row names a code; and
\* what it is about to write has been planned and announced.
Orderly(c) ==
    /\ call[c].step # "done" => call[c].outcome = "none"
    /\ call[c].kind \in OneRow => call[c].code \in Codes
    /\ call[c].step = "write" =>
          call[c].code \in DOMAIN call[c].plan /\ <<c, call[c].code>> \in audited

\* The list a call has read is the table, but for what was written since.
Fresh(c) ==
    call[c].step \in {"audit", "graph"} =>
        \A code \in Codes \ overtaken[c] :
            rows[code] = IF code \in DOMAIN call[c].seen THEN call[c].seen[code] ELSE NoRow

\* No other row is stored complete with this site, but for what was written
\* since.
FreeSite(c, code, site) ==
    \A other \in Codes \ (overtaken[c] \cup {code}) :
        rows[other] # NoRow /\ rows[other].status = "complete" =>
            rows[other].body.sharepoint # site

\* What a call of this kind plans for a row, against the row as it is now.
Sound(c, kind, code, row) ==
    /\ IF kind = "disable" THEN rows[code] # NoRow
       ELSE row.status = ComputedStatus(row.body)
    /\ kind = "confirm" /\ code \notin overtaken[c] =>
          \/ PlaceholderSite(rows[code].body.sharepoint)
          \/ row.body.sharepoint = rows[code].body.sharepoint
    /\ kind = "enrich" /\ code \notin overtaken[c] => Entered(row) = Entered(rows[code])
    /\ kind = "sync" => FreeSite(c, code, row.body.sharepoint)

Planned(c) ==
    call[c].step \in {"event", "write"} =>
        \A code \in DOMAIN call[c].plan : Sound(c, call[c].kind, code, call[c].plan[code])

CallInv(c) == Orderly(c) /\ Fresh(c) /\ Planned(c)

MappingInv ==
    /\ Typed /\ AllEarned(rows)
    /\ RescanPicksUnique
    /\ \A c \in Calls : CallInv(c)

\* The absence of a row is no row.
LEMMA NoRowIsNoRow == NoRow \notin Row
BY DEF NoRow, Row, Statuses

\* What a call carries has its type.
LEMMA CallFields ==
    ASSUME Typed, NEW c \in Calls
    PROVE  /\ call[c] \in CallState /\ overtaken[c] \in SUBSET Codes
           /\ call[c].plan \in Tables /\ call[c].seen \in Tables
           /\ DOMAIN call[c].plan \subseteq Codes /\ DOMAIN call[c].seen \subseteq Codes
           /\ \A code \in DOMAIN call[c].plan : call[c].plan[code] \in Row
           /\ \A code \in DOMAIN call[c].seen : call[c].seen[code] \in Row
BY DEF Typed, CallState, Tables

\* The rows a step changes are marked as overtaken for every call at work,
\* and no row is ever deleted.
RowsKept ==
    /\ rows' \in [Codes -> Row \cup {NoRow}]
    /\ overtaken' \in [Calls -> SUBSET Codes]
    /\ AllEarned(rows')
    /\ \A code \in Codes : rows[code] # NoRow => rows'[code] # NoRow
    /\ \A d \in Calls :
         /\ overtaken[d] \subseteq overtaken'[d]
         /\ call[d].step \in AtWork =>
               \A code \in Codes \ overtaken'[d] : rows'[code] = rows[code]

\* A step that writes no row keeps what is said of rows.
LEMMA NoRowsWritten ==
    ASSUME MappingInv, UNCHANGED <<rows, overtaken>>
    PROVE  RowsKept
BY DEF MappingInv, Typed, RowsKept

\* So does a step that writes earned statuses and deletes nothing.
LEMMA RowsSet ==
    ASSUME MappingInv, NEW table \in [Codes -> Row \cup {NoRow}], AllEarned(table),
           \A code \in Codes : rows[code] # NoRow => table[code] # NoRow,
           SetRows(table)
    PROVE  RowsKept /\ rows' = table
<1>1. /\ rows' = table
      /\ overtaken' =
           [d \in Calls |->
              IF call[d].step \in AtWork
              THEN overtaken[d] \cup {code \in Codes : table[code] # rows[code]}
              ELSE overtaken[d]]
  BY DEF SetRows, AtWork
<1>2. overtaken \in [Calls -> SUBSET Codes]
  BY DEF MappingInv, Typed
<1>3. overtaken' \in [Calls -> SUBSET Codes]
  BY <1>1, <1>2
<1>4. ASSUME NEW d \in Calls
      PROVE  /\ overtaken[d] \subseteq overtaken'[d]
             /\ call[d].step \in AtWork =>
                   \A code \in Codes \ overtaken'[d] : rows'[code] = rows[code]
  BY <1>1, <1>2
<1>5. QED
  BY <1>1, <1>3, <1>4 DEF RowsKept

\* What is planned stays sound while rows change and are overtaken.
LEMMA SoundStays ==
    ASSUME RowsKept, NEW d \in Calls, call[d].step \in AtWork,
           NEW kind, NEW code \in Codes, NEW row, Sound(d, kind, code, row)
    PROVE  Sound(d, kind, code, row)'
<1>1. /\ overtaken[d] \subseteq overtaken'[d]
      /\ \A other \in Codes \ overtaken'[d] : rows'[other] = rows[other]
      /\ \A other \in Codes : rows[other] # NoRow => rows'[other] # NoRow
  BY DEF RowsKept
<1>2. IF kind = "disable" THEN rows'[code] # NoRow
      ELSE row.status = ComputedStatus(row.body)
  BY <1>1 DEF Sound
<1>3. code \notin overtaken'[d] => code \notin overtaken[d] /\ rows'[code] = rows[code]
  BY <1>1
<1>4. kind = "confirm" /\ code \notin overtaken'[d] =>
          \/ PlaceholderSite(rows'[code].body.sharepoint)
          \/ row.body.sharepoint = rows'[code].body.sharepoint
  BY <1>3 DEF Sound
<1>5. kind = "enrich" /\ code \notin overtaken'[d] => Entered(row) = Entered(rows'[code])
  BY <1>3 DEF Sound
<1>6. kind = "sync" => FreeSite(d, code, row.body.sharepoint)'
  BY <1>1 DEF Sound, FreeSite
<1>7. QED
  BY <1>2, <1>4, <1>5, <1>6 DEF Sound

\* What holds of a call holds as long as others move.
LEMMA Bystander ==
    ASSUME MappingInv, RowsKept, audited \subseteq audited',
           NEW d \in Calls, call'[d] = call[d]
    PROVE  CallInv(d)'
<1>1. CallInv(d)
  BY DEF MappingInv
<1>2. /\ overtaken[d] \subseteq overtaken'[d]
      /\ call[d].step \in AtWork =>
            \A code \in Codes \ overtaken'[d] : rows'[code] = rows[code]
      /\ \A code \in Codes : rows[code] # NoRow => rows'[code] # NoRow
  BY DEF RowsKept
<1>3. Orderly(d)'
  BY <1>1 DEF CallInv, Orderly
<1>4. Fresh(d)'
  BY <1>1, <1>2 DEF CallInv, Fresh, AtWork
<1>5. Planned(d)'
  <2> SUFFICES ASSUME call[d].step \in {"event", "write"}, NEW code \in DOMAIN call[d].plan
               PROVE  Sound(d, call[d].kind, code, call[d].plan[code])'
    BY DEF Planned
  <2>1. /\ Sound(d, call[d].kind, code, call[d].plan[code])
        /\ code \in Codes /\ call[d].step \in AtWork
    <3>1. DOMAIN call[d].plan \subseteq Codes
      BY CallFields DEF MappingInv
    <3>2. QED
      BY <1>1, <3>1 DEF CallInv, Planned, AtWork
  <2>2. QED
    BY <1>2, <2>1, SoundStays
<1>6. QED
  BY <1>3, <1>4, <1>5 DEF CallInv

\* A step of one call that leaves it in order.
LEMMA OneMoves ==
    ASSUME MappingInv, RowsKept, audited \subseteq audited', audited' \subseteq Calls \X Codes,
           restarts' = restarts, RescanPicksUnique',
           NEW c \in Calls, NEW state \in CallState, call' = [call EXCEPT ![c] = state],
           CallInv(c)'
    PROVE  MappingInv'
<1>1. Typed'
  BY DEF MappingInv, Typed, RowsKept
<1>2. AllEarned(rows)'
  BY DEF RowsKept, AllEarned, Earned
<1>3. ASSUME NEW d \in Calls PROVE CallInv(d)'
  <2>1. CASE d = c
    BY <2>1
  <2>2. CASE d # c
    <3>1. call'[d] = call[d]
      BY <2>2 DEF MappingInv, Typed
    <3>2. QED
      BY <3>1, Bystander
  <2>3. QED
    BY <2>1, <2>2
<1>4. QED
  BY <1>1, <1>2, <1>3 DEF MappingInv

-----------------------------------------------------------------------------
(* The steps.                                                              *)

\* An empty table satisfies the invariant.
LEMMA InitMapping == Init => MappingInv
<1> SUFFICES ASSUME Init PROVE MappingInv
  OBVIOUS
<1>1. Idle \in CallState
  <2>1. NoPlan \in [{} -> Row] /\ {} \in SUBSET Codes
    BY DEF NoPlan
  <2>2. NoPlan \in Tables
    BY <2>1 DEF Tables
  <2>3. QED
    BY <2>2 DEF Idle, CallState, Kinds, Steps, Outcomes
<1>2. Typed
  <2>1. rows \in [Codes -> Row \cup {NoRow}] /\ call \in [Calls -> CallState]
    BY <1>1 DEF Init
  <2>2. restarts \in 0..Restarts
    <3>1. Restarts \in Nat
      BY MappingConstants
    <3>2. QED
      BY <3>1 DEF Init
  <2>3. audited \subseteq Calls \X Codes /\ overtaken \in [Calls -> SUBSET Codes]
    BY DEF Init
  <2>4. QED
    BY <2>1, <2>2, <2>3 DEF Typed
<1>3. AllEarned(rows) /\ RescanPicksUnique
  BY DEF Init, AllEarned, RescanPicksUnique, NoProposal
<1>4. ASSUME NEW c \in Calls PROVE CallInv(c)
  BY DEF Init, Idle, CallInv, Orderly, OneRow, Fresh, Planned
<1>5. QED
  BY <1>2, <1>3, <1>4 DEF MappingInv

\* A call that ends carries nothing but its outcome.
LEMMA Ended ==
    ASSUME NEW outcome \in Outcomes
    PROVE  LET over == [Idle EXCEPT !.step = "done", !.outcome = outcome]
           IN  /\ over \in CallState /\ over.step = "done" /\ over.kind = "none"
               /\ over.outcome = outcome
<1>1. NoPlan \in [{} -> Row] /\ {} \in SUBSET Codes
  BY DEF NoPlan
<1>2. NoPlan \in Tables
  BY <1>1 DEF Tables
<1>3. QED
  BY <1>2 DEF Idle, CallState, Kinds, Steps, Outcomes

\* A call that ends, whatever it has done to the rows.
LEMMA FinishKeeps ==
    ASSUME MappingInv, RowsKept, UNCHANGED <<audited, restarts>>, RescanPicksUnique',
           NEW c \in Calls, NEW outcome \in Outcomes, Finish(c, outcome)
    PROVE  MappingInv'
<1> DEFINE over == [Idle EXCEPT !.step = "done", !.outcome = outcome]
<1>1. over \in CallState /\ over.step = "done" /\ over.kind = "none"
  BY Ended
<1>2. call' = [call EXCEPT ![c] = over]
  BY DEF Finish
<1> HIDE DEF over
<1>3. call'[c] = over
  BY <1>2 DEF MappingInv, Typed
<1>4. CallInv(c)'
  BY <1>1, <1>3 DEF CallInv, Orderly, OneRow, Fresh, Planned
<1>5. audited' \subseteq Calls \X Codes /\ audited \subseteq audited'
  BY DEF MappingInv, Typed
<1>6. QED
  BY <1>1, <1>2, <1>4, <1>5, OneMoves

\* A call that goes on with a plan, or ends when nothing is left to write.
LEMMA PlanKeeps ==
    ASSUME MappingInv, RowsKept, UNCHANGED <<audited, restarts>>, RescanPicksUnique',
           NEW c \in Calls, call[c].step # "done", NEW plan \in Tables, WritePlan(c, plan),
           NEW kind, kind = call[c].kind,
           \A code \in DOMAIN plan : Sound(c, kind, code, plan[code])'
    PROVE  MappingInv'
<1>1. CASE DOMAIN plan = {}
  BY <1>1, FinishKeeps DEF WritePlan, Outcomes
<1>2. CASE DOMAIN plan # {}
  <2> DEFINE state == [call[c] EXCEPT !.step = "event", !.plan = plan]
  <2>1. call' = [call EXCEPT ![c] = state]
    BY <1>2 DEF WritePlan
  <2>2. /\ state \in CallState /\ state.step = "event" /\ state.plan = plan
        /\ state.kind = call[c].kind /\ state.code = call[c].code
        /\ state.outcome = call[c].outcome
    BY CallFields DEF MappingInv, CallState, Steps
  <2> HIDE DEF state
  <2>3. call'[c] = state
    BY <2>1 DEF MappingInv, Typed
  <2>4. Orderly(c)'
    BY <2>2, <2>3 DEF MappingInv, CallInv, Orderly
  <2>5. Fresh(c)'
    BY <2>2, <2>3 DEF Fresh
  <2>6. Planned(c)'
    BY <2>2, <2>3 DEF Planned
  <2>7. audited' \subseteq Calls \X Codes /\ audited \subseteq audited'
    BY DEF MappingInv, Typed
  <2>8. QED
    BY <2>1, <2>2, <2>4, <2>5, <2>6, <2>7, OneMoves DEF CallInv
<1>3. QED
  BY <1>1, <1>2

\* Seeding inserts earned rows and touches no other.
LEMMA SeededType ==
    ASSUME NEW table \in [Codes -> Row \cup {NoRow}], AllEarned(table), table = rows,
           NEW codes \in SUBSET Verified
    PROVE  LET seeded == Seeded(table, codes)
           IN  /\ seeded \in [Codes -> Row \cup {NoRow}] /\ AllEarned(seeded)
               /\ \A code \in Codes : /\ table[code] # NoRow => seeded[code] = table[code]
                                      /\ code \notin codes => seeded[code] = table[code]
<1> DEFINE seeded == Seeded(table, codes)
<1>1. ASSUME NEW code \in Codes
      PROVE  /\ seeded[code] \in Row \cup {NoRow}
             /\ seeded[code] # NoRow => Earned(code, seeded[code])
             /\ table[code] # NoRow => seeded[code] = table[code]
             /\ code \notin codes => seeded[code] = table[code]
  <2>1. seeded[code] = IF code \in codes /\ Present = {}
                       THEN [body |-> File(code), status |-> "complete"] ELSE table[code]
    BY DEF Seeded
  <2>2. CASE code \in codes /\ Present = {}
    <3>1. /\ seeded[code] = [body |-> File(code), status |-> "complete"]
          /\ code \in Verified /\ table[code] = NoRow
      BY <2>1, <2>2 DEF Present
    <3>2. File(code) \in Body /\ File(code).microsoft.status \in Enriched
      BY <3>1, FileBodyType
    <3>3. QED
      BY <2>2, <3>1, <3>2 DEF Row, Statuses, Earned
  <2>3. CASE ~(code \in codes /\ Present = {})
    BY <2>1, <2>3 DEF AllEarned
  <2>4. QED
    BY <2>2, <2>3
<1>2. seeded \in [Codes -> Row \cup {NoRow}]
  <2>1. seeded = [code \in Codes |-> seeded[code]]
    BY DEF Seeded
  <2> HIDE DEF seeded
  <2>2. QED
    BY <1>1, <2>1
<1> HIDE DEF seeded
<1>3. QED
  BY <1>1, <1>2 DEF AllEarned, seeded

\* So does the start-up migration of the rows it concerns.
LEMMA MigratedType ==
    ASSUME NEW table \in [Codes -> Row \cup {NoRow}], AllEarned(table),
           NEW codes \in SUBSET Verified
    PROVE  LET migrated == MigratedRows(table, codes)
           IN  /\ migrated \in [Codes -> Row \cup {NoRow}] /\ AllEarned(migrated)
               /\ \A code \in Codes : /\ table[code] # NoRow => migrated[code] # NoRow
                                      /\ code \notin codes => migrated[code] = table[code]
<1> DEFINE migrated == MigratedRows(table, codes)
<1>1. ASSUME NEW code \in Codes
      PROVE  /\ migrated[code] \in Row \cup {NoRow}
             /\ migrated[code] # NoRow => Earned(code, migrated[code])
             /\ table[code] # NoRow => migrated[code] # NoRow
             /\ code \notin codes => migrated[code] = table[code]
  <2>1. migrated[code] = IF code \in codes /\ table[code] # NoRow
                         THEN Migrated(table[code], File(code)) ELSE table[code]
    BY DEF MigratedRows
  <2>2. CASE code \in codes /\ table[code] # NoRow
    <3>1. migrated[code] = Migrated(table[code], File(code)) /\ code \in Verified
      BY <2>1, <2>2
    <3>2. migrated[code] \in Row /\ migrated[code].body.microsoft.status \in Enriched
      BY <2>2, <3>1, MigratedRow
    <3>3. QED
      BY <2>2, <3>1, <3>2, NoRowIsNoRow DEF Earned
  <2>3. CASE ~(code \in codes /\ table[code] # NoRow)
    BY <2>1, <2>3 DEF AllEarned
  <2>4. QED
    BY <2>2, <2>3
<1>2. migrated \in [Codes -> Row \cup {NoRow}]
  <2>1. migrated = [code \in Codes |-> migrated[code]]
    BY DEF MigratedRows
  <2> HIDE DEF migrated
  <2>2. QED
    BY <1>1, <2>1
<1> HIDE DEF migrated
<1>3. QED
  BY <1>1, <1>2 DEF AllEarned, migrated

\* init_schema, complete or cut short, keeps every row and every earned status,
\* and touches the verified projects only.
LEMMA SchemaKeeps ==
    ASSUME MappingInv, NEW seed \in SUBSET Verified, NEW migrate \in SUBSET Verified,
           SetRows(SchemaRows(seed, migrate))
    PROVE  RowsKept /\ \A code \in Codes : rows'[code] # rows[code] => code \in Verified
<1>1. rows \in [Codes -> Row \cup {NoRow}] /\ AllEarned(rows)
  BY DEF MappingInv, Typed
<1> DEFINE seeded == Seeded(rows, seed)
<1>2. /\ seeded \in [Codes -> Row \cup {NoRow}] /\ AllEarned(seeded)
      /\ \A code \in Codes : /\ rows[code] # NoRow => seeded[code] = rows[code]
                             /\ code \notin seed => seeded[code] = rows[code]
  BY <1>1, SeededType
<1> DEFINE table == MigratedRows(seeded, migrate)
<1> HIDE DEF seeded
<1>3. /\ table \in [Codes -> Row \cup {NoRow}] /\ AllEarned(table)
      /\ \A code \in Codes : /\ seeded[code] # NoRow => table[code] # NoRow
                             /\ code \notin migrate => table[code] = seeded[code]
  BY <1>2, MigratedType
<1>4. SetRows(table)
  BY DEF SchemaRows, seeded
<1> HIDE DEF table
<1>5. \A code \in Codes : rows[code] # NoRow => table[code] # NoRow
  BY <1>2, <1>3
<1>6. RowsKept /\ rows' = table
  BY <1>3, <1>4, <1>5, RowsSet
<1>7. QED
  BY <1>2, <1>3, <1>6

\* The write of a row a call has planned and announced.
LEMMA WrittenKeeps ==
    ASSUME MappingInv, NEW c \in Calls, call[c].step = "write", SetRows(Written(c))
    PROVE  /\ RowsKept
           /\ \A code \in Codes : rows'[code] # rows[code] => code = call[c].code
           /\ call[c].code \in Codes /\ call[c].code \in DOMAIN call[c].plan
           /\ <<c, call[c].code>> \in audited
           /\ call[c].kind # "disable" => rows'[call[c].code] = call[c].plan[call[c].code]
           /\ call[c].code \notin overtaken'[c] => rows' = rows
<1> DEFINE code == call[c].code
           row  == call[c].plan[code]
           table == Written(c)
<1>1. /\ code \in DOMAIN call[c].plan /\ <<c, code>> \in audited
      /\ code \in Codes /\ row \in Row /\ Sound(c, call[c].kind, code, row)
  <2>1. Orderly(c) /\ Planned(c) /\ Typed
    BY DEF MappingInv, CallInv
  <2>2. code \in DOMAIN call[c].plan /\ <<c, code>> \in audited
    BY <2>1 DEF Orderly
  <2>3. code \in Codes /\ row \in Row
    BY <2>1, <2>2, CallFields
  <2>4. QED
    BY <2>1, <2>2, <2>3 DEF Planned
<1>2. rows \in [Codes -> Row \cup {NoRow}] /\ AllEarned(rows)
  BY DEF MappingInv, Typed
<1> HIDE DEF row, code
<1>3. /\ table \in [Codes -> Row \cup {NoRow}] /\ table[code] \in Row /\ Earned(code, table[code])
      /\ \A other \in Codes : other # code => table[other] = rows[other]
      /\ call[c].kind # "disable" => table[code] = row
  <2>1. CASE call[c].kind = "disable"
    <3>1. rows[code] \in Row
      BY <1>1, <1>2, <2>1 DEF Sound
    <3> DEFINE disabled == [rows[code] EXCEPT !.status = "disabled"]
    <3>2. disabled \in Row /\ disabled.status = "disabled"
      BY <3>1 DEF Row, Statuses
    <3>3. table = [rows EXCEPT ![code] = disabled]
      BY <2>1 DEF Written, code
    <3> HIDE DEF disabled, table
    <3>4. QED
      BY <1>1, <1>2, <2>1, <3>2, <3>3 DEF Earned
  <2>2. CASE call[c].kind # "disable"
    <3>1. table = [rows EXCEPT ![code] = row]
      BY <2>2 DEF Written, code, row
    <3>2. row.status = ComputedStatus(row.body)
      BY <1>1, <2>2 DEF Sound
    <3> HIDE DEF table
    <3>3. QED
      BY <1>1, <1>2, <3>1, <3>2 DEF Earned
  <2>3. QED
    BY <2>1, <2>2
<1>4. SetRows(table)
  OBVIOUS
<1> HIDE DEF table
<1>5. AllEarned(table)
  BY <1>2, <1>3 DEF AllEarned
<1>6. \A other \in Codes : rows[other] # NoRow => table[other] # NoRow
  BY <1>3, NoRowIsNoRow
<1>7. RowsKept /\ rows' = table
  BY <1>3, <1>4, <1>5, <1>6, RowsSet
<1>8. code \notin overtaken'[c] => rows' = rows
  <2>1. call[c].step \in AtWork
    BY DEF AtWork
  <2>2. code \notin overtaken'[c] => rows'[code] = rows[code]
    BY <1>1, <1>7, <2>1 DEF RowsKept
  <2>3. QED
    BY <1>2, <1>3, <1>7, <2>2
<1>9. QED
  BY <1>1, <1>3, <1>7, <1>8 DEF code, row

\* A call that only reads or records: everything but its own state stays.
LEMMA CallOnly ==
    ASSUME MappingInv, UNCHANGED <<rows, overtaken, proposal, restarts>>,
           audited \subseteq audited', audited' \subseteq Calls \X Codes,
           NEW c \in Calls, NEW state \in CallState, call' = [call EXCEPT ![c] = state],
           CallInv(c)'
    PROVE  MappingInv'
<1>1. RowsKept
  BY NoRowsWritten
<1>2. RescanPicksUnique'
  BY DEF MappingInv, RescanPicksUnique
<1>3. QED
  BY <1>1, <1>2, OneMoves

\* A call begins.
LEMMA BeginKeeps ==
    ASSUME MappingInv, NEW c \in Calls, Begin(c)
    PROVE  MappingInv'
<1>1. PICK kind \in Kinds, code \in Codes \cup {"none"} :
         Start(c, kind, code) /\ (kind \in OneRow => code \in Codes)
  BY DEF Begin, Kinds, OneRow
<1> DEFINE state == [call[c] EXCEPT !.kind = kind, !.code = code, !.step = "schema"]
<1>2. call' = [call EXCEPT ![c] = state]
  BY <1>1 DEF Start
<1>3. /\ state \in CallState /\ state.step = "schema" /\ state.kind = kind /\ state.code = code
      /\ state.outcome = call[c].outcome
  BY CallFields DEF MappingInv, CallState, Steps
<1> HIDE DEF state
<1>4. call'[c] = state /\ call[c].step = "idle"
  BY <1>2 DEF MappingInv, Typed, Begin
<1>5. CallInv(c)'
  BY <1>1, <1>3, <1>4 DEF MappingInv, CallInv, Orderly, Fresh, Planned
<1>6. audited' \subseteq Calls \X Codes /\ UNCHANGED <<rows, audited, overtaken, proposal, restarts>>
  BY DEF Begin, MappingInv, Typed
<1>7. QED
  BY <1>2, <1>3, <1>5, <1>6, CallOnly

\* init_schema with its seeds and migrations.
LEMMA InitSchemaKeeps ==
    ASSUME MappingInv, NEW c \in Calls, InitSchema(c)
    PROVE  MappingInv'
<1>1. /\ call[c].step = "schema" /\ SetRows(SchemaRows(Verified, Verified))
      /\ call' = [call EXCEPT ![c].step = "read"] /\ UNCHANGED <<audited, proposal, restarts>>
  BY DEF InitSchema
<1> DEFINE state == [call[c] EXCEPT !.step = "read"]
<1>2. call' = [call EXCEPT ![c] = state]
  BY <1>1
<1>3. /\ state \in CallState /\ state.step = "read" /\ state.kind = call[c].kind
      /\ state.code = call[c].code /\ state.outcome = call[c].outcome
  BY CallFields DEF MappingInv, CallState, Steps
<1> HIDE DEF state
<1>4. call'[c] = state
  BY <1>2 DEF MappingInv, Typed
<1>5. CallInv(c)'
  BY <1>1, <1>3, <1>4 DEF MappingInv, CallInv, Orderly, Fresh, Planned
<1>6. RowsKept
  BY <1>1, SchemaKeeps
<1>7. audited' \subseteq Calls \X Codes /\ audited \subseteq audited' /\ RescanPicksUnique'
  BY <1>1 DEF MappingInv, Typed, RescanPicksUnique
<1>8. QED
  BY <1>1, <1>2, <1>3, <1>5, <1>6, <1>7, OneMoves

\* A call that has decided what to make of the one row it names.
LEMMA OneRowPlanned ==
    ASSUME MappingInv, NEW c \in Calls, call[c].step = "read", call[c].kind \in OneRow,
           UNCHANGED <<rows, audited, overtaken, proposal, restarts>>,
           NEW row \in Row, Sound(c, call[c].kind, call[c].code, row),
           call' = [call EXCEPT ![c].step = "event",
                                ![c].plan = [code \in {call[c].code} |-> row]]
    PROVE  MappingInv'
<1>1. call[c].code \in Codes
  BY DEF MappingInv, CallInv, Orderly
<1>2. PICK plan \in Tables :
         DOMAIN plan = {call[c].code} /\ plan[call[c].code] = row /\ WritePlan(c, plan)
  <2> DEFINE one == [code \in {call[c].code} |-> row]
  <2>1. one \in [{call[c].code} -> Row] /\ {call[c].code} \in SUBSET Codes
    BY <1>1
  <2>2. DOMAIN one = {call[c].code} /\ one[call[c].code] = row
    OBVIOUS
  <2>3. WritePlan(c, one)
    BY <2>2 DEF WritePlan
  <2> HIDE DEF one
  <2>4. one \in Tables
    BY <2>1 DEF Tables
  <2>5. QED
    BY <2>2, <2>3, <2>4
<1>3. PICK kind : kind = call[c].kind
  OBVIOUS
<1>4. \A code \in DOMAIN plan : Sound(c, kind, code, plan[code])'
  BY <1>2, <1>3 DEF Sound, FreeSite
<1>5. RowsKept /\ RescanPicksUnique'
  BY NoRowsWritten DEF MappingInv, RescanPicksUnique
<1>6. QED
  BY <1>2, <1>3, <1>4, <1>5, PlanKeeps

\* A call on one row finds a row of its code.
LEMMA RowOfCall ==
    ASSUME MappingInv, NEW c \in Calls, call[c].kind \in OneRow, rows[call[c].code] # NoRow
    PROVE  call[c].code \in Codes /\ rows[call[c].code] \in Row
BY DEF MappingInv, CallInv, Orderly, Typed

\* PUT of a mapping, up to its audit event.
LEMMA ReadPutKeeps ==
    ASSUME MappingInv, NEW c \in Calls, ReadPut(c)
    PROVE  MappingInv'
<1>1. PICK body \in Bodies :
         call' = [call EXCEPT
                    ![c].step = "event",
                    ![c].plan = [code \in {call[c].code} |->
                        [body |-> body, status |-> ComputedStatus(body)]]]
  BY DEF ReadPut
<1> DEFINE row == [body |-> body, status |-> ComputedStatus(body)]
<1>2. row \in Row
  BY MappingConstants, ComputedIsStatus DEF Row, Statuses
<1>3. row.status = ComputedStatus(row.body)
  OBVIOUS
<1>4. call' = [call EXCEPT ![c].step = "event",
                           ![c].plan = [code \in {call[c].code} |-> row]]
  BY <1>1
<1> HIDE DEF row
<1>5. Sound(c, call[c].kind, call[c].code, row)
  BY <1>3 DEF ReadPut, Sound
<1>6. QED
  BY <1>2, <1>4, <1>5, OneRowPlanned DEF ReadPut, OneRow

\* DELETE of a mapping, up to its audit event.
LEMMA ReadDisableKeeps ==
    ASSUME MappingInv, NEW c \in Calls, ReadDisable(c)
    PROVE  MappingInv'
<1> DEFINE row == rows[call[c].code]
<1>1. /\ call[c].step = "read" /\ call[c].kind = "disable" /\ call[c].kind \in OneRow
      /\ UNCHANGED <<rows, audited, overtaken, proposal, restarts>>
  BY DEF ReadDisable, OneRow
<1>2. CASE row = NoRow \/ row.status = "disabled"
  <2>1. Finish(c, "refused") /\ "refused" \in Outcomes
    BY <1>2 DEF ReadDisable, Outcomes
  <2>2. RowsKept /\ RescanPicksUnique'
    BY <1>1, NoRowsWritten DEF MappingInv, RescanPicksUnique
  <2>3. QED
    BY <1>1, <2>1, <2>2, FinishKeeps
<1>3. CASE ~(row = NoRow \/ row.status = "disabled")
  <2> DEFINE disabled == [row EXCEPT !.status = "disabled"]
  <2>1. row \in Row
    BY <1>1, <1>3, RowOfCall
  <2>2. disabled \in Row
    BY <2>1 DEF Row, Statuses
  <2>3. call' = [call EXCEPT ![c].step = "event",
                             ![c].plan = [code \in {call[c].code} |-> disabled]]
    BY <1>3 DEF ReadDisable
  <2>4. Sound(c, call[c].kind, call[c].code, disabled)
    BY <1>1, <1>3 DEF Sound
  <2> HIDE DEF disabled
  <2>5. QED
    BY <1>1, <2>2, <2>3, <2>4, OneRowPlanned
<1>4. QED
  BY <1>2, <1>3

\* Confirming a Microsoft mapping, up to its audit event.
LEMMA ReadConfirmKeeps ==
    ASSUME MappingInv, NEW c \in Calls, ReadConfirm(c)
    PROVE  MappingInv'
<1> DEFINE row == rows[call[c].code]
<1>1. /\ call[c].step = "read" /\ call[c].kind = "confirm" /\ call[c].kind \in OneRow
      /\ UNCHANGED <<rows, audited, overtaken, proposal, restarts>>
  BY DEF ReadConfirm, OneRow
<1>2. PICK site \in Sites, mailboxes \in SUBSET Mailboxes :
         LET body == ConfirmedBody(row.body, site, mailboxes)
         IN  IF row = NoRow \/ OtherSite(row, site)
             THEN Finish(c, "refused")
             ELSE call' = [call EXCEPT
                     ![c].step = "event",
                     ![c].plan = [code \in {call[c].code} |->
                         [body |-> body, status |-> ComputedStatus(body)]]]
  BY DEF ReadConfirm
<1>3. CASE row = NoRow \/ OtherSite(row, site)
  <2>1. Finish(c, "refused") /\ "refused" \in Outcomes
    BY <1>2, <1>3 DEF Outcomes
  <2>2. RowsKept /\ RescanPicksUnique'
    BY <1>1, NoRowsWritten DEF MappingInv, RescanPicksUnique
  <2>3. QED
    BY <1>1, <2>1, <2>2, FinishKeeps
<1>4. CASE ~(row = NoRow \/ OtherSite(row, site))
  <2> DEFINE body == ConfirmedBody(row.body, site, mailboxes)
             confirmed == [body |-> body, status |-> ComputedStatus(body)]
  <2>1. row \in Row
    BY <1>1, <1>4, RowOfCall
  <2>2. body \in Body /\ body.sharepoint = site
    BY <2>1, ConfirmedBodyType DEF Row
  <2>3. call' = [call EXCEPT ![c].step = "event",
                             ![c].plan = [code \in {call[c].code} |-> confirmed]]
    BY <1>2, <1>4
  <2> HIDE DEF body
  <2>4. /\ confirmed \in Row /\ confirmed.status = ComputedStatus(confirmed.body)
        /\ confirmed.body.sharepoint = site
    BY <2>2, ComputedIsStatus DEF Row, Statuses
  <2> HIDE DEF confirmed
  <2>5. PlaceholderSite(row.body.sharepoint) \/ row.body.sharepoint = site
    BY <1>4 DEF OtherSite
  <2>6. Sound(c, call[c].kind, call[c].code, confirmed)
    BY <1>1, <2>4, <2>5 DEF Sound
  <2>7. QED
    BY <1>1, <2>3, <2>4, <2>6, OneRowPlanned
<1>5. QED
  BY <1>3, <1>4

\* The admission of a report.
LEMMA AdmitReportKeeps ==
    ASSUME MappingInv, NEW c \in Calls, AdmitReport(c)
    PROVE  MappingInv'
<1>1. PICK outcome \in {"admitted", "refused"} : Finish(c, outcome)
  BY DEF AdmitReport
<1>2. UNCHANGED <<rows, audited, overtaken, proposal, restarts>>
  BY DEF AdmitReport
<1>3. RowsKept /\ RescanPicksUnique'
  BY <1>2, NoRowsWritten DEF MappingInv, RescanPicksUnique
<1>4. QED
  BY <1>1, <1>2, <1>3, FinishKeeps DEF Outcomes

\* A table-wide call reads the table.
LEMMA ReadTableKeeps ==
    ASSUME MappingInv, NEW c \in Calls, ReadTable(c)
    PROVE  MappingInv'
<1> DEFINE list == [code \in Present |-> rows[code]]
           state == [call[c] EXCEPT !.step = "audit", !.seen = list]
<1>1. /\ call[c].step = "read" /\ call[c].kind \in {"enrich", "sync", "rescan"}
      /\ call' = [call EXCEPT ![c] = state]
      /\ UNCHANGED <<rows, audited, overtaken, proposal, restarts>>
  BY DEF ReadTable
<1>2. Present \in SUBSET Codes /\ DOMAIN list = Present /\ list \in [Present -> Row]
  BY DEF Present, MappingInv, Typed
<1>3. \A code \in Codes : rows[code] = IF code \in DOMAIN list THEN list[code] ELSE NoRow
  BY DEF Present
<1> HIDE DEF list
<1>4. list \in Tables
  BY <1>2 DEF Tables
<1>5. /\ state \in CallState /\ state.step = "audit" /\ state.kind = call[c].kind
      /\ state.code = call[c].code /\ state.outcome = call[c].outcome /\ state.seen = list
  BY <1>4, CallFields DEF MappingInv, CallState, Steps
<1> HIDE DEF state
<1>6. call'[c] = state
  BY <1>1 DEF MappingInv, Typed
<1>7. Orderly(c)' /\ Planned(c)'
  BY <1>1, <1>5, <1>6 DEF MappingInv, CallInv, Orderly, Planned, OneRow
<1>8. Fresh(c)'
  BY <1>1, <1>3, <1>5, <1>6 DEF Fresh
<1>9. audited' \subseteq Calls \X Codes /\ audited \subseteq audited'
  BY <1>1 DEF MappingInv, Typed
<1>10. QED
  BY <1>1, <1>5, <1>7, <1>8, <1>9, CallOnly DEF CallInv

\* It records its run.
LEMMA RecordRunKeeps ==
    ASSUME MappingInv, NEW c \in Calls, RecordRun(c)
    PROVE  MappingInv'
<1> DEFINE state == [call[c] EXCEPT !.step = "graph"]
<1>1. /\ call[c].step = "audit" /\ call' = [call EXCEPT ![c] = state]
      /\ UNCHANGED <<rows, audited, overtaken, proposal, restarts>>
  BY DEF RecordRun
<1>2. /\ state \in CallState /\ state.step = "graph" /\ state.kind = call[c].kind
      /\ state.code = call[c].code /\ state.outcome = call[c].outcome /\ state.seen = call[c].seen
  BY CallFields DEF MappingInv, CallState, Steps
<1> HIDE DEF state
<1>3. call'[c] = state
  BY <1>1 DEF MappingInv, Typed
<1>4. CallInv(c)'
  BY <1>1, <1>2, <1>3 DEF MappingInv, CallInv, Orderly, Planned, Fresh
<1>5. audited' \subseteq Calls \X Codes /\ audited \subseteq audited'
  BY <1>1 DEF MappingInv, Typed
<1>6. QED
  BY <1>1, <1>2, <1>4, <1>5, CallOnly

\* A call that has decided what to make of the rows it listed.
LEMMA RowsPlanned ==
    ASSUME MappingInv, NEW c \in Calls, call[c].step # "done",
           UNCHANGED <<rows, audited, overtaken, proposal, restarts>>,
           NEW plan \in Tables, WritePlan(c, plan),
           \A code \in DOMAIN plan : Sound(c, call[c].kind, code, plan[code])
    PROVE  MappingInv'
<1>1. PICK kind : kind = call[c].kind
  OBVIOUS
<1>2. \A code \in DOMAIN plan : Sound(c, kind, code, plan[code])'
  BY <1>1 DEF Sound, FreeSite
<1>3. RowsKept /\ RescanPicksUnique'
  BY NoRowsWritten DEF MappingInv, RescanPicksUnique
<1>4. QED
  BY <1>1, <1>2, <1>3, PlanKeeps

\* Microsoft Graph is not reachable for it.
LEMMA GraphBlockedKeeps ==
    ASSUME MappingInv, NEW c \in Calls, GraphBlocked(c)
    PROVE  MappingInv'
<1>1. UNCHANGED <<rows, audited, overtaken, proposal, restarts>> /\ Finish(c, "refused")
  BY DEF GraphBlocked
<1>2. RowsKept /\ RescanPicksUnique'
  BY <1>1, NoRowsWritten DEF MappingInv, RescanPicksUnique
<1>3. QED
  BY <1>1, <1>2, FinishKeeps DEF Outcomes

\* E-mail group enrichment plans its rows.
LEMMA EnrichGroupsKeeps ==
    ASSUME MappingInv, NEW c \in Calls, EnrichGroups(c)
    PROVE  MappingInv'
<1> DEFINE seen == call[c].seen
<1>1. /\ call[c].step = "graph" /\ call[c].kind = "enrich"
      /\ UNCHANGED <<rows, audited, overtaken, proposal, restarts>>
  BY DEF EnrichGroups
<1> DEFINE answers(scope) ==
        [scope -> UNION {EnrichmentResults(seen[code].body) : code \in scope}]
      chosen(scope, ms) ==
        /\ \A code \in scope : ms[code] \in EnrichmentResults(seen[code].body)
        /\ WritePlan(c, [code \in scope |->
               LET body == EnrichedBody(seen[code].body, ms[code])
               IN  [body |-> body, status |-> ComputedStatus(body)]])
<1>2. PICK scope \in SUBSET (Verified \cap DOMAIN seen) :
         \E ms \in answers(scope) : chosen(scope, ms)
  BY Zenon DEF EnrichGroups
<1>3. PICK ms \in answers(scope) : chosen(scope, ms)
  BY <1>2
<1> DEFINE enriched(code) == EnrichedBody(seen[code].body, ms[code])
           plan == [code \in scope |->
                       [body |-> enriched(code), status |-> ComputedStatus(enriched(code))]]
<1>4. \A code \in DOMAIN seen : seen[code] \in Row /\ code \in Codes
  BY CallFields DEF MappingInv
<1>5. ASSUME NEW code \in scope
      PROVE  /\ plan[code] \in Row /\ plan[code].status = ComputedStatus(plan[code].body)
             /\ Entered(plan[code]) = Entered(seen[code])
  <2>1. seen[code] \in Row /\ seen[code].body \in Body
    BY <1>4 DEF Row
  <2>2. ms[code] \in EnrichmentResults(seen[code].body)
    BY <1>3
  <2>3. /\ enriched(code) \in Body
        /\ enriched(code).project_name = seen[code].body.project_name
        /\ enriched(code).sharepoint = seen[code].body.sharepoint
        /\ enriched(code).odoo = seen[code].body.odoo
    BY <2>1, <2>2, EnrichedBodyType
  <2>4. plan[code] = [body |-> enriched(code), status |-> ComputedStatus(enriched(code))]
    OBVIOUS
  <2> HIDE DEF enriched, plan
  <2>5. QED
    BY <2>3, <2>4, ComputedIsStatus DEF Row, Statuses, Entered
<1>6. plan \in Tables
  <2>1. plan = [code \in scope |-> plan[code]] /\ scope \in SUBSET Codes
    BY <1>4
  <2> HIDE DEF plan
  <2>2. plan \in [scope -> Row]
    BY <1>5, <2>1
  <2>3. QED
    BY <2>1, <2>2 DEF Tables
<1>7. WritePlan(c, plan) /\ DOMAIN plan = scope
  BY <1>3
<1>8. ASSUME NEW code \in scope
      PROVE  Sound(c, call[c].kind, code, plan[code])
  <2>1. code \notin overtaken[c] => rows[code] = seen[code]
    BY <1>1, <1>4 DEF MappingInv, CallInv, Fresh
  <2> HIDE DEF plan
  <2>2. QED
    BY <1>1, <1>5, <2>1 DEF Sound
<1> HIDE DEF plan
<1>9. QED
  BY <1>1, <1>6, <1>7, <1>8, RowsPlanned

\* The Odoo-SharePoint sync plans its rows.
LEMMA MatchSitesKeeps ==
    ASSUME MappingInv, NEW c \in Calls, MatchSites(c)
    PROVE  MappingInv'
<1> DEFINE seen == call[c].seen
<1>1. /\ call[c].step = "graph" /\ call[c].kind = "sync"
      /\ UNCHANGED <<rows, audited, overtaken, proposal, restarts>>
  BY DEF MatchSites
<1> DEFINE chosen(matched, site) ==
        LET saved == {code \in matched : site[code] \notin ConfirmedSites(seen)}
        IN  WritePlan(c, [code \in saved |->
               [body |-> SyncedBody(site[code]), status |-> "complete"]])
<1>2. PICK matched \in SUBSET Synced : \E site \in [matched -> Sites] : chosen(matched, site)
  BY DEF MatchSites
<1>3. PICK site \in [matched -> Sites] : chosen(matched, site)
  BY <1>2
<1> DEFINE saved == {code \in matched : site[code] \notin ConfirmedSites(seen)}
           plan  == [code \in saved |-> [body |-> SyncedBody(site[code]), status |-> "complete"]]
<1>4. saved \in SUBSET Codes /\ \A code \in saved : site[code] \in Sites
  BY DEF Codes
<1>5. ASSUME NEW code \in saved
      PROVE  /\ plan[code] \in Row /\ plan[code].status = ComputedStatus(plan[code].body)
             /\ plan[code].body.sharepoint = site[code]
  <2>1. /\ SyncedBody(site[code]) \in Body /\ SyncedBody(site[code]).sharepoint = site[code]
        /\ ComputedStatus(SyncedBody(site[code])) = "complete"
    BY <1>4, SyncedBodyType
  <2>2. plan[code] = [body |-> SyncedBody(site[code]), status |-> "complete"]
    OBVIOUS
  <2> HIDE DEF plan
  <2>3. QED
    BY <2>1, <2>2 DEF Row, Statuses
<1>6. WritePlan(c, plan) /\ DOMAIN plan = saved
  BY <1>3
<1>7. plan \in Tables
  <2>1. plan = [code \in saved |-> plan[code]]
    OBVIOUS
  <2> HIDE DEF plan
  <2>2. plan \in [saved -> Row]
    BY <1>5, <2>1
  <2> HIDE DEF saved
  <2>3. QED
    BY <1>4, <2>2 DEF Tables
<1>8. ASSUME NEW code \in saved
      PROVE  Sound(c, call[c].kind, code, plan[code])
  <2>1. site[code] \notin ConfirmedSites(seen) /\ site[code] # ""
    BY <1>4, MappingConstants
  <2>2. ASSUME NEW other \in Codes \ overtaken[c], rows[other] # NoRow,
               rows[other].status = "complete"
        PROVE  rows[other].body.sharepoint # site[code]
    <3>1. other \in DOMAIN seen /\ rows[other] = seen[other]
      BY <1>1, <2>2 DEF MappingInv, CallInv, Fresh
    <3>2. QED
      BY <2>1, <2>2, <3>1 DEF ConfirmedSites
  <2>3. FreeSite(c, code, site[code])
    BY <2>2 DEF FreeSite
  <2> HIDE DEF plan
  <2>4. QED
    BY <1>1, <1>5, <2>3 DEF Sound
<1> HIDE DEF plan, saved
<1>9. QED
  BY <1>1, <1>6, <1>7, <1>8, RowsPlanned

\* The Microsoft rescan proposes a site and writes nothing.
LEMMA RescanKeeps ==
    ASSUME MappingInv, NEW c \in Calls, Rescan(c)
    PROVE  MappingInv'
<1>1. Finish(c, "saved") /\ UNCHANGED <<rows, audited, overtaken, restarts>>
  BY DEF Rescan
<1>2. PICK code \in DOMAIN call[c].seen, match \in [Sites -> Strengths] :
         \E top \in Candidates(match), reachable \in BOOLEAN :
            proposal' = Propose(call[c].seen[code], match, top, reachable)
  BY DEF Rescan
<1>3. PICK top \in Candidates(match), reachable \in BOOLEAN :
         proposal' = Propose(call[c].seen[code], match, top, reachable)
  BY <1>2
<1>4. call[c].seen[code] \in Row
  BY CallFields DEF MappingInv
<1>5. RescanPicksUnique'
  BY <1>3, <1>4, ProposalIsUnique DEF RescanPicksUnique
<1>6. RowsKept
  BY <1>1, NoRowsWritten
<1>7. QED
  BY <1>1, <1>5, <1>6, FinishKeeps DEF Outcomes

\* The audit event of one change.
LEMMA RecordChangeKeeps ==
    ASSUME MappingInv, NEW c \in Calls, RecordChange(c)
    PROVE  MappingInv'
<1>1. call[c].step = "event" /\ UNCHANGED <<rows, overtaken, proposal, restarts>>
  BY DEF RecordChange
<1>2. PICK code \in DOMAIN call[c].plan :
         /\ audited' = audited \cup {<<c, code>>}
         /\ call' = [call EXCEPT ![c].step = "write", ![c].code = code]
  BY DEF RecordChange
<1> DEFINE state == [call[c] EXCEPT !.step = "write", !.code = code]
<1>3. call' = [call EXCEPT ![c] = state] /\ code \in Codes
  BY <1>2, CallFields DEF MappingInv
<1>4. /\ state \in CallState /\ state.step = "write" /\ state.kind = call[c].kind
      /\ state.code = code /\ state.outcome = call[c].outcome /\ state.plan = call[c].plan
  BY <1>3, CallFields DEF MappingInv, CallState, Steps
<1> HIDE DEF state
<1>5. call'[c] = state
  BY <1>3 DEF MappingInv, Typed
<1>6. Orderly(c)' /\ Fresh(c)'
  BY <1>1, <1>2, <1>3, <1>4, <1>5 DEF MappingInv, CallInv, Orderly, Fresh
<1>7. Planned(c)'
  <2>1. \A other \in DOMAIN call[c].plan : Sound(c, call[c].kind, other, call[c].plan[other])
    BY <1>1 DEF MappingInv, CallInv, Planned
  <2>2. call'[c].kind = call[c].kind /\ call'[c].plan = call[c].plan
    BY <1>4, <1>5
  <2>3. QED
    BY <1>1, <2>1, <2>2 DEF Planned, Sound, FreeSite
<1>8. audited' \subseteq Calls \X Codes /\ audited \subseteq audited'
  BY <1>2, <1>3 DEF MappingInv, Typed
<1>9. QED
  BY <1>1, <1>3, <1>4, <1>6, <1>7, <1>8, CallOnly DEF CallInv

\* The write of one row.
LEMMA WriteRowKeeps ==
    ASSUME MappingInv, NEW c \in Calls, WriteRow(c)
    PROVE  MappingInv'
<1> DEFINE left == DOMAIN call[c].plan \ {call[c].code}
<1>1. /\ call[c].step = "write" /\ SetRows(Written(c))
      /\ WritePlan(c, [code \in left |-> call[c].plan[code]])
      /\ UNCHANGED <<audited, proposal, restarts>>
  BY DEF WriteRow
<1>2. RowsKept /\ RescanPicksUnique'
  BY <1>1, WrittenKeeps DEF MappingInv, RescanPicksUnique
<1>3. PICK plan \in Tables :
         /\ plan = [code \in left |-> call[c].plan[code]]
         /\ \A code \in DOMAIN plan : code \in DOMAIN call[c].plan /\ plan[code] = call[c].plan[code]
  <2> DEFINE rest == [code \in left |-> call[c].plan[code]]
  <2>1. left \in SUBSET Codes /\ \A code \in left : call[c].plan[code] \in Row
    BY CallFields DEF MappingInv
  <2>2. rest \in [left -> Row] /\ DOMAIN rest = left
        /\ \A code \in left : code \in DOMAIN call[c].plan /\ rest[code] = call[c].plan[code]
    BY <2>1
  <2> HIDE DEF rest, left
  <2>3. rest \in Tables
    BY <2>1, <2>2 DEF Tables
  <2>4. QED
    BY <2>2, <2>3 DEF rest
<1>4. PICK kind : kind = call[c].kind
  OBVIOUS
<1>5. ASSUME NEW code \in DOMAIN plan
      PROVE  Sound(c, kind, code, plan[code])'
  <2>1. Sound(c, kind, code, plan[code]) /\ code \in Codes /\ call[c].step \in AtWork
    <3>1. code \in DOMAIN call[c].plan /\ plan[code] = call[c].plan[code]
      BY <1>3, <1>5
    <3>2. Sound(c, call[c].kind, code, call[c].plan[code])
      BY <1>1, <3>1 DEF MappingInv, CallInv, Planned
    <3>3. code \in Codes
      BY <3>1, CallFields DEF MappingInv
    <3>4. QED
      BY <1>1, <1>4, <3>1, <3>2, <3>3 DEF AtWork
  <2>2. PICK row : row = plan[code]
    OBVIOUS
  <2>3. Sound(c, kind, code, row)'
    BY <1>2, <2>1, <2>2, SoundStays
  <2>4. QED
    BY <2>2, <2>3
<1>6. WritePlan(c, plan)
  BY <1>1, <1>3
<1>7. QED
  BY <1>1, <1>2, <1>4, <1>5, <1>6, PlanKeeps

\* A statement raises and ends the call.
LEMMA RaiseKeeps ==
    ASSUME MappingInv, NEW c \in Calls, Raise(c)
    PROVE  MappingInv'
<1>1. UNCHANGED <<audited, proposal, restarts>>
  BY DEF Raise
<1>2. PICK outcome \in {"admitted", "raised"} : Finish(c, outcome)
  BY DEF Raise
<1>3. RowsKept
  <2>1. CASE UNCHANGED <<rows, overtaken>>
    BY <2>1, NoRowsWritten
  <2>2. CASE call[c].step = "schema" /\ SomeOfSchema(c)
    BY <2>2, SchemaKeeps DEF SomeOfSchema
  <2>3. CASE call[c].step = "write" /\ SetRows(Written(c))
    BY <2>3, WrittenKeeps
  <2>4. QED
    BY <2>1, <2>2, <2>3 DEF Raise
<1>4. RescanPicksUnique'
  BY <1>1 DEF MappingInv, RescanPicksUnique
<1>5. QED
  BY <1>1, <1>2, <1>3, <1>4, FinishKeeps DEF Outcomes

\* The server restarts.
LEMMA RestartKeeps ==
    ASSUME MappingInv, Restart
    PROVE  MappingInv'
<1> DEFINE over == [Idle EXCEPT !.step = "done", !.outcome = "lost"]
<1>1. /\ restarts' = restarts + 1 /\ restarts < Restarts
      /\ call' = [c \in Calls |-> IF Running(c) THEN over ELSE call[c]]
      /\ UNCHANGED <<audited, proposal>>
  BY DEF Restart
<1>2. over \in CallState /\ over.step = "done" /\ over.kind = "none"
  BY Ended DEF Outcomes
<1> HIDE DEF over
<1>3. RowsKept
  <2>1. CASE UNCHANGED <<rows, overtaken>>
    BY <2>1, NoRowsWritten
  <2>2. ASSUME NEW c \in Calls, SomeOfSchema(c) PROVE RowsKept
    BY <2>2, SchemaKeeps DEF SomeOfSchema
  <2>3. QED
    BY <2>1, <2>2 DEF Restart
<1>4. Typed'
  <2>1. restarts' \in 0..Restarts
    <3>1. Restarts \in Nat /\ restarts \in 0..Restarts
      BY MappingConstants DEF MappingInv, Typed
    <3>2. QED
      BY <1>1, <3>1
  <2>2. call' \in [Calls -> CallState]
    BY <1>1, <1>2 DEF MappingInv, Typed
  <2>3. QED
    BY <1>1, <1>3, <2>1, <2>2 DEF MappingInv, Typed, RowsKept
<1>5. AllEarned(rows)' /\ RescanPicksUnique'
  BY <1>1, <1>3 DEF MappingInv, RowsKept, AllEarned, Earned, RescanPicksUnique
<1>6. ASSUME NEW c \in Calls PROVE CallInv(c)'
  <2>1. CASE Running(c)
    <3>1. call'[c] = over
      BY <1>1, <2>1
    <3>2. QED
      BY <1>2, <3>1 DEF CallInv, Orderly, OneRow, Fresh, Planned
  <2>2. CASE ~Running(c)
    <3>1. call'[c] = call[c] /\ audited \subseteq audited'
      BY <1>1, <2>2
    <3>2. QED
      BY <1>3, <3>1, Bystander
  <2>3. QED
    BY <2>1, <2>2
<1>7. QED
  BY <1>4, <1>5, <1>6 DEF MappingInv

\* Every step keeps the invariant.
LEMMA NextMapping == MappingInv /\ [Next]_vars => MappingInv'
<1> SUFFICES ASSUME MappingInv, [Next]_vars PROVE MappingInv'
  OBVIOUS
<1>1. ASSUME NEW c \in Calls, CallStep(c) PROVE MappingInv'
  BY <1>1, BeginKeeps, InitSchemaKeeps, ReadPutKeeps, ReadDisableKeeps, ReadConfirmKeeps,
     ReadTableKeeps, AdmitReportKeeps, RecordRunKeeps, GraphBlockedKeeps, EnrichGroupsKeeps,
     MatchSitesKeeps, RescanKeeps, RecordChangeKeeps, WriteRowKeeps, RaiseKeeps
  DEF CallStep, ReadStep, GraphStep
<1>2. CASE Restart
  BY <1>2, RestartKeeps
<1>3. CASE UNCHANGED vars
  <2>1. RowsKept /\ UNCHANGED <<call, audited, proposal, restarts>>
    BY <1>3, NoRowsWritten DEF vars
  <2>2. ASSUME NEW c \in Calls PROVE CallInv(c)'
    BY <2>1, Bystander
  <2>3. QED
    BY <2>1, <2>2 DEF MappingInv, Typed, RowsKept, AllEarned, Earned, RescanPicksUnique
<1>4. QED
  BY <1>1, <1>2, <1>3 DEF Next

\* It holds in every state.
LEMMA AlwaysMapping == Spec => []MappingInv
BY InitMapping, NextMapping, PTL DEF Spec

-----------------------------------------------------------------------------
(* Who changes what.                                                       *)

\* A step of one call leaves the other calls alone.
LEMMA OthersStay ==
    ASSUME MappingInv, NEW c \in Calls, CallStep(c), NEW d \in Calls, d # c
    PROVE  call'[d] = call[d]
<1>1. call \in [Calls -> CallState]
  BY DEF MappingInv, Typed
<1>2. \E state : call' = [call EXCEPT ![c] = state]
  <2>1. ASSUME NEW outcome, Finish(c, outcome)
        PROVE  \E state : call' = [call EXCEPT ![c] = state]
    BY <2>1 DEF Finish
  <2>2. ASSUME NEW plan, WritePlan(c, plan)
        PROVE  \E state : call' = [call EXCEPT ![c] = state]
    <3>1. CASE DOMAIN plan = {}
      BY <2>1, <2>2, <3>1 DEF WritePlan
    <3>2. CASE DOMAIN plan # {}
      <4>1. call' = [call EXCEPT ![c] = [call[c] EXCEPT !.step = "event", !.plan = plan]]
        BY <2>2, <3>2 DEF WritePlan
      <4>2. QED
        BY <4>1
    <3>3. QED
      BY <3>1, <3>2
  <2>3. CASE Begin(c)
    <3>1. PICK kind, code : Start(c, kind, code)
      BY <2>3 DEF Begin
    <3>2. call' = [call EXCEPT ![c] =
                     [call[c] EXCEPT !.kind = kind, !.code = code, !.step = "schema"]]
      BY <3>1 DEF Start
    <3>3. QED
      BY <3>2
  <2>4. CASE InitSchema(c)
    <3>1. call' = [call EXCEPT ![c] = [call[c] EXCEPT !.step = "read"]]
      BY <2>4 DEF InitSchema
    <3>2. QED
      BY <3>1
  <2>5. CASE ReadPut(c)
    <3>1. PICK plan : call' = [call EXCEPT ![c].step = "event", ![c].plan = plan]
      BY <2>5 DEF ReadPut
    <3>2. call' = [call EXCEPT ![c] = [call[c] EXCEPT !.step = "event", !.plan = plan]]
      BY <3>1
    <3>3. QED
      BY <3>2
  <2>6. CASE ReadDisable(c)
    <3>1. \/ Finish(c, "refused")
          \/ \E plan : call' = [call EXCEPT ![c].step = "event", ![c].plan = plan]
      BY <2>6 DEF ReadDisable
    <3>2. ASSUME NEW plan, call' = [call EXCEPT ![c].step = "event", ![c].plan = plan]
          PROVE  call' = [call EXCEPT ![c] = [call[c] EXCEPT !.step = "event", !.plan = plan]]
      BY <3>2
    <3>3. QED
      BY <2>1, <3>1, <3>2
  <2>7. CASE ReadConfirm(c)
    <3>1. \/ Finish(c, "refused")
          \/ \E plan : call' = [call EXCEPT ![c].step = "event", ![c].plan = plan]
      BY <2>7 DEF ReadConfirm
    <3>2. ASSUME NEW plan, call' = [call EXCEPT ![c].step = "event", ![c].plan = plan]
          PROVE  call' = [call EXCEPT ![c] = [call[c] EXCEPT !.step = "event", !.plan = plan]]
      BY <3>2
    <3>3. QED
      BY <2>1, <3>1, <3>2
  <2>8. CASE ReadTable(c)
    <3>1. call' = [call EXCEPT ![c] = [call[c] EXCEPT !.step = "audit",
                                                      !.seen = [code \in Present |-> rows[code]]]]
      BY <2>8 DEF ReadTable
    <3>2. QED
      BY <3>1
  <2>9. CASE AdmitReport(c) \/ GraphBlocked(c) \/ Rescan(c) \/ Raise(c)
    <3>1. \E outcome : Finish(c, outcome)
      BY <2>9 DEF AdmitReport, GraphBlocked, Rescan, Raise
    <3>2. QED
      BY <2>1, <3>1
  <2>10. CASE RecordRun(c)
    <3>1. call' = [call EXCEPT ![c] = [call[c] EXCEPT !.step = "graph"]]
      BY <2>10 DEF RecordRun
    <3>2. QED
      BY <3>1
  <2>11. CASE EnrichGroups(c)
    <3>1. \E plan : WritePlan(c, plan)
      BY <2>11, Zenon DEF EnrichGroups
    <3>2. QED
      BY <2>2, <3>1
  <2>12. CASE MatchSites(c)
    <3>1. \E plan : WritePlan(c, plan)
      BY <2>12 DEF MatchSites
    <3>2. QED
      BY <2>2, <3>1
  <2>13. CASE RecordChange(c)
    <3>1. PICK code : call' = [call EXCEPT ![c].step = "write", ![c].code = code]
      BY <2>13 DEF RecordChange
    <3>2. call' = [call EXCEPT ![c] = [call[c] EXCEPT !.step = "write", !.code = code]]
      BY <3>1
    <3>3. QED
      BY <3>2
  <2>14. CASE WriteRow(c)
    <3>1. \E plan : WritePlan(c, plan)
      BY <2>14 DEF WriteRow
    <3>2. QED
      BY <2>2, <3>1
  <2>15. QED
    BY <2>3, <2>4, <2>5, <2>6, <2>7, <2>8, <2>9, <2>10, <2>11, <2>12, <2>13, <2>14
    DEF CallStep, ReadStep, GraphStep
<1>3. QED
  BY <1>1, <1>2

\* A call that takes its step from "write" has written its row, or nothing.
LEMMA WritesItsRow ==
    ASSUME MappingInv, Next, NEW c \in Calls, NEW code \in Codes, Writes(c, code)
    PROVE  rows' = rows \/ SetRows(Written(c))
<1>1. call[c].step = "write" /\ call'[c] # call[c] /\ call'[c].outcome # "lost"
  BY DEF Writes
<1>2. CASE Restart
  <2>1. Running(c)
    BY <1>1 DEF Running
  <2>2. call'[c] = [Idle EXCEPT !.step = "done", !.outcome = "lost"]
    BY <1>2, <2>1 DEF Restart
  <2>3. call'[c].outcome = "lost"
    BY <2>2, Ended DEF Outcomes
  <2>4. QED
    BY <1>1, <2>3
<1>3. ASSUME NEW d \in Calls, CallStep(d) PROVE rows' = rows \/ SetRows(Written(c))
  <2>1. d = c
    BY <1>1, <1>3, OthersStay
  <2>2. WriteRow(c) \/ Raise(c)
    BY <1>1, <1>3, <2>1 DEF CallStep, ReadStep, GraphStep, Begin, InitSchema, ReadPut,
       ReadDisable, ReadConfirm, ReadTable, AdmitReport, RecordRun, GraphBlocked,
       EnrichGroups, MatchSites, Rescan, RecordChange
  <2>3. QED
    BY <1>1, <2>2 DEF WriteRow, Raise
<1>4. QED
  BY <1>2, <1>3 DEF Next

\* A row is changed by the call that has announced it, or by a migration.
LEMMA WhoChanges ==
    ASSUME MappingInv, Next, NEW code \in Codes, rows'[code] # rows[code]
    PROVE  \/ \E c \in Calls : Writes(c, code) /\ <<c, code>> \in audited
           \/ code \in Verified /\ \E c \in Calls : call[c].step = "schema"
<1>1. ASSUME NEW c \in Calls, call[c].step = "schema", SomeOfSchema(c) PROVE code \in Verified
  BY <1>1, SchemaKeeps DEF SomeOfSchema
<1>2. CASE Restart
  BY <1>1, <1>2 DEF Restart
<1>3. ASSUME NEW c \in Calls, CallStep(c), rows' # rows
      PROVE  InitSchema(c) \/ WriteRow(c) \/ Raise(c)
  BY <1>3 DEF CallStep, ReadStep, GraphStep, Begin, ReadPut,
     ReadDisable, ReadConfirm, ReadTable, AdmitReport, RecordRun, GraphBlocked,
     EnrichGroups, MatchSites, Rescan, RecordChange
<1>4. ASSUME NEW c \in Calls, InitSchema(c)
      PROVE  code \in Verified /\ call[c].step = "schema"
  BY <1>4, SchemaKeeps DEF InitSchema
<1>5. ASSUME NEW c \in Calls, call[c].step = "write", SetRows(Written(c)),
             \E outcome \in Outcomes \ {"lost"} : Finish(c, outcome) \/ WriteRow(c)
      PROVE  Writes(c, code) /\ <<c, code>> \in audited
  <2>1. call[c].code = code /\ <<c, code>> \in audited
    BY <1>5, WrittenKeeps
  <2>2. ASSUME NEW outcome \in Outcomes \ {"lost"}, Finish(c, outcome)
        PROVE  call'[c].step = "done" /\ call'[c].outcome # "lost"
    <3>1. call'[c] = [Idle EXCEPT !.step = "done", !.outcome = outcome]
      BY <2>2 DEF Finish, MappingInv, Typed
    <3>2. QED
      BY <2>2, <3>1 DEF Idle
  <2>3. ASSUME WriteRow(c)
        PROVE  call'[c].step # "write" /\ call'[c].outcome # "lost"
    <3>1. PICK plan : WritePlan(c, plan)
      BY <2>3 DEF WriteRow
    <3>2. CASE DOMAIN plan = {}
      BY <2>2, <3>1, <3>2 DEF WritePlan, Outcomes
    <3>3. CASE DOMAIN plan # {}
      <4>1. call'[c] = [call[c] EXCEPT !.step = "event", !.plan = plan]
        BY <3>1, <3>3 DEF WritePlan, MappingInv, Typed
      <4>2. call[c] \in CallState /\ call[c].outcome = "none"
        BY <1>5, CallFields DEF MappingInv, CallInv, Orderly
      <4>3. QED
        BY <4>1, <4>2 DEF CallState
    <3>4. QED
      BY <3>2, <3>3
  <2>4. QED
    BY <1>5, <2>1, <2>2, <2>3 DEF Writes
<1>6. ASSUME NEW c \in Calls, Raise(c)
      PROVE  \/ code \in Verified /\ call[c].step = "schema"
             \/ Writes(c, code) /\ <<c, code>> \in audited
  <2>1. CASE call[c].step = "schema" /\ SomeOfSchema(c)
    BY <1>1, <2>1
  <2>2. CASE call[c].step = "write" /\ SetRows(Written(c))
    <3>1. \E outcome \in Outcomes \ {"lost"} : Finish(c, outcome)
      BY <1>6 DEF Raise, Outcomes
    <3>2. QED
      BY <1>5, <2>2, <3>1
  <2>3. QED
    BY <1>6, <2>1, <2>2 DEF Raise
<1>7. ASSUME NEW c \in Calls, WriteRow(c)
      PROVE  Writes(c, code) /\ <<c, code>> \in audited
  <2>1. call[c].step = "write" /\ SetRows(Written(c))
    BY <1>7 DEF WriteRow
  <2>2. "saved" \in Outcomes \ {"lost"}
    BY DEF Outcomes
  <2>3. \E outcome \in Outcomes \ {"lost"} : Finish(c, outcome) \/ WriteRow(c)
    BY <1>7, <2>2
  <2>4. QED
    BY <1>5, <2>1, <2>3
<1>8. QED
  BY <1>2, <1>3, <1>4, <1>6, <1>7 DEF Next

-----------------------------------------------------------------------------
(* Theorems.                                                               *)

\* The columns of every row, the plans of every call and the list it has read
\* keep their types, for all interleavings, faults and restarts.
THEOREM MappingTypeCorrect == Spec => []MappingTypeOK
<1>1. ASSUME MappingInv PROVE MappingTypeOK
  <2>1. ASSUME NEW c \in Calls
        PROVE  /\ call[c].kind \in Kinds \cup {"none"} /\ call[c].step \in Steps
               /\ call[c].outcome \in Outcomes
    BY <1>1, CallFields DEF MappingInv, CallState
  <2>2. QED
    BY <1>1, <2>1, CallFields DEF MappingInv, Typed, MappingTypeOK
<1>2. QED
  BY AlwaysMapping, <1>1, PTL

\* A report gate that trusts the stored status judges the row: put, confirm,
\* enrichment and synchronisation store the status the columns earn, disabling
\* stores "disabled", and what the migration writes has group data.
THEOREM StoredStatusesAreEarned == Spec => []StoredStatusIsComputed
<1>1. ASSUME MappingInv PROVE StoredStatusIsComputed
  BY <1>1 DEF MappingInv, AllEarned, Earned, StoredStatusIsComputed, Present
<1>2. QED
  BY AlwaysMapping, <1>1, PTL

\* A rescan that says AUTO_MAPPED names the row's own site or the only strong
\* match among all sites, however many it looked at.
THEOREM RescansPickUnique == Spec => []RescanPicksUnique
<1>1. ASSUME MappingInv PROVE RescanPicksUnique
  BY <1>1 DEF MappingInv
<1>2. QED
  BY AlwaysMapping, <1>1, PTL

\* A-21: whoever changes a row has recorded the event of the change first; only
\* the migration changes rows, those of the verified projects, without one.
THEOREM EveryChangeIsAudited == Spec => ChangesAudited
<1> DEFINE Audited ==
        \A code \in Codes : rows'[code] # rows[code] =>
            \/ \E c \in Calls : Writes(c, code) /\ <<c, code>> \in audited
            \/ code \in Verified /\ \E c \in Calls : call[c].step = "schema"
<1>1. ASSUME MappingInv, [Next]_vars PROVE [Audited]_vars
  <2>1. CASE Next
    BY <1>1, <2>1, WhoChanges
  <2>2. QED
    BY <1>1, <2>1
<1>2. [][Audited]_vars <=> ChangesAudited
  BY DEF ChangesAudited
<1> HIDE DEF Audited
<1>3. QED
  BY AlwaysMapping, <1>1, <1>2, PTL DEF Spec

\* The row a call has written is the one it planned, and what was sound to
\* plan is sound to write as long as nobody wrote in between.
LEMMA SoundWhenWritten ==
    ASSUME MappingInv, NEW c \in Calls, NEW code \in Codes, Writes(c, code),
           SetRows(Written(c)), call[c].kind # "disable"
    PROVE  LET row == call[c].plan[code]
           IN  rows'[code] = row /\ Sound(c, call[c].kind, code, row)
<1>1. call[c].step = "write" /\ call[c].code = code
  BY DEF Writes
<1>2. code \in DOMAIN call[c].plan /\ rows'[code] = call[c].plan[code]
  BY <1>1, WrittenKeeps
<1>3. QED
  BY <1>1, <1>2 DEF MappingInv, CallInv, Planned

\* confirm_microsoft_mapping overwrites a confirmed site only when the row
\* changed after it was read: the 409 check holds until then.
THEOREM ConfirmationsKeepSites == Spec => ConfirmKeepsSite
<1> DEFINE Kept ==
        \A c \in Calls, code \in Codes :
            (Writes(c, code) /\ call[c].kind = "confirm" /\ code \notin overtaken[c])
            => \/ PlaceholderSite(rows[code].body.sharepoint)
               \/ rows'[code].body.sharepoint = rows[code].body.sharepoint
<1>1. ASSUME MappingInv, [Next]_vars PROVE [Kept]_vars
  <2>1. SUFFICES ASSUME Next, NEW c \in Calls, NEW code \in Codes, Writes(c, code),
                        call[c].kind = "confirm", code \notin overtaken[c]
                 PROVE  \/ PlaceholderSite(rows[code].body.sharepoint)
                        \/ rows'[code].body.sharepoint = rows[code].body.sharepoint
    BY <1>1
  <2>2. CASE SetRows(Written(c))
    BY <1>1, <2>1, <2>2, SoundWhenWritten DEF Sound
  <2>3. QED
    BY <1>1, <2>1, <2>2, WritesItsRow
<1>2. [][Kept]_vars <=> ConfirmKeepsSite
  BY DEF ConfirmKeepsSite
<1> HIDE DEF Kept
<1>3. QED
  BY AlwaysMapping, <1>1, <1>2, PTL DEF Spec

\* sync_odoo_sharepoint gives no project the site of a row stored complete,
\* unless that row changed after the table was listed.
THEOREM SyncsTakeFreeSites == Spec => SyncTakesFreeSites
<1> DEFINE Taken ==
        \A c \in Calls, code \in Codes :
            (Writes(c, code) /\ call[c].kind = "sync" /\ rows' # rows)
            => \A other \in Present \ (overtaken[c] \cup {code}) :
                  rows[other].status = "complete" =>
                      rows[other].body.sharepoint # rows'[code].body.sharepoint
<1>1. ASSUME MappingInv, [Next]_vars PROVE [Taken]_vars
  <2>1. SUFFICES ASSUME Next, NEW c \in Calls, NEW code \in Codes, Writes(c, code),
                        call[c].kind = "sync", rows' # rows,
                        NEW other \in Present \ (overtaken[c] \cup {code}),
                        rows[other].status = "complete"
                 PROVE  rows[other].body.sharepoint # rows'[code].body.sharepoint
    BY <1>1
  <2>2. SetRows(Written(c))
    BY <1>1, <2>1, WritesItsRow
  <2>3. FreeSite(c, code, rows'[code].body.sharepoint)
    <3>1. /\ rows'[code] = call[c].plan[code]
          /\ Sound(c, call[c].kind, code, call[c].plan[code])
      BY <1>1, <2>1, <2>2, SoundWhenWritten
    <3>2. QED
      BY <2>1, <3>1 DEF Sound
  <2>4. QED
    BY <2>1, <2>3 DEF FreeSite, Present
<1>2. [][Taken]_vars <=> SyncTakesFreeSites
  BY DEF SyncTakesFreeSites
<1> HIDE DEF Taken
<1>3. QED
  BY AlwaysMapping, <1>1, <1>2, PTL DEF Spec

\* enrich_email_groups writes a whole row, yet the name, the site and the Odoo
\* project in it stay, unless the row changed while Graph was asked.
THEOREM EnrichmentsKeepEntries == Spec => EnrichmentKeepsEntries
<1> DEFINE Kept ==
        \A c \in Calls, code \in Codes :
            (Writes(c, code) /\ call[c].kind = "enrich" /\ code \notin overtaken[c])
            => Entered(rows'[code]) = Entered(rows[code])
<1>1. ASSUME MappingInv, [Next]_vars PROVE [Kept]_vars
  <2>1. SUFFICES ASSUME Next, NEW c \in Calls, NEW code \in Codes, Writes(c, code),
                        call[c].kind = "enrich", code \notin overtaken[c]
                 PROVE  Entered(rows'[code]) = Entered(rows[code])
    BY <1>1
  <2>2. CASE SetRows(Written(c))
    BY <1>1, <2>1, <2>2, SoundWhenWritten DEF Sound
  <2>3. QED
    BY <1>1, <2>1, <2>2, WritesItsRow
<1>2. [][Kept]_vars <=> EnrichmentKeepsEntries
  BY DEF EnrichmentKeepsEntries
<1> HIDE DEF Kept
<1>3. QED
  BY AlwaysMapping, <1>1, <1>2, PTL DEF Spec
=============================================================================
