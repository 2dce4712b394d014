---------------------------- MODULE MappingRules ----------------------------
(***************************************************************************)
(* The pure rules about one row of source_mappings: which validation       *)
(* errors a row has, what status it earns, what start-up makes of the row  *)
(* of a verified project, and what the Graph programs propose for it.      *)
(*                                                                         *)
(* A text column is a value; "" is the empty text and Placeholders are the *)
(* values the code recognises as placeholders ("example-...", mail at      *)
(* example.com, "/projects/prj-n").  The site, drive and root folder of    *)
(* SharePoint are written together everywhere but in PUT, and are one      *)
(* value; so are the mailboxes of a project.                               *)
(***************************************************************************)
EXTENDS Integers, FiniteSets

CONSTANTS
    Sites,             \* SharePoint sites
    Mailboxes,         \* real mail addresses
    Placeholders,      \* values that stand for nothing real
    OwnCloudConfigured,\* the service has an ownCloud account
    TopCandidates      \* sites a rescan looks at closely (5 in the code)

ASSUME MappingRulesAssumption ==
    /\ "" \notin Sites \cup Mailboxes \cup Placeholders
    /\ Placeholders \cap (Sites \cup Mailboxes \cup {"name", "other name", "folder"}) = {}
    /\ OwnCloudConfigured \in BOOLEAN
    /\ IsFiniteSet(Sites)
    /\ TopCandidates \in Nat
    /\ TopCandidates >= 2

-----------------------------------------------------------------------------
(* The columns.                                                            *)

Sources == {"sharepoint", "owncloud", "email", "odoo"}

(* What an enrichment of a row with a group found.                         *)
Enriched == {"GROUP_MEMBERS_READ", "GROUP_FOUND_NO_MEMBERS",
             "GROUP_FOUND_NO_MAILBOX"}

GroupStatus == Enriched \cup {"", "NO_SHAREPOINT_SITE", "NO_GROUP_SOURCE"}

OdooIds == {"", "PRJ", "number"}

Texts(values) == values \cup Placeholders \cup {""}

Microsoft ==
    [mail         : Texts(Mailboxes), \* the group's own address
     mail_enabled : BOOLEAN,
     members      : SUBSET Mailboxes,
     status       : GroupStatus,
     blockers     : BOOLEAN]

Body ==
    [project_name    : Texts({"name", "other name"}),
     sharepoint      : Texts(Sites),
     owncloud        : Texts({"folder"}),
     mailboxes       : SUBSET (Mailboxes \cup Placeholders),
     microsoft       : Microsoft,
     odoo            : [id : OdooIds, name : {"", "name", "other name"}],
     enabled_sources : SUBSET Sources]

Statuses == {"complete", "incomplete", "disabled"}

Row == [body : Body, status : Statuses]

NoRow == [status |-> "absent"]

NoMicrosoft == [mail |-> "", mail_enabled |-> FALSE, members |-> {},
                status |-> "", blockers |-> FALSE]

-----------------------------------------------------------------------------
(* _compute_mapping_status.                                                *)

RealEmail(address) == address # "" /\ address \notin Placeholders

GroupMailboxValid(ms) == ms.mail_enabled /\ RealEmail(ms.mail)

HasPlaceholder(b) ==
    \/ {b.project_name, b.sharepoint, b.owncloud, b.microsoft.mail}
           \cap Placeholders # {}
    \/ b.mailboxes \cap Placeholders # {}

EmailErrors(b) ==
    {error \in {"member_as_mailbox", "group_mail_disabled", "no_mailbox"} :
        CASE error = "member_as_mailbox" ->
                b.mailboxes \cap b.microsoft.members # {}
          [] error = "group_mail_disabled" ->
                b.microsoft.mail # "" /\ ~b.microsoft.mail_enabled
          [] error = "no_mailbox" ->
                /\ \A m \in b.mailboxes : ~RealEmail(m)
                /\ ~GroupMailboxValid(b.microsoft)}

OdooErrors(b) ==
    {error \in {"odoo_id", "odoo_name", "name_mismatch"} :
        CASE error = "odoo_id" -> b.odoo.id # "number"
          [] error = "odoo_name" -> b.odoo.name = ""
          [] error = "name_mismatch" ->
                /\ "" \notin {b.project_name, b.odoo.name}
                /\ b.project_name # b.odoo.name}

ValidationErrors(b) ==
    LET on(source) == source \in b.enabled_sources
    IN  {error \in {"nothing_enabled", "placeholder", "blockers",
                    "sharepoint", "owncloud_account", "owncloud"} :
            CASE error = "nothing_enabled" -> b.enabled_sources = {}
              [] error = "placeholder" -> HasPlaceholder(b)
              [] error = "blockers" -> b.microsoft.blockers
              [] error = "sharepoint" ->
                    on("sharepoint") /\ b.sharepoint = ""
              [] error = "owncloud_account" ->
                    on("owncloud") /\ ~OwnCloudConfigured
              [] error = "owncloud" -> on("owncloud") /\ b.owncloud = ""}
        \cup (IF on("email") THEN EmailErrors(b) ELSE {})
        \cup (IF on("odoo") THEN OdooErrors(b) ELSE {})

ComputedStatus(b) ==
    IF ValidationErrors(b) = {} THEN "complete" ELSE "incomplete"

(* What the screens show of a row: a stored "disabled" as it is, anything  *)
(* else computed again from the columns.                                   *)
ShownStatus(row) ==
    IF row.status = "disabled" THEN "disabled" ELSE ComputedStatus(row.body)

-----------------------------------------------------------------------------
(* What init_schema does to the rows of the verified projects.             *)

FileBody(site, mailbox) ==
    [project_name |-> "name", sharepoint |-> site, owncloud |-> "",
     mailboxes |-> {},
     microsoft |-> [mail |-> mailbox, mail_enabled |-> TRUE,
                    members |-> Mailboxes \ {mailbox},
                    status |-> "GROUP_MEMBERS_READ", blockers |-> FALSE],
     odoo |-> [id |-> "number", name |-> "name"],
     enabled_sources |-> {"email", "odoo", "sharepoint"}]

(* _migrate_verified_prj_source_mappings: source coordinates always come   *)
(* from the file; Graph data, enabled sources and status only when no      *)
(* enrichment has found a group.                                           *)
Migrated(row, file) ==
    LET coordinates == [row.body EXCEPT !.project_name = file.project_name,
                                        !.sharepoint = file.sharepoint,
                                        !.owncloud = file.owncloud,
                                        !.mailboxes = file.mailboxes,
                                        !.odoo = file.odoo]
    IN  IF row.body.microsoft.status \in Enriched
        THEN [row EXCEPT !.body = coordinates]
        ELSE [body |-> [coordinates EXCEPT
                           !.microsoft = file.microsoft,
                           !.enabled_sources = file.enabled_sources],
              status |-> "complete"]

-----------------------------------------------------------------------------
(* The Graph programs.                                                     *)

(* _enrich_project: the answers of Graph for the row it was given.  A site *)
(* without a group and a request that failed look the same.                *)
GroupFound(mail, enabled, members) ==
    LET usable == enabled /\ RealEmail(mail)
    IN  [mail |-> mail, mail_enabled |-> enabled, members |-> members,
         status |-> IF members # {} THEN "GROUP_MEMBERS_READ"
                    ELSE IF usable THEN "GROUP_FOUND_NO_MEMBERS"
                    ELSE "GROUP_FOUND_NO_MAILBOX",
         blockers |-> ~usable]

(* A bug: the answer keeps no status for a group that was not found.       *)
UnnamedNoGroup(status) ==
    [NoMicrosoft EXCEPT !.status = "NO_GROUP", !.blockers = TRUE]

NoGroup(status) ==
    [NoMicrosoft EXCEPT !.status = status, !.blockers = TRUE]

EnrichmentResults(b) ==
    IF b.sharepoint = "" THEN {NoGroup("NO_SHAREPOINT_SITE")}
    ELSE {NoGroup("NO_GROUP_SOURCE")}
         \cup {GroupFound(g.mail, g.enabled, g.members) :
                  g \in [mail : Mailboxes \cup {""}, enabled : BOOLEAN,
                         members : SUBSET Mailboxes]}

(* enrich_email_groups: the body written for a project, from the row read  *)
(* before Graph was asked.                                                 *)
(* A bug: the project's name is not carried over.                          *)
NamelessEnrichedBody(b, ms) ==
    [b EXCEPT !.project_name = "", !.microsoft = ms]

EnrichedBody(b, ms) ==
    [b EXCEPT
        !.mailboxes = @ \ ms.members,
        !.owncloud = "",
        !.microsoft = ms,
        !.enabled_sources = (@ \ {"owncloud", "email"})
            \cup (IF GroupMailboxValid(ms) THEN {"email"} ELSE {})]

(* sync_odoo_sharepoint: the body written for a matched pair.              *)
(* A bug: e-mail is enabled although the pair brings no mailbox.           *)
MailedSyncedBody(site) ==
    [project_name |-> "name", sharepoint |-> site, owncloud |-> "",
     mailboxes |-> {}, microsoft |-> NoMicrosoft,
     odoo |-> [id |-> "number", name |-> "name"],
     enabled_sources |-> {"sharepoint", "odoo", "email"}]

SyncedBody(site) ==
    [project_name |-> "name", sharepoint |-> site, owncloud |-> "",
     mailboxes |-> {}, microsoft |-> NoMicrosoft,
     odoo |-> [id |-> "number", name |-> "name"],
     enabled_sources |-> {"sharepoint", "odoo"}]

(* The sites of rows stored as complete, which a sync does not give away.  *)
(* A bug: the status is computed again instead of read.                    *)
ShownConfirmedSites(table) ==
    {table[c].body.sharepoint :
        c \in {d \in DOMAIN table : ShownStatus(table[d]) = "complete"}} \ {""}

ConfirmedSites(table) ==
    {table[c].body.sharepoint :
        c \in {d \in DOMAIN table : table[d].status = "complete"}} \ {""}

PlaceholderSite(site) == site = "" \/ site \in Placeholders

(* confirm_microsoft_mapping: the body written, from the row read before.  *)
ConfirmedBody(b, site, mailboxes) ==
    [b EXCEPT !.sharepoint = site,
              !.mailboxes = IF mailboxes = {} THEN @ ELSE mailboxes]

(* _rescan_one_project, for a row without a site: how well each site's     *)
(* name matches.  Of the matches, ordered by strength and confidence, only *)
(* the first TopCandidates are looked at; confidence is not modelled, so   *)
(* among equally strong ones any may come first.                           *)
Strengths == {"strong", "medium", "weak", "none"}

Rank(strength) ==
    CASE strength = "strong" -> 0 [] strength = "medium" -> 1
      [] strength = "weak" -> 2 [] strength = "none" -> 3

(* A bug: the matches are not sorted before the first few are taken.       *)
UnsortedCandidates(match) ==
    LET scored == {s \in DOMAIN match : match[s] # "none"}
    IN  {top \in SUBSET scored :
            Cardinality(top) = IF Cardinality(scored) < TopCandidates
                               THEN Cardinality(scored) ELSE TopCandidates}

Candidates(match) ==
    LET scored == {s \in DOMAIN match : match[s] # "none"}
    IN  {top \in SUBSET scored :
            /\ Cardinality(top) =
                  IF Cardinality(scored) < TopCandidates
                  THEN Cardinality(scored) ELSE TopCandidates
            /\ \A s \in top, t \in scored \ top : Rank(match[s]) <= Rank(match[t])}

StrongIn(match, sites) == {s \in sites : match[s] = "strong"}

Discovered(match, top) ==
    LET strong == StrongIn(match, top)
    IN  CASE top = {} -> "MISSING_SHAREPOINT"
          [] Cardinality(strong) = 1 -> "AUTO_MAPPED"
          [] Cardinality(strong) > 1 -> "CONFLICT"
          [] OTHER -> "NEEDS_CONFIRMATION"
=============================================================================
