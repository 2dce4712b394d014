------------------------- MODULE MCEvidencePipeline -------------------------
(* EvidencePipeline for a few projects, roles and queries.  The keys let a  *)
(* document meet its copy in another source, and the titles its copy in the*)
(* same one.                                                               *)
EXTENDS EvidencePipeline

CONSTANTS k1, k2, k3, t1, n1, n2

MCProject(enabled, shared, group, odoo_name, analytic, extended) ==
    [enabled |-> enabled, shared |-> shared, group |-> group,
     verified |-> analytic, name |-> n1, odoo_name |-> odoo_name,
     linked |-> TRUE, analytic |-> analytic, extended |-> extended]

MCProjects ==
    {MCProject(ProjectSources, {"other"}, {"id", "mail", "mail_enabled"}, n1, TRUE, TRUE),
     MCProject(ProjectSources, {}, {"mail"}, n2, FALSE, FALSE),
     MCProject(ProjectSources, {}, {"mail", "mail_enabled"}, NoName, FALSE, FALSE),
     MCProject(ProjectSources, {"caller", "other"}, {}, n1, TRUE, FALSE),
     MCProject({"odoo", "sharepoint"}, {"caller"}, {}, NoName, FALSE, TRUE)}

MCExtended == [project |-> 1, analytic |-> 1]

MCNames == {n1, n2, NoName}

MCRoles == {"executive", "finance", "document_control", "auditor", "none"}

MCQueries == {[financial |-> TRUE, cost_words |-> TRUE],
              [financial |-> TRUE, cost_words |-> FALSE],
              [financial |-> FALSE, cost_words |-> FALSE]}

MCKeysOf == [odoo |-> {k1, k3}, sharepoint |-> {k1, k2}, owncloud |-> {k2},
             email |-> {k1}]

MCTitlesOf == [odoo |-> {t1}, sharepoint |-> {t1, NoTitle}, owncloud |-> {t1},
               email |-> {NoTitle}]
=============================================================================
