--------------------------- MODULE MCSourceMapping ---------------------------
(* SourceMapping with one verified and one synchronised project.           *)
EXTENDS SourceMapping, TLC

CONSTANTS p1, o7, s1, s2, s3, m1

CallSymmetry == Permutations(Calls)

SmallFileSite == [code \in Verified |-> s1]

(* Bodies that are put: a good one, one that enables e-mail with a member  *)
(* as mailbox, one with a placeholder site and nothing enabled.            *)
SmallBodies ==
    {[SyncedBody(s2) EXCEPT !.project_name = "other name", !.odoo.name = "other name"],
     [FileBody(s2, m1) EXCEPT !.mailboxes = {m1}, !.microsoft.mail = "",
                              !.microsoft.status = "GROUP_FOUND_NO_MAILBOX"],
     [SyncedBody("example-site") EXCEPT !.enabled_sources = {"odoo"}]}
=============================================================================
