-------------------------- MODULE MCMailWorkspace --------------------------
(* Small instance of MailWorkspace: a received e-mail, one of its thread   *)
(* that may come or be sent, and a draft that may be saved.                *)
EXTENDS MailWorkspace

MCMailIds == {"mail-1", "mail-1-reply"}
MCDraftIds == {"new-draft"}
MCSchedIds == {}
MCSeededEmails == [m \in {"mail-1"} |-> [folder |-> "Inbox", isStarred |-> FALSE]]
MCCategories == {"Work"}
MCCategoryOf == [m \in MCMailIds |-> IF m = "mail-1" THEN "Work" ELSE "Primary"]
MCThreadOf == [m \in MCMailIds \cup MCDraftIds \cup MCSchedIds |->
                 IF m \in MCMailIds THEN "Q3" ELSE m]
MCHits == {"mail-1", "new-draft"}
=============================================================================
