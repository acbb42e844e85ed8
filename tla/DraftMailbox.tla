---------------------------- MODULE DraftMailbox ----------------------------
(***************************************************************************)
(* The IMAP drafts folder, and what the commands of GmailProvider          *)
(* (src/src/email/gmail.rs, the EmailProvider of the program) do to it.    *)
(* IMAP assigns UIDs in strictly ascending order and never reuses one; a   *)
(* message never changes once appended, except for its \Deleted flag.      *)
(***************************************************************************)
EXTENDS Integers

VARIABLES
    drafts,         \* the messages of the folder
    nextUid         \* UIDNEXT of the folder

mailboxVars == <<drafts, nextUid>>

MailboxInit ==
    /\ drafts = {}
    /\ nextUid = 1

DraftsWithUid(uid) == {d \in drafts : d.uid = uid}

(* APPEND, the first command of create_draft.                              *)
AppendDraft(subject, data) ==
    /\ drafts' = drafts \cup {[uid |-> nextUid, subject |-> subject,
                               data |-> data, deleted |-> FALSE]}
    /\ nextUid' = nextUid + 1

(* create_draft then searches for the first 100 characters of the subject: *)
(* the key (or, if it is long, a part of it) and at most the index and the *)
(* chunk count, never the object id or the hash.  Drafts of earlier        *)
(* uploads to the same key are hits too, and the largest UID is taken.     *)
SearchHits(folder, subject) ==
    {d.uid : d \in {e \in folder : e.subject.key = subject.key}}

(* Mutation: the smallest UID is taken.                                    *)
IsOldest(uid, hits) == uid \in hits /\ \A other \in hits : other >= uid

IsNewest(uid, hits) == uid \in hits /\ \A other \in hits : other <= uid

(* delete_draft: STORE +FLAGS (\Deleted), then EXPUNGE, which removes      *)
(* every flagged message of the folder, not this one alone.                *)
DeleteDraft(uid) ==
    /\ drafts' = {d \in drafts : d.uid # uid /\ ~d.deleted}
    /\ UNCHANGED nextUid

(* EXPUNGE alone: a delete_draft whose STORE was refused.                  *)
ExpungeDrafts ==
    /\ drafts' = {d \in drafts : ~d.deleted}
    /\ UNCHANGED nextUid

(* STORE alone: a delete_draft whose EXPUNGE failed.                       *)
FlagDraft(uid) ==
    /\ drafts' = {d \in drafts : d.uid # uid} \cup
                    {[d EXCEPT !.deleted = TRUE] : d \in DraftsWithUid(uid)}
    /\ UNCHANGED nextUid
=============================================================================
