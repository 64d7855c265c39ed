----------------------- MODULE ArchiveReviewProperties -----------------------
(***************************************************************************)
(* What the review pipeline promises about the files it leaves, however    *)
(* its calls interleave and wherever they stop.                            *)
(***************************************************************************)
EXTENDS ArchiveReview

\* Every file has the front matter its handler writes.
CallRecord ==
  [stage : Stages, request : Requests \cup {None}, draft : Drafts \cup {None},
   made : Drafts \cup Verifications \cup {None},
   readRequest : RequestFile, readDraft : DraftFile]

TypeOK ==
  /\ request \in [Requests -> RequestFile]
  /\ draft \in [Drafts -> DraftFile]
  /\ verification \in [Verifications -> VerificationFile]
  /\ call \in [Calls -> CallRecord]

\* No file on disk names a file that is not there: the new file is written
\* before the file that names it is written back (executeArchiveReviewDraft,
\* executeArchiveReviewArtifactVerify, executeArchiveReviewArtifactRevise), so
\* a host that dies between the two leaves an unnamed file, never a dangling
\* name; and a write-back of old text names only files that are still there.
ReferencesResolve ==
  /\ \A r \in Requests : request[r].draft # None =>
       DraftWritten(request[r].draft) /\ draft[request[r].draft].request = r
  /\ \A d \in Drafts : DraftWritten(d) =>
       /\ draft[d].request # None /\ RequestWritten(draft[d].request)
       /\ draft[d].verifier # None => VerificationWritten(draft[d].verifier)
       /\ draft[d].supersedes # None => DraftWritten(draft[d].supersedes)

\* A verdict shown on a draft is the verdict of the record the draft names,
\* and that record is about this draft, also when several verifications and
\* revisions of the draft write it back in any order: promotion and the panel
\* trust the two to agree (executeArchiveReviewArtifactPromote).
VerdictIsRecorded ==
  \A d \in Drafts :
    /\ draft[d].verdict \in Verdicts => draft[d].verifier # None
    /\ draft[d].verifier # None =>
         verification[draft[d].verifier] = [verdict |-> draft[d].verdict, draft |-> d]

\* A draft is called superseded only by naming a revision which names it back
\* and belongs to the same request: the history of a page can be followed in
\* both directions (executeArchiveReviewArtifactRevise).
RevisionsArePaired ==
  \A d \in Drafts : draft[d].revision = "superseded" =>
    /\ draft[d].revisedDraft # None
    /\ draft[draft[d].revisedDraft].supersedes = d
    /\ draft[draft[d].revisedDraft].request = draft[d].request

\* No step takes back what the history of a page rests on: a file that was
\* written stays, a draft keeps its request and the draft it supersedes though
\* it is written back whole from old text, and a verifier record is final.
FilesOnlyGrow ==
  /\ \A r \in Requests : RequestWritten(r) => request'[r].status # "absent"
  /\ \A d \in Drafts : DraftWritten(d) =>
       /\ draft'[d].verdict # "absent"
       /\ draft'[d].request = draft[d].request
       /\ draft'[d].supersedes = draft[d].supersedes
  /\ \A v \in Verifications :
       VerificationWritten(v) => verification'[v] = verification[v]
HistoryIsKept == [][FilesOnlyGrow]_vars

\* A draft whose verifier record says verified, for this draft and its
\* request, can be promoted (ADR-012: approved artifacts become eligible for
\* promotion; the policy's own test accepts such a draft).
VerifiedIsPromotable ==
  \A d \in Drafts :
    draft[d].verdict = "verified" /\ draft[d].verifier # None => Promotable(d)

=============================================================================
