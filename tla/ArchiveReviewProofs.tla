------------------------ MODULE ArchiveReviewProofs ------------------------
(***************************************************************************)
(* Proofs about the review pipeline, for any number of requests, drafts,   *)
(* verifier records and calls under way.                                   *)
(*                                                                         *)
(* The invariants of the files are not inductive by themselves: a handler  *)
(* writes back text it read long ago.  The strengthening says of every     *)
(* text a call holds what the invariants say of a file, judged against the *)
(* files of NOW.  It survives because the files only grow (FilesOnlyGrow): *)
(* whatever an old text names is still there, with the same request, the   *)
(* same superseded draft and the same verdict.                             *)
(***************************************************************************)
EXTENDS ArchiveReviewProperties, TLAPS

-----------------------------------------------------------------------------
(***************************************************************************)
(* The strengthening.  rq, dr and vf stand for the files, so that a text   *)
(* can be judged against the files before and after a step.                *)
(***************************************************************************)
SoundRequest(rq, dr, r, text) ==
  /\ rq[r].status # "absent"
  /\ text.status # "absent"
  /\ text.draft # None =>
       dr[text.draft].verdict # "absent" /\ dr[text.draft].request = r

SoundOrigin(rq, dr, text) ==
  /\ text.verdict # "absent"
  /\ text.request # None /\ rq[text.request].status # "absent"
  /\ text.supersedes # None => dr[text.supersedes].verdict # "absent"

SoundVerdict(vf, d, text) ==
  /\ text.verdict \in Verdicts => text.verifier # None
  /\ text.verifier # None =>
       /\ text.verdict \in Verdicts
       /\ vf[text.verifier] = [verdict |-> text.verdict, draft |-> d]

SoundRevision(dr, d, text) ==
  text.revision = "superseded" =>
    /\ text.revisedDraft # None
    /\ dr[text.revisedDraft].verdict # "absent"
    /\ dr[text.revisedDraft].supersedes = d
    /\ dr[text.revisedDraft].request = text.request

SoundDraft(rq, dr, vf, d, text) ==
  /\ SoundOrigin(rq, dr, text)
  /\ SoundVerdict(vf, d, text)
  /\ SoundRevision(dr, d, text)

SoundRequestFile(rq, dr, r) ==
  /\ rq[r].status = "absent" => rq[r].draft = None
  /\ rq[r].status # "absent" => SoundRequest(rq, dr, r, rq[r])

SoundDraftFile(rq, dr, vf, d) ==
  /\ dr[d].verdict = "absent" => dr[d] = NoDraft
  /\ dr[d].verdict # "absent" => SoundDraft(rq, dr, vf, d, dr[d])

SoundFiles(rq, dr, vf) ==
  /\ \A r \in Requests : SoundRequestFile(rq, dr, r)
  /\ \A d \in Drafts : SoundDraftFile(rq, dr, vf, d)

OnRequestFile == {"transition", "draft", "link"}
OnDraftFile == {"verify", "report", "revise", "retire"}

SoundRequestCall(rq, dr, k) ==
  k.stage \in OnRequestFile =>
    /\ k.request \in Requests
    /\ SoundRequest(rq, dr, k.request, k.readRequest)
    /\ k.stage = "link" =>
         /\ k.made \in Drafts
         /\ dr[k.made].verdict # "absent"
         /\ dr[k.made].request = k.request

SoundDraftCall(rq, dr, vf, k) ==
  k.stage \in OnDraftFile =>
    /\ k.draft \in Drafts
    /\ SoundDraft(rq, dr, vf, k.draft, k.readDraft)
    /\ dr[k.draft].verdict # "absent"
    /\ dr[k.draft].request = k.readDraft.request
    /\ dr[k.draft].supersedes = k.readDraft.supersedes

SoundResult(dr, vf, k) ==
  /\ k.stage = "report" =>
       /\ k.made \in Verifications
       /\ vf[k.made].verdict \in Verdicts
       /\ vf[k.made].draft = k.draft
  /\ k.stage = "retire" =>
       /\ k.made \in Drafts
       /\ dr[k.made].verdict # "absent"
       /\ dr[k.made].supersedes = k.draft
       /\ dr[k.made].request = k.readDraft.request

SoundCall(rq, dr, vf, k) ==
  /\ SoundRequestCall(rq, dr, k)
  /\ SoundDraftCall(rq, dr, vf, k)
  /\ SoundResult(dr, vf, k)

Sound ==
  /\ SoundFiles(request, draft, verification)
  /\ \A c \in Calls : SoundCall(request, draft, verification, call[c])

IInv == TypeOK /\ Sound

-----------------------------------------------------------------------------
(***************************************************************************)
(* Types.                                                                  *)
(***************************************************************************)
\* Nothing is written and no call is under way at the start.
LEMMA TypeInit == Init => TypeOK
BY DEF Init, TypeOK, RequestFile, DraftFile, VerificationFile, CallRecord, Statuses, Verdicts, Stages, NoRequest, NoDraft, NewDraft, NoVerification, IdleCall

\* Blank front matter and an idle call have the types of their kinds.
LEMMA BlankTypes ==
  /\ NoRequest \in RequestFile
  /\ NoDraft \in DraftFile
  /\ IdleCall \in CallRecord
  /\ \A r \in Requests : NewDraft(r) \in DraftFile
BY DEF NoRequest, NoDraft, NewDraft, IdleCall, RequestFile, DraftFile, CallRecord, Stages, Statuses, Verdicts

\* A call under way on a file knows which file that is; what it has made is
\* of the kind its stage says.
CallTyped(k) ==
  /\ k.stage \in OnRequestFile => k.request \in Requests
  /\ k.stage \in OnDraftFile => k.draft \in Drafts
  /\ k.stage \in {"link", "retire"} => k.made \in Drafts
  /\ k.stage = "report" => k.made \in Verifications

\* Every handler writes front matter of the right kind.
LEMMA TypeNext == IInv /\ [Next]_vars => TypeOK'
<1> SUFFICES ASSUME IInv, [Next]_vars PROVE TypeOK'
  OBVIOUS
<1> USE BlankTypes
<1>1. ASSUME NEW r \in Requests, ReviewRequest(r) PROVE TypeOK'
  BY <1>1 DEF IInv, TypeOK, RequestFile, DraftFile, VerificationFile, CallRecord, Statuses, Verdicts, Stages, ReviewRequest
<1>2. ASSUME NEW c \in Calls, NEW r \in Requests, ReadForTransition(c, r) PROVE TypeOK'
  BY <1>2 DEF IInv, TypeOK, RequestFile, DraftFile, VerificationFile, CallRecord, Statuses, Verdicts, Stages, ReadForTransition, Begin, OnRequest, IdleCall
<1>3. ASSUME NEW c \in Calls, NEW s \in Statuses, WriteTransition(c, s) PROVE TypeOK'
  <2> DEFINE k == call[c]
             text == [k.readRequest EXCEPT !.status = s]
  <2>1. k \in CallRecord
    BY DEF IInv, TypeOK
  <2>2. CallTyped(k) /\ k.stage = "transition"
    BY <1>3 DEF IInv, Sound, CallTyped, SoundCall, SoundRequestCall, SoundDraftCall, SoundResult, OnRequestFile, OnDraftFile, WriteTransition
  <2>3. text \in RequestFile
    BY <2>1, <2>2 DEF CallRecord, CallTyped, OnRequestFile, OnDraftFile, RequestFile, Statuses
  <2>4. request' \in [Requests -> RequestFile]
    BY <1>3, <2>2, <2>3 DEF IInv, TypeOK, WriteTransition
  <2>5. call' \in [Calls -> CallRecord]
    BY <1>3, <2>1 DEF IInv, TypeOK, CallRecord, Stages, WriteTransition, End
  <2>6. QED
    BY <1>3, <2>4, <2>5 DEF IInv, TypeOK, WriteTransition
<1>4. ASSUME NEW c \in Calls, NEW r \in Requests, ReadForDraft(c, r) PROVE TypeOK'
  BY <1>4 DEF IInv, TypeOK, RequestFile, DraftFile, VerificationFile, CallRecord, Statuses, Verdicts, Stages, ReadForDraft, Begin, OnRequest, IdleCall
<1>5. ASSUME NEW c \in Calls, NEW d \in Drafts, WriteDraft(c, d) PROVE TypeOK'
  <2> DEFINE k == call[c]
             text == NewDraft(k.request)
  <2>1. k \in CallRecord
    BY DEF IInv, TypeOK
  <2>2. CallTyped(k) /\ k.stage = "draft"
    BY <1>5 DEF IInv, Sound, CallTyped, SoundCall, SoundRequestCall, SoundDraftCall, SoundResult, OnRequestFile, OnDraftFile, WriteDraft
  <2>3. text \in DraftFile
    BY <2>1, <2>2 DEF CallRecord, CallTyped, OnRequestFile, OnDraftFile, DraftFile, NewDraft, Verdicts
  <2>4. draft' \in [Drafts -> DraftFile]
    BY <1>5, <2>2, <2>3 DEF IInv, TypeOK, WriteDraft
  <2>5. call' \in [Calls -> CallRecord]
    BY <1>5, <2>1 DEF IInv, TypeOK, CallRecord, Stages, WriteDraft, Proceed
  <2>6. QED
    BY <1>5, <2>4, <2>5 DEF IInv, TypeOK, WriteDraft
<1>6. ASSUME NEW c \in Calls, LinkDraft(c) PROVE TypeOK'
  <2> DEFINE k == call[c]
             text == DraftedRequest(k)
  <2>1. k \in CallRecord
    BY DEF IInv, TypeOK
  <2>2. CallTyped(k) /\ k.stage = "link"
    BY <1>6 DEF IInv, Sound, CallTyped, SoundCall, SoundRequestCall, SoundDraftCall, SoundResult, OnRequestFile, OnDraftFile, LinkDraft
  <2>3. text \in RequestFile
    BY <2>1, <2>2 DEF CallRecord, CallTyped, OnRequestFile, OnDraftFile, RequestFile, DraftedRequest, Statuses
  <2>4. request' \in [Requests -> RequestFile]
    BY <1>6, <2>2, <2>3 DEF IInv, TypeOK, LinkDraft
  <2>5. call' \in [Calls -> CallRecord]
    BY <1>6, <2>1 DEF IInv, TypeOK, CallRecord, Stages, LinkDraft, End
  <2>6. QED
    BY <1>6, <2>4, <2>5 DEF IInv, TypeOK, LinkDraft
<1>7. ASSUME NEW c \in Calls, NEW d \in Drafts, ReadForVerify(c, d) PROVE TypeOK'
  BY <1>7 DEF IInv, TypeOK, RequestFile, DraftFile, VerificationFile, CallRecord, Statuses, Verdicts, Stages, ReadForVerify, Begin, OnDraft, IdleCall
<1>8. ASSUME NEW c \in Calls, NEW v \in Verifications, WriteVerification(c, v) PROVE TypeOK'
  <2>1. PICK w \in Verdicts : verification' = [verification EXCEPT ![v] = [verdict |-> w, draft |-> call[c].draft]]
    BY <1>8 DEF WriteVerification, FinalStatus, Verdicts
  <2>2. call[c] \in CallRecord /\ call[c].stage = "verify"
    BY <1>8 DEF IInv, TypeOK, WriteVerification
  <2>3. verification' \in [Verifications -> VerificationFile]
    BY <2>1, <2>2 DEF IInv, TypeOK, VerificationFile, CallRecord
  <2>4. call' \in [Calls -> CallRecord]
    BY <1>8, <2>2 DEF IInv, TypeOK, CallRecord, Stages, WriteVerification, Proceed
  <2>5. QED
    BY <1>8, <2>3, <2>4 DEF IInv, TypeOK, WriteVerification
<1>9. ASSUME NEW c \in Calls, ReportVerdict(c) PROVE TypeOK'
  <2> DEFINE k == call[c]
             text == VerifiedDraft(k)
  <2>1. k \in CallRecord
    BY DEF IInv, TypeOK
  <2>2. CallTyped(k) /\ k.stage = "report"
    BY <1>9 DEF IInv, Sound, CallTyped, SoundCall, SoundRequestCall, SoundDraftCall, SoundResult, OnRequestFile, OnDraftFile, ReportVerdict
  <2>7. verification[k.made].verdict \in Verdicts
    BY <2>2 DEF IInv, Sound, SoundCall, SoundResult
  <2>3. text \in DraftFile
    BY <2>1, <2>2, <2>7 DEF CallRecord, CallTyped, OnRequestFile, OnDraftFile, DraftFile, VerifiedDraft, Verdicts
  <2>4. draft' \in [Drafts -> DraftFile]
    BY <1>9, <2>2, <2>3 DEF IInv, TypeOK, ReportVerdict
  <2>5. call' \in [Calls -> CallRecord]
    BY <1>9, <2>1 DEF IInv, TypeOK, CallRecord, Stages, ReportVerdict, End
  <2>6. QED
    BY <1>9, <2>4, <2>5 DEF IInv, TypeOK, ReportVerdict
<1>10. ASSUME NEW c \in Calls, NEW d \in Drafts, ReadForRevise(c, d) PROVE TypeOK'
  BY <1>10 DEF IInv, TypeOK, RequestFile, DraftFile, VerificationFile, CallRecord, Statuses, Verdicts, Stages, ReadForRevise, Begin, OnDraft, IdleCall
<1>11. ASSUME NEW c \in Calls, NEW d \in Drafts, WriteRevision(c, d) PROVE TypeOK'
  <2> DEFINE k == call[c]
             text == RevisedDraft(k)
  <2>1. k \in CallRecord
    BY DEF IInv, TypeOK
  <2>2. CallTyped(k) /\ k.stage = "revise"
    BY <1>11 DEF IInv, Sound, CallTyped, SoundCall, SoundRequestCall, SoundDraftCall, SoundResult, OnRequestFile, OnDraftFile, WriteRevision
  <2>3. text \in DraftFile
    BY <2>1, <2>2 DEF CallRecord, CallTyped, OnRequestFile, OnDraftFile, DraftFile, RevisedDraft, NewDraft, Verdicts
  <2>4. draft' \in [Drafts -> DraftFile]
    BY <1>11, <2>2, <2>3 DEF IInv, TypeOK, WriteRevision
  <2>5. call' \in [Calls -> CallRecord]
    BY <1>11, <2>1 DEF IInv, TypeOK, CallRecord, Stages, WriteRevision, Proceed
  <2>6. QED
    BY <1>11, <2>4, <2>5 DEF IInv, TypeOK, WriteRevision
<1>12. ASSUME NEW c \in Calls, RetireDraft(c) PROVE TypeOK'
  <2> DEFINE k == call[c]
             text == SupersededDraft(k)
  <2>1. k \in CallRecord
    BY DEF IInv, TypeOK
  <2>2. CallTyped(k) /\ k.stage = "retire"
    BY <1>12 DEF IInv, Sound, CallTyped, SoundCall, SoundRequestCall, SoundDraftCall, SoundResult, OnRequestFile, OnDraftFile, RetireDraft
  <2>3. text \in DraftFile
    BY <2>1, <2>2 DEF CallRecord, CallTyped, OnRequestFile, OnDraftFile, DraftFile, SupersededDraft
  <2>4. draft' \in [Drafts -> DraftFile]
    BY <1>12, <2>2, <2>3 DEF IInv, TypeOK, RetireDraft
  <2>5. call' \in [Calls -> CallRecord]
    BY <1>12, <2>1 DEF IInv, TypeOK, CallRecord, Stages, RetireDraft, End
  <2>6. QED
    BY <1>12, <2>4, <2>5 DEF IInv, TypeOK, RetireDraft
<1>13. ASSUME NEW c \in Calls, Throw(c) PROVE TypeOK'
  BY <1>13 DEF IInv, TypeOK, RequestFile, DraftFile, VerificationFile, CallRecord, Statuses, Verdicts, Stages, Throw, End, IdleCall
<1>14. ASSUME Crash PROVE TypeOK'
  BY <1>14 DEF IInv, TypeOK, RequestFile, DraftFile, VerificationFile, CallRecord, Statuses, Verdicts, Stages, Crash, IdleCall
<1>15. ASSUME UNCHANGED vars PROVE TypeOK'
  BY <1>15 DEF IInv, TypeOK, vars
<1>16. QED
  BY <1>1, <1>2, <1>3, <1>4, <1>5, <1>6, <1>7, <1>8, <1>9, <1>10, <1>11, <1>12, <1>13, <1>14, <1>15 DEF Next, CallSteps

-----------------------------------------------------------------------------
(***************************************************************************)
(* The files only grow, so a text stays as sound as it was.                *)
(***************************************************************************)
\* What a call holds is sound and typed.
LEMMA CallFacts ==
  ASSUME IInv, NEW c \in Calls
  PROVE  /\ call[c] \in CallRecord
         /\ SoundRequestCall(request, draft, call[c])
         /\ SoundDraftCall(request, draft, verification, call[c])
         /\ SoundResult(draft, verification, call[c])
         /\ CallTyped(call[c])
<1>1. call[c] \in CallRecord /\ SoundCall(request, draft, verification, call[c])
  BY DEF IInv, TypeOK, Sound
<1>2. QED
  BY <1>1 DEF CallTyped, SoundCall, SoundRequestCall, SoundDraftCall, SoundResult, OnRequestFile, OnDraftFile

\* A handler writes to a path of its own, or writes back a text whose request
\* and superseded draft are those of the file.
LEMMA Growing == ASSUME IInv, Next PROVE FilesOnlyGrow
<1>1. ASSUME NEW r \in Requests, ReviewRequest(r) PROVE FilesOnlyGrow
  BY <1>1 DEF IInv, TypeOK, FilesOnlyGrow, RequestWritten, DraftWritten, VerificationWritten, ReviewRequest
<1>2. ASSUME NEW c \in Calls, NEW r \in Requests, ReadForTransition(c, r) PROVE FilesOnlyGrow
  BY <1>2 DEF FilesOnlyGrow, RequestWritten, DraftWritten, VerificationWritten, ReadForTransition
<1>3. ASSUME NEW c \in Calls, NEW s \in Statuses, WriteTransition(c, s) PROVE FilesOnlyGrow
  <2>1. call[c].request \in Requests /\ call[c].readRequest \in RequestFile
    BY <1>3, CallFacts DEF CallTyped, OnRequestFile, CallRecord, WriteTransition
  <2>2. \A r \in Requests : RequestWritten(r) => request'[r].status # "absent"
    BY <1>3, <2>1 DEF IInv, TypeOK, RequestFile, RequestWritten, WriteTransition, Statuses
  <2>3. QED
    BY <1>3, <2>2 DEF FilesOnlyGrow, DraftWritten, VerificationWritten, WriteTransition
<1>4. ASSUME NEW c \in Calls, NEW r \in Requests, ReadForDraft(c, r) PROVE FilesOnlyGrow
  BY <1>4 DEF FilesOnlyGrow, RequestWritten, DraftWritten, VerificationWritten, ReadForDraft
<1>5. ASSUME NEW c \in Calls, NEW d \in Drafts, WriteDraft(c, d) PROVE FilesOnlyGrow
  BY <1>5 DEF IInv, TypeOK, FilesOnlyGrow, RequestWritten, DraftWritten, VerificationWritten, WriteDraft
<1>6. ASSUME NEW c \in Calls, LinkDraft(c) PROVE FilesOnlyGrow
  <2>1. call[c].request \in Requests /\ call[c].readRequest \in RequestFile
    BY <1>6, CallFacts DEF CallTyped, OnRequestFile, CallRecord, LinkDraft
  <2>2. \A r \in Requests : RequestWritten(r) => request'[r].status # "absent"
    BY <1>6, <2>1 DEF IInv, TypeOK, RequestFile, RequestWritten, LinkDraft, DraftedRequest
  <2>3. QED
    BY <1>6, <2>2 DEF FilesOnlyGrow, DraftWritten, VerificationWritten, LinkDraft
<1>7. ASSUME NEW c \in Calls, NEW d \in Drafts, ReadForVerify(c, d) PROVE FilesOnlyGrow
  BY <1>7 DEF FilesOnlyGrow, RequestWritten, DraftWritten, VerificationWritten, ReadForVerify
<1>8. ASSUME NEW c \in Calls, NEW v \in Verifications, WriteVerification(c, v) PROVE FilesOnlyGrow
  BY <1>8 DEF IInv, TypeOK, FilesOnlyGrow, RequestWritten, DraftWritten, VerificationWritten, WriteVerification
<1>9. ASSUME NEW c \in Calls, ReportVerdict(c) PROVE FilesOnlyGrow
  <2> DEFINE k == call[c]
  <2>1. k.draft \in Drafts /\ k.readDraft \in DraftFile
    BY <1>9, CallFacts DEF CallTyped, OnDraftFile, CallRecord, ReportVerdict
  <2>2. /\ draft[k.draft].request = k.readDraft.request
        /\ draft[k.draft].supersedes = k.readDraft.supersedes
        /\ k.readDraft.verdict # "absent"
    BY <1>9, CallFacts DEF SoundDraftCall, SoundDraft, SoundOrigin, OnDraftFile, ReportVerdict
  <2>3. k.stage = "report" => verification[k.made].verdict # "absent"
    BY CallFacts DEF SoundResult, Verdicts
  <2> DEFINE text == VerifiedDraft(k)
  <2>6. /\ text.verdict # "absent"
        /\ text.request = draft[k.draft].request
        /\ text.supersedes = draft[k.draft].supersedes
    BY <1>9, <2>1, <2>2, <2>3 DEF DraftFile, ReportVerdict, VerifiedDraft
  <2>7. draft' = [draft EXCEPT ![k.draft] = text] /\ draft \in [Drafts -> DraftFile]
    BY <1>9 DEF IInv, TypeOK, ReportVerdict
  <2>4. \A d \in Drafts : DraftWritten(d) =>
          /\ draft'[d].verdict # "absent"
          /\ draft'[d].request = draft[d].request
          /\ draft'[d].supersedes = draft[d].supersedes
    <3> HIDE DEF text
    <3>1. QED
      BY <2>6, <2>7 DEF DraftWritten
  <2>5. QED
    BY <1>9, <2>4 DEF FilesOnlyGrow, RequestWritten, VerificationWritten, ReportVerdict
<1>10. ASSUME NEW c \in Calls, NEW d \in Drafts, ReadForRevise(c, d) PROVE FilesOnlyGrow
  BY <1>10 DEF FilesOnlyGrow, RequestWritten, DraftWritten, VerificationWritten, ReadForRevise
<1>11. ASSUME NEW c \in Calls, NEW d \in Drafts, WriteRevision(c, d) PROVE FilesOnlyGrow
  BY <1>11 DEF IInv, TypeOK, FilesOnlyGrow, RequestWritten, DraftWritten, VerificationWritten, WriteRevision
<1>12. ASSUME NEW c \in Calls, RetireDraft(c) PROVE FilesOnlyGrow
  <2> DEFINE k == call[c]
  <2>1. k.draft \in Drafts /\ k.readDraft \in DraftFile
    BY <1>12, CallFacts DEF CallTyped, OnDraftFile, CallRecord, RetireDraft
  <2>2. /\ draft[k.draft].request = k.readDraft.request
        /\ draft[k.draft].supersedes = k.readDraft.supersedes
        /\ k.readDraft.verdict # "absent"
    BY <1>12, CallFacts DEF SoundDraftCall, SoundDraft, SoundOrigin, OnDraftFile, RetireDraft
  <2>3. k.stage = "report" => verification[k.made].verdict # "absent"
    BY CallFacts DEF SoundResult, Verdicts
  <2> DEFINE text == SupersededDraft(k)
  <2>6. /\ text.verdict # "absent"
        /\ text.request = draft[k.draft].request
        /\ text.supersedes = draft[k.draft].supersedes
    BY <1>12, <2>1, <2>2, <2>3 DEF DraftFile, RetireDraft, SupersededDraft
  <2>7. draft' = [draft EXCEPT ![k.draft] = text] /\ draft \in [Drafts -> DraftFile]
    BY <1>12 DEF IInv, TypeOK, RetireDraft
  <2>4. \A d \in Drafts : DraftWritten(d) =>
          /\ draft'[d].verdict # "absent"
          /\ draft'[d].request = draft[d].request
          /\ draft'[d].supersedes = draft[d].supersedes
    <3> HIDE DEF text
    <3>1. QED
      BY <2>6, <2>7 DEF DraftWritten
  <2>5. QED
    BY <1>12, <2>4 DEF FilesOnlyGrow, RequestWritten, VerificationWritten, RetireDraft
<1>13. ASSUME NEW c \in Calls, Throw(c) PROVE FilesOnlyGrow
  BY <1>13 DEF FilesOnlyGrow, RequestWritten, DraftWritten, VerificationWritten, Throw
<1>14. ASSUME Crash PROVE FilesOnlyGrow
  BY <1>14 DEF FilesOnlyGrow, RequestWritten, DraftWritten, VerificationWritten, Crash
<1>15. QED
  BY <1>1, <1>2, <1>3, <1>4, <1>5, <1>6, <1>7, <1>8, <1>9, <1>10, <1>11, <1>12, <1>13, <1>14 DEF Next, CallSteps

\* The text of a request stays sound while the files grow.
LEMMA RequestTextKept ==
  ASSUME FilesOnlyGrow, NEW r \in Requests, NEW text \in RequestFile,
         SoundRequest(request, draft, r, text)
  PROVE  SoundRequest(request', draft', r, text)
BY DEF SoundRequest, FilesOnlyGrow, RequestFile, RequestWritten, DraftWritten

\* So does the text of a draft.
LEMMA DraftTextKept ==
  ASSUME FilesOnlyGrow, NEW d \in Drafts, NEW text \in DraftFile,
         SoundDraft(request, draft, verification, d, text)
  PROVE  SoundDraft(request', draft', verification', d, text)
<1>1. SoundOrigin(request', draft', text)
  BY DEF SoundDraft, SoundOrigin, FilesOnlyGrow, DraftFile, RequestWritten, DraftWritten
<1>2. SoundVerdict(verification', d, text)
  <2>1. text.verifier # None => VerificationWritten(text.verifier)
    BY DEF SoundDraft, SoundVerdict, VerificationWritten, Verdicts
  <2>2. QED
    BY <2>1 DEF SoundDraft, SoundVerdict, FilesOnlyGrow, DraftFile
<1>3. SoundRevision(draft', d, text)
  BY DEF SoundDraft, SoundRevision, FilesOnlyGrow, DraftFile, DraftWritten
<1>4. QED
  BY <1>1, <1>2, <1>3 DEF SoundDraft

\* And so does what a call holds.
LEMMA CallKept ==
  ASSUME FilesOnlyGrow, NEW k \in CallRecord, CallTyped(k),
         SoundCall(request, draft, verification, k)
  PROVE  SoundCall(request', draft', verification', k)
<1>1. SoundRequestCall(request', draft', k)
  <2>1. SUFFICES ASSUME k.stage \in OnRequestFile
                 PROVE  SoundRequestCall(request', draft', k)
    BY DEF SoundRequestCall
  <2>2. k.request \in Requests /\ k.readRequest \in RequestFile
    BY <2>1 DEF CallTyped, CallRecord
  <2>3. SoundRequest(request', draft', k.request, k.readRequest)
    BY <2>1, <2>2, RequestTextKept DEF SoundCall, SoundRequestCall
  <2>4. QED
    BY <2>1, <2>2, <2>3 DEF SoundCall, SoundRequestCall, FilesOnlyGrow, DraftWritten
<1>2. SoundDraftCall(request', draft', verification', k)
  <2>1. SUFFICES ASSUME k.stage \in OnDraftFile
                 PROVE  SoundDraftCall(request', draft', verification', k)
    BY DEF SoundDraftCall
  <2>2. k.draft \in Drafts /\ k.readDraft \in DraftFile
    BY <2>1 DEF CallTyped, CallRecord
  <2>3. SoundDraft(request', draft', verification', k.draft, k.readDraft)
    BY <2>1, <2>2, DraftTextKept DEF SoundCall, SoundDraftCall
  <2>4. QED
    BY <2>1, <2>2, <2>3 DEF SoundCall, SoundDraftCall, FilesOnlyGrow, DraftWritten
<1>3. SoundResult(draft', verification', k)
  <2>1. k.stage = "report" => verification'[k.made] = verification[k.made]
    BY DEF SoundCall, SoundResult, FilesOnlyGrow, VerificationWritten, Verdicts
  <2>2. QED
    BY <2>1 DEF SoundCall, SoundResult, FilesOnlyGrow, DraftWritten
<1>4. QED
  BY <1>1, <1>2, <1>3 DEF SoundCall

\* A request file no step writes stays sound.
LEMMA RequestFileKept ==
  ASSUME IInv, FilesOnlyGrow, NEW r \in Requests, request'[r] = request[r]
  PROVE  SoundRequestFile(request', draft', r)
<1>1. request[r] \in RequestFile /\ SoundRequestFile(request, draft, r)
  BY DEF IInv, TypeOK, Sound, SoundFiles
<1>2. QED
  BY <1>1, RequestTextKept DEF SoundRequestFile

\* A draft file no step writes stays sound.
LEMMA DraftFileKept ==
  ASSUME IInv, FilesOnlyGrow, NEW d \in Drafts, draft'[d] = draft[d]
  PROVE  SoundDraftFile(request', draft', verification', d)
<1>1. draft[d] \in DraftFile /\ SoundDraftFile(request, draft, verification, d)
  BY DEF IInv, TypeOK, Sound, SoundFiles
<1>2. QED
  BY <1>1, DraftTextKept DEF SoundDraftFile

-----------------------------------------------------------------------------
(***************************************************************************)
(* The files stay sound.                                                   *)
(***************************************************************************)
\* A step writes at most one request and at most one draft; what it writes is
\* a blank file or a sound text with the name of the file just made.
LEMMA FilesNext ==
  ASSUME IInv, Next, FilesOnlyGrow
  PROVE  SoundFiles(request', draft', verification')
<1>1. ASSUME NEW r \in Requests, ReviewRequest(r) PROVE SoundFiles(request', draft', verification')
  <2>1. request'[r] = [status |-> "pending", draft |-> None]
    BY <1>1 DEF IInv, TypeOK, ReviewRequest
  <2>2. \A q \in Requests : SoundRequestFile(request', draft', q)
    <3> TAKE q \in Requests
    <3>1. CASE q = r
      BY <2>1, <3>1 DEF SoundRequestFile, SoundRequest
    <3>2. CASE q # r
      BY <1>1, <3>2, RequestFileKept DEF IInv, TypeOK, ReviewRequest
    <3>3. QED
      BY <3>1, <3>2
  <2>3. \A d \in Drafts : SoundDraftFile(request', draft', verification', d)
    BY <1>1, DraftFileKept DEF ReviewRequest
  <2>4. QED
    BY <2>2, <2>3 DEF SoundFiles
<1>2. ASSUME NEW c \in Calls, NEW r \in Requests, ReadForTransition(c, r) PROVE SoundFiles(request', draft', verification')
  BY <1>2, RequestFileKept, DraftFileKept DEF SoundFiles, ReadForTransition
<1>3. ASSUME NEW c \in Calls, NEW s \in Statuses, WriteTransition(c, s) PROVE SoundFiles(request', draft', verification')
  <2> DEFINE k == call[c]
  <2>1. k.request \in Requests /\ k.readRequest \in RequestFile
    BY <1>3, CallFacts DEF CallTyped, OnRequestFile, CallRecord, WriteTransition
  <2>2. SoundRequest(request', draft', k.request, k.readRequest)
    BY <1>3, <2>1, CallFacts, RequestTextKept DEF SoundRequestCall, OnRequestFile, WriteTransition
  <2>3. SoundRequest(request', draft', k.request, request'[k.request])
    BY <1>3, <2>1, <2>2, CallFacts DEF IInv, TypeOK, RequestFile, SoundRequest, SoundRequestCall, OnRequestFile, WriteTransition, Statuses
  <2>4. \A r \in Requests : SoundRequestFile(request', draft', r)
    <3> TAKE r \in Requests
    <3>1. CASE r = k.request
      BY <2>3, <3>1 DEF SoundRequestFile, SoundRequest
    <3>2. CASE r # k.request
      BY <1>3, <3>2, RequestFileKept DEF IInv, TypeOK, WriteTransition
    <3>3. QED
      BY <3>1, <3>2
  <2>5. \A d \in Drafts : SoundDraftFile(request', draft', verification', d)
    BY <1>3, DraftFileKept DEF WriteTransition
  <2>6. QED
    BY <2>4, <2>5 DEF SoundFiles
<1>4. ASSUME NEW c \in Calls, NEW r \in Requests, ReadForDraft(c, r) PROVE SoundFiles(request', draft', verification')
  BY <1>4, RequestFileKept, DraftFileKept DEF SoundFiles, ReadForDraft
<1>5. ASSUME NEW c \in Calls, NEW d \in Drafts, WriteDraft(c, d) PROVE SoundFiles(request', draft', verification')
  <2>1. /\ call[c].request \in Requests
        /\ request[call[c].request].status # "absent"
    BY <1>5, CallFacts DEF SoundRequestCall, SoundRequest, OnRequestFile, WriteDraft
  <2>2. draft'[d] = NewDraft(call[c].request)
    BY <1>5 DEF IInv, TypeOK, WriteDraft
  <2>3. SoundDraft(request', draft', verification', d, draft'[d])
    BY <1>5, <2>1, <2>2, NoneIsNoPath DEF SoundDraft, SoundOrigin, SoundVerdict, SoundRevision, NewDraft, Verdicts, WriteDraft
  <2>5. \A e \in Drafts : SoundDraftFile(request', draft', verification', e)
    <3> TAKE e \in Drafts
    <3>1. CASE e = d
      BY <2>3, <3>1 DEF SoundDraftFile, SoundDraft, SoundOrigin
    <3>2. CASE e # d
      BY <1>5, <3>2, DraftFileKept DEF IInv, TypeOK, WriteDraft
    <3>3. QED
      BY <3>1, <3>2
  <2>6. \A r \in Requests : SoundRequestFile(request', draft', r)
    BY <1>5, RequestFileKept DEF WriteDraft
  <2>7. QED
    BY <2>5, <2>6 DEF SoundFiles
<1>6. ASSUME NEW c \in Calls, LinkDraft(c) PROVE SoundFiles(request', draft', verification')
  <2> DEFINE k == call[c]
  <2>1. k.request \in Requests /\ k.readRequest \in RequestFile
    BY <1>6, CallFacts DEF CallTyped, OnRequestFile, CallRecord, LinkDraft
  <2>2. SoundRequest(request', draft', k.request, k.readRequest)
    BY <1>6, <2>1, CallFacts, RequestTextKept DEF SoundRequestCall, OnRequestFile, LinkDraft
  <2>3. SoundRequest(request', draft', k.request, request'[k.request])
    BY <1>6, <2>1, <2>2, CallFacts DEF IInv, TypeOK, RequestFile, SoundRequest, SoundRequestCall, OnRequestFile, LinkDraft, DraftedRequest
  <2>4. \A r \in Requests : SoundRequestFile(request', draft', r)
    <3> TAKE r \in Requests
    <3>1. CASE r = k.request
      BY <2>3, <3>1 DEF SoundRequestFile, SoundRequest
    <3>2. CASE r # k.request
      BY <1>6, <3>2, RequestFileKept DEF IInv, TypeOK, LinkDraft
    <3>3. QED
      BY <3>1, <3>2
  <2>5. \A d \in Drafts : SoundDraftFile(request', draft', verification', d)
    BY <1>6, DraftFileKept DEF LinkDraft
  <2>6. QED
    BY <2>4, <2>5 DEF SoundFiles
<1>7. ASSUME NEW c \in Calls, NEW d \in Drafts, ReadForVerify(c, d) PROVE SoundFiles(request', draft', verification')
  BY <1>7, RequestFileKept, DraftFileKept DEF SoundFiles, ReadForVerify
<1>8. ASSUME NEW c \in Calls, NEW v \in Verifications, WriteVerification(c, v) PROVE SoundFiles(request', draft', verification')
  BY <1>8, RequestFileKept, DraftFileKept DEF SoundFiles, WriteVerification
<1>9. ASSUME NEW c \in Calls, ReportVerdict(c) PROVE SoundFiles(request', draft', verification')
  <2> DEFINE k == call[c]
             text == draft'[k.draft]
  <2>1. k.draft \in Drafts /\ k.readDraft \in DraftFile
    BY <1>9, CallFacts DEF CallTyped, OnDraftFile, CallRecord, ReportVerdict
  <2>2. SoundDraft(request', draft', verification', k.draft, k.readDraft)
    BY <1>9, <2>1, CallFacts, DraftTextKept DEF SoundDraftCall, OnDraftFile, ReportVerdict
  <2>3. text = VerifiedDraft(k) /\ verification' = verification
    BY <1>9, <2>1 DEF IInv, TypeOK, ReportVerdict
  <2>4. /\ k.made \in Verifications
        /\ verification[k.made].verdict \in Verdicts
        /\ verification[k.made].draft = k.draft
    BY <1>9, CallFacts DEF SoundResult, ReportVerdict
  <2>5. verification[k.made] = [verdict |-> verification[k.made].verdict, draft |-> k.draft]
    BY <2>4 DEF IInv, TypeOK, VerificationFile
  <2>6. SoundOrigin(request', draft', text)
    BY <2>1, <2>2, <2>3, <2>4 DEF SoundDraft, SoundOrigin, VerifiedDraft, DraftFile, Verdicts
  <2>7. SoundVerdict(verification', k.draft, text)
    BY <2>1, <2>3, <2>4, <2>5, NoneIsNoPath DEF SoundVerdict, VerifiedDraft, DraftFile
  <2>8. SoundRevision(draft', k.draft, text)
    BY <2>1, <2>2, <2>3 DEF SoundDraft, SoundRevision, VerifiedDraft, DraftFile
  <2>9. SoundDraftFile(request', draft', verification', k.draft)
    BY <2>6, <2>7, <2>8 DEF SoundDraftFile, SoundDraft, SoundOrigin
  <2>10. \A d \in Drafts : SoundDraftFile(request', draft', verification', d)
    <3> TAKE d \in Drafts
    <3>1. CASE d = k.draft
      BY <2>9, <3>1
    <3>2. CASE d # k.draft
      BY <1>9, <3>2, DraftFileKept DEF IInv, TypeOK, ReportVerdict
    <3>3. QED
      BY <3>1, <3>2
  <2>11. \A r \in Requests : SoundRequestFile(request', draft', r)
    BY <1>9, RequestFileKept DEF ReportVerdict
  <2>12. QED
    BY <2>10, <2>11 DEF SoundFiles
<1>10. ASSUME NEW c \in Calls, NEW d \in Drafts, ReadForRevise(c, d) PROVE SoundFiles(request', draft', verification')
  BY <1>10, RequestFileKept, DraftFileKept DEF SoundFiles, ReadForRevise
<1>11. ASSUME NEW c \in Calls, NEW d \in Drafts, WriteRevision(c, d) PROVE SoundFiles(request', draft', verification')
  <2>1. /\ call[c].readDraft.request \in Requests
        /\ request[call[c].readDraft.request].status # "absent"
        /\ call[c].draft \in Drafts
        /\ draft[call[c].draft].verdict # "absent"
    BY <1>11, CallFacts DEF SoundDraftCall, SoundDraft, SoundOrigin, OnDraftFile, CallRecord, DraftFile, WriteRevision
  <2>2. draft'[d] = RevisedDraft(call[c])
    BY <1>11 DEF IInv, TypeOK, WriteRevision
  <2>4. draft'[call[c].draft].verdict # "absent"
    BY <2>1 DEF FilesOnlyGrow, DraftWritten
  <2> DEFINE text == RevisedDraft(call[c])
  <2>8. /\ text.verdict = "unverified" /\ text.verifier = None /\ text.revision = "revised"
        /\ text.request = call[c].readDraft.request /\ text.supersedes = call[c].draft
    BY DEF RevisedDraft, NewDraft
  <2>9. request' = request
    BY <1>11 DEF WriteRevision
  <2>3. SoundDraft(request', draft', verification', d, draft'[d])
    <3> HIDE DEF text
    <3>1. SoundOrigin(request', draft', text)
      BY <2>1, <2>4, <2>8, <2>9, NoneIsNoPath DEF SoundOrigin
    <3>2. SoundVerdict(verification', d, text) /\ SoundRevision(draft', d, text)
      BY <2>8 DEF SoundVerdict, SoundRevision, Verdicts
    <3>3. QED
      BY <2>2, <3>1, <3>2 DEF SoundDraft, text
  <2>5. \A e \in Drafts : SoundDraftFile(request', draft', verification', e)
    <3> TAKE e \in Drafts
    <3>1. CASE e = d
      BY <2>3, <3>1 DEF SoundDraftFile, SoundDraft, SoundOrigin
    <3>2. CASE e # d
      BY <1>11, <3>2, DraftFileKept DEF IInv, TypeOK, WriteRevision
    <3>3. QED
      BY <3>1, <3>2
  <2>6. \A r \in Requests : SoundRequestFile(request', draft', r)
    BY <1>11, RequestFileKept DEF WriteRevision
  <2>7. QED
    BY <2>5, <2>6 DEF SoundFiles
<1>12. ASSUME NEW c \in Calls, RetireDraft(c) PROVE SoundFiles(request', draft', verification')
  <2> DEFINE k == call[c]
             text == draft'[k.draft]
  <2>1. k.draft \in Drafts /\ k.readDraft \in DraftFile
    BY <1>12, CallFacts DEF CallTyped, OnDraftFile, CallRecord, RetireDraft
  <2>2. SoundDraft(request', draft', verification', k.draft, k.readDraft)
    BY <1>12, <2>1, CallFacts, DraftTextKept DEF SoundDraftCall, OnDraftFile, RetireDraft
  <2>3. text = SupersededDraft(k)
    BY <1>12, <2>1 DEF IInv, TypeOK, RetireDraft
  <2>4. /\ k.made \in Drafts
        /\ draft[k.made].verdict # "absent"
        /\ draft[k.made].supersedes = k.draft
        /\ draft[k.made].request = k.readDraft.request
    BY <1>12, CallFacts DEF SoundResult, RetireDraft
  <2>5. /\ draft'[k.made].verdict # "absent"
        /\ draft'[k.made].supersedes = k.draft
        /\ draft'[k.made].request = k.readDraft.request
    BY <2>4 DEF FilesOnlyGrow, DraftWritten
  <2>6. SoundOrigin(request', draft', text)
    BY <2>1, <2>2, <2>3 DEF SoundDraft, SoundOrigin, SupersededDraft, DraftFile
  <2>7. SoundVerdict(verification', k.draft, text)
    BY <2>1, <2>2, <2>3 DEF SoundDraft, SoundVerdict, SupersededDraft, DraftFile
  <2>8. SoundRevision(draft', k.draft, text)
    BY <2>1, <2>3, <2>4, <2>5, NoneIsNoPath DEF SoundRevision, SupersededDraft, DraftFile
  <2>9. SoundDraftFile(request', draft', verification', k.draft)
    BY <2>6, <2>7, <2>8 DEF SoundDraftFile, SoundDraft, SoundOrigin
  <2>10. \A d \in Drafts : SoundDraftFile(request', draft', verification', d)
    <3> TAKE d \in Drafts
    <3>1. CASE d = k.draft
      BY <2>9, <3>1
    <3>2. CASE d # k.draft
      BY <1>12, <3>2, DraftFileKept DEF IInv, TypeOK, RetireDraft
    <3>3. QED
      BY <3>1, <3>2
  <2>11. \A r \in Requests : SoundRequestFile(request', draft', r)
    BY <1>12, RequestFileKept DEF RetireDraft
  <2>12. QED
    BY <2>10, <2>11 DEF SoundFiles
<1>13. ASSUME NEW c \in Calls, Throw(c) PROVE SoundFiles(request', draft', verification')
  BY <1>13, RequestFileKept, DraftFileKept DEF SoundFiles, Throw
<1>14. ASSUME Crash PROVE SoundFiles(request', draft', verification')
  BY <1>14, RequestFileKept, DraftFileKept DEF SoundFiles, Crash
<1>15. QED
  BY <1>1, <1>2, <1>3, <1>4, <1>5, <1>6, <1>7, <1>8, <1>9, <1>10, <1>11, <1>12, <1>13, <1>14 DEF Next, CallSteps

-----------------------------------------------------------------------------
(***************************************************************************)
(* What the calls hold stays sound.                                        *)
(***************************************************************************)
\* A call that holds nothing is sound.
LEMMA IdleSound ==
  SoundCall(request', draft', verification', IdleCall)
BY DEF IdleCall, SoundCall, SoundRequestCall, SoundDraftCall, SoundResult, OnRequestFile, OnDraftFile

\* A call not concerned by the step holds what it held.
LEMMA OtherCall ==
  ASSUME IInv, FilesOnlyGrow, NEW c \in Calls, call'[c] = call[c]
  PROVE  SoundCall(request', draft', verification', call'[c])
<1>1. SoundCall(request, draft, verification, call[c])
  BY DEF IInv, Sound
<1>2. QED
  BY <1>1, CallFacts, CallKept

\* A call begins with the text of a file, goes on with what it has just
\* written, or ends.
LEMMA CallsNext ==
  ASSUME IInv, Next, FilesOnlyGrow, NEW x \in Calls
  PROVE  SoundCall(request', draft', verification', call'[x])
<1> DEFINE Goal == SoundCall(request', draft', verification', call'[x])
<1>1. ASSUME NEW r \in Requests, ReviewRequest(r) PROVE Goal
  BY <1>1, OtherCall DEF ReviewRequest
<1>2. ASSUME NEW c \in Calls, NEW r \in Requests, ReadForTransition(c, r) PROVE Goal
  <2>90. CASE x # c
    BY <1>2, <2>90, OtherCall DEF IInv, TypeOK, ReadForTransition, Begin
  <2>91. CASE x = c
    <3>1. call'[x] = OnRequest("transition", r)
      BY <1>2, <2>91 DEF IInv, TypeOK, ReadForTransition, Begin
    <3>2. SoundRequest(request', draft', r, request[r])
      <4>1. request[r] \in RequestFile /\ SoundRequest(request, draft, r, request[r])
        BY <1>2 DEF IInv, TypeOK, Sound, SoundFiles, SoundRequestFile, RequestWritten, ReadForTransition
      <4>2. QED
        BY <4>1, RequestTextKept
    <3>3. QED
      BY <3>1, <3>2 DEF OnRequest, IdleCall, SoundCall, SoundRequestCall, SoundDraftCall, SoundResult, OnRequestFile, OnDraftFile
  <2>92. QED
    BY <2>90, <2>91
<1>3. ASSUME NEW c \in Calls, NEW s \in Statuses, WriteTransition(c, s) PROVE Goal
  <2>90. CASE x # c
    BY <1>3, <2>90, OtherCall DEF IInv, TypeOK, WriteTransition, End
  <2>91. CASE x = c
    <3>1. call'[x] = IdleCall
      BY <1>3, <2>91 DEF IInv, TypeOK, WriteTransition, End
    <3>2. QED
      BY <3>1, IdleSound
  <2>92. QED
    BY <2>90, <2>91
<1>4. ASSUME NEW c \in Calls, NEW r \in Requests, ReadForDraft(c, r) PROVE Goal
  <2>90. CASE x # c
    BY <1>4, <2>90, OtherCall DEF IInv, TypeOK, ReadForDraft, Begin
  <2>91. CASE x = c
    <3>1. call'[x] = OnRequest("draft", r)
      BY <1>4, <2>91 DEF IInv, TypeOK, ReadForDraft, Begin
    <3>2. SoundRequest(request', draft', r, request[r])
      <4>1. request[r] \in RequestFile /\ SoundRequest(request, draft, r, request[r])
        BY <1>4 DEF IInv, TypeOK, Sound, SoundFiles, SoundRequestFile, RequestWritten, ReadForDraft
      <4>2. QED
        BY <4>1, RequestTextKept
    <3>3. QED
      BY <3>1, <3>2 DEF OnRequest, IdleCall, SoundCall, SoundRequestCall, SoundDraftCall, SoundResult, OnRequestFile, OnDraftFile
  <2>92. QED
    BY <2>90, <2>91
<1>5. ASSUME NEW c \in Calls, NEW d \in Drafts, WriteDraft(c, d) PROVE Goal
  <2>90. CASE x # c
    BY <1>5, <2>90, OtherCall DEF IInv, TypeOK, WriteDraft, Proceed
  <2>91. CASE x = c
    <3> DEFINE k == call[c]
    <3>1. call'[x] = [k EXCEPT !.stage = "link", !.made = d] /\ k.stage = "draft"
      BY <1>5, <2>91 DEF IInv, TypeOK, WriteDraft, Proceed
    <3>2. k \in CallRecord /\ SoundCall(request', draft', verification', k)
      BY CallFacts, CallKept DEF IInv, Sound
    <3>3. draft'[d].verdict # "absent" /\ draft'[d].request = k.request
      BY <1>5 DEF IInv, TypeOK, WriteDraft, NewDraft
    <3>4. QED
      BY <3>1, <3>2, <3>3 DEF CallRecord, SoundCall, SoundRequestCall, SoundDraftCall, SoundResult, OnRequestFile, OnDraftFile
  <2>92. QED
    BY <2>90, <2>91
<1>6. ASSUME NEW c \in Calls, LinkDraft(c) PROVE Goal
  <2>90. CASE x # c
    BY <1>6, <2>90, OtherCall DEF IInv, TypeOK, LinkDraft, End
  <2>91. CASE x = c
    <3>1. call'[x] = IdleCall
      BY <1>6, <2>91 DEF IInv, TypeOK, LinkDraft, End
    <3>2. QED
      BY <3>1, IdleSound
  <2>92. QED
    BY <2>90, <2>91
<1>7. ASSUME NEW c \in Calls, NEW d \in Drafts, ReadForVerify(c, d) PROVE Goal
  <2>90. CASE x # c
    BY <1>7, <2>90, OtherCall DEF IInv, TypeOK, ReadForVerify, Begin
  <2>91. CASE x = c
    <3>1. call'[x] = OnDraft("verify", d)
      BY <1>7, <2>91 DEF IInv, TypeOK, ReadForVerify, Begin
    <3>2. SoundDraft(request', draft', verification', d, draft[d])
      <4>1. draft[d] \in DraftFile /\ SoundDraft(request, draft, verification, d, draft[d])
        BY <1>7 DEF IInv, TypeOK, Sound, SoundFiles, SoundDraftFile, DraftWritten, ReadForVerify
      <4>2. QED
        BY <4>1, DraftTextKept
    <3>3. /\ draft' = draft
          /\ draft[d].verdict # "absent"
      BY <1>7 DEF DraftWritten, ReadForVerify
    <3>4. QED
      BY <3>1, <3>2, <3>3 DEF OnDraft, IdleCall, SoundCall, SoundRequestCall, SoundDraftCall, SoundResult, OnRequestFile, OnDraftFile
  <2>92. QED
    BY <2>90, <2>91
<1>8. ASSUME NEW c \in Calls, NEW v \in Verifications, WriteVerification(c, v) PROVE Goal
  <2>90. CASE x # c
    BY <1>8, <2>90, OtherCall DEF IInv, TypeOK, WriteVerification, Proceed
  <2>91. CASE x = c
    <3> DEFINE k == call[c]
    <3>1. call'[x] = [k EXCEPT !.stage = "report", !.made = v] /\ k.stage = "verify"
      BY <1>8, <2>91 DEF IInv, TypeOK, WriteVerification, Proceed
    <3>2. k \in CallRecord /\ SoundCall(request', draft', verification', k)
      BY CallFacts, CallKept DEF IInv, Sound
    <3>3. verification'[v].verdict \in Verdicts /\ verification'[v].draft = k.draft
      BY <1>8 DEF IInv, TypeOK, WriteVerification, FinalStatus, Verdicts
    <3>4. QED
      BY <3>1, <3>2, <3>3 DEF CallRecord, SoundCall, SoundRequestCall, SoundDraftCall, SoundResult, OnRequestFile, OnDraftFile
  <2>92. QED
    BY <2>90, <2>91
<1>9. ASSUME NEW c \in Calls, ReportVerdict(c) PROVE Goal
  <2>90. CASE x # c
    BY <1>9, <2>90, OtherCall DEF IInv, TypeOK, ReportVerdict, End
  <2>91. CASE x = c
    <3>1. call'[x] = IdleCall
      BY <1>9, <2>91 DEF IInv, TypeOK, ReportVerdict, End
    <3>2. QED
      BY <3>1, IdleSound
  <2>92. QED
    BY <2>90, <2>91
<1>10. ASSUME NEW c \in Calls, NEW d \in Drafts, ReadForRevise(c, d) PROVE Goal
  <2>90. CASE x # c
    BY <1>10, <2>90, OtherCall DEF IInv, TypeOK, ReadForRevise, Begin
  <2>91. CASE x = c
    <3>1. call'[x] = OnDraft("revise", d)
      BY <1>10, <2>91 DEF IInv, TypeOK, ReadForRevise, Begin
    <3>2. SoundDraft(request', draft', verification', d, draft[d])
      <4>1. draft[d] \in DraftFile /\ SoundDraft(request, draft, verification, d, draft[d])
        BY <1>10 DEF IInv, TypeOK, Sound, SoundFiles, SoundDraftFile, DraftWritten, ReadForRevise
      <4>2. QED
        BY <4>1, DraftTextKept
    <3>3. /\ draft' = draft
          /\ draft[d].verdict # "absent"
      BY <1>10 DEF DraftWritten, ReadForRevise
    <3>4. QED
      BY <3>1, <3>2, <3>3 DEF OnDraft, IdleCall, SoundCall, SoundRequestCall, SoundDraftCall, SoundResult, OnRequestFile, OnDraftFile
  <2>92. QED
    BY <2>90, <2>91
<1>11. ASSUME NEW c \in Calls, NEW d \in Drafts, WriteRevision(c, d) PROVE Goal
  <2>90. CASE x # c
    BY <1>11, <2>90, OtherCall DEF IInv, TypeOK, WriteRevision, Proceed
  <2>91. CASE x = c
    <3> DEFINE k == call[c]
    <3>1. call'[x] = [k EXCEPT !.stage = "retire", !.made = d] /\ k.stage = "revise"
      BY <1>11, <2>91 DEF IInv, TypeOK, WriteRevision, Proceed
    <3>2. k \in CallRecord /\ SoundCall(request', draft', verification', k)
      BY CallFacts, CallKept DEF IInv, Sound
    <3>3. /\ draft'[d].verdict # "absent"
          /\ draft'[d].supersedes = k.draft
          /\ draft'[d].request = k.readDraft.request
      BY <1>11 DEF IInv, TypeOK, WriteRevision, RevisedDraft, NewDraft
    <3>4. QED
      BY <3>1, <3>2, <3>3 DEF CallRecord, SoundCall, SoundRequestCall, SoundDraftCall, SoundResult, OnRequestFile, OnDraftFile
  <2>92. QED
    BY <2>90, <2>91
<1>12. ASSUME NEW c \in Calls, RetireDraft(c) PROVE Goal
  <2>90. CASE x # c
    BY <1>12, <2>90, OtherCall DEF IInv, TypeOK, RetireDraft, End
  <2>91. CASE x = c
    <3>1. call'[x] = IdleCall
      BY <1>12, <2>91 DEF IInv, TypeOK, RetireDraft, End
    <3>2. QED
      BY <3>1, IdleSound
  <2>92. QED
    BY <2>90, <2>91
<1>13. ASSUME NEW c \in Calls, Throw(c) PROVE Goal
  <2>90. CASE x # c
    BY <1>13, <2>90, OtherCall DEF IInv, TypeOK, Throw, End
  <2>91. CASE x = c
    <3>1. call'[x] = IdleCall
      BY <1>13, <2>91 DEF IInv, TypeOK, Throw, End
    <3>2. QED
      BY <3>1, IdleSound
  <2>92. QED
    BY <2>90, <2>91
<1>14. ASSUME Crash PROVE Goal
  <2>1. call'[x] = IdleCall
    BY <1>14 DEF Crash
  <2>2. QED
    BY <2>1, IdleSound
<1>15. QED
  BY <1>1, <1>2, <1>3, <1>4, <1>5, <1>6, <1>7, <1>8, <1>9, <1>10, <1>11, <1>12, <1>13, <1>14 DEF Next, CallSteps

-----------------------------------------------------------------------------
(***************************************************************************)
(* The theorems.                                                           *)
(***************************************************************************)
\* The strengthened invariant holds at the start.
LEMMA InvInit == Init => IInv
<1> SUFFICES ASSUME Init PROVE IInv
  OBVIOUS
<1>1. TypeOK
  BY TypeInit
<1>2. SoundFiles(request, draft, verification)
  BY DEF Init, SoundFiles, SoundRequestFile, SoundDraftFile, NoRequest, NoDraft, NewDraft
<1>3. \A c \in Calls : SoundCall(request, draft, verification, call[c])
  BY DEF Init, IdleCall, SoundCall, SoundRequestCall, SoundDraftCall, SoundResult, OnRequestFile, OnDraftFile
<1>4. QED
  BY <1>1, <1>2, <1>3 DEF IInv, Sound

\* Every step keeps it.
LEMMA InvNext == IInv /\ [Next]_vars => IInv'
<1> SUFFICES ASSUME IInv, [Next]_vars PROVE IInv'
  OBVIOUS
<1>1. TypeOK'
  BY TypeNext
<1>2. CASE Next
  <2>1. FilesOnlyGrow
    BY <1>2, Growing
  <2>2. SoundFiles(request', draft', verification')
    BY <1>2, <2>1, FilesNext
  <2>3. \A c \in Calls : SoundCall(request', draft', verification', call'[c])
    BY <1>2, <2>1, CallsNext
  <2>4. QED
    BY <1>1, <2>2, <2>3 DEF IInv, Sound
<1>3. CASE UNCHANGED vars
  BY <1>1, <1>3 DEF IInv, Sound, vars
<1>4. QED
  BY <1>2, <1>3

\* The strengthened invariant is an invariant of the pipeline.
THEOREM ReviewInvariant == Spec => []IInv
<1>1. Init => IInv
  BY InvInit
<1>2. IInv /\ [Next]_vars => IInv'
  BY InvNext
<1>3. QED
  BY <1>1, <1>2, PTL DEF Spec

\* Every file of the pipeline has the front matter its handler writes.
THEOREM ReviewTypeCorrect == Spec => []TypeOK
<1>1. IInv => TypeOK
  BY DEF IInv
<1>2. QED
  BY <1>1, ReviewInvariant, PTL

\* No file ever names a file that is not there, whatever calls overlap and
\* wherever the host dies.
THEOREM NoDanglingNames == Spec => []ReferencesResolve
<1>1. IInv => ReferencesResolve
  <2> SUFFICES ASSUME IInv PROVE ReferencesResolve
    OBVIOUS
  <2>1. ASSUME NEW r \in Requests, request[r].draft # None
        PROVE  DraftWritten(request[r].draft) /\ draft[request[r].draft].request = r
    BY <2>1 DEF IInv, Sound, SoundFiles, SoundRequestFile, SoundRequest, DraftWritten
  <2>2. ASSUME NEW d \in Drafts, DraftWritten(d)
        PROVE  /\ draft[d].request # None /\ RequestWritten(draft[d].request)
               /\ draft[d].verifier # None => VerificationWritten(draft[d].verifier)
               /\ draft[d].supersedes # None => DraftWritten(draft[d].supersedes)
    <3>1. SoundDraft(request, draft, verification, d, draft[d])
      BY <2>2 DEF IInv, Sound, SoundFiles, SoundDraftFile, DraftWritten
    <3>2. QED
      BY <3>1 DEF SoundDraft, SoundOrigin, SoundVerdict, Verdicts, RequestWritten, DraftWritten, VerificationWritten
  <2>3. QED
    BY <2>1, <2>2 DEF ReferencesResolve
<1>2. QED
  BY <1>1, ReviewInvariant, PTL

\* The verdict on a draft is the verdict of the record it names.
THEOREM VerdictsAreRecorded == Spec => []VerdictIsRecorded
<1>1. IInv => VerdictIsRecorded
  <2> SUFFICES ASSUME IInv, NEW d \in Drafts
               PROVE  /\ draft[d].verdict \in Verdicts => draft[d].verifier # None
                      /\ draft[d].verifier # None =>
                           verification[draft[d].verifier] = [verdict |-> draft[d].verdict, draft |-> d]
    BY DEF VerdictIsRecorded
  <2>1. CASE DraftWritten(d)
    BY <2>1 DEF IInv, Sound, SoundFiles, SoundDraftFile, SoundDraft, SoundVerdict, DraftWritten
  <2>2. CASE ~DraftWritten(d)
    BY <2>2 DEF IInv, Sound, SoundFiles, SoundDraftFile, DraftWritten, NoDraft, NewDraft, Verdicts
  <2>3. QED
    BY <2>1, <2>2
<1>2. QED
  BY <1>1, ReviewInvariant, PTL

\* A superseded draft and its revision name each other.
THEOREM RevisionsNameEachOther == Spec => []RevisionsArePaired
<1>1. IInv => RevisionsArePaired
  <2> SUFFICES ASSUME IInv, NEW d \in Drafts, draft[d].revision = "superseded"
               PROVE  /\ draft[d].revisedDraft # None
                      /\ draft[draft[d].revisedDraft].supersedes = d
                      /\ draft[draft[d].revisedDraft].request = draft[d].request
    BY DEF RevisionsArePaired
  <2>1. DraftWritten(d)
    BY DEF IInv, Sound, SoundFiles, SoundDraftFile, DraftWritten, NoDraft, NewDraft
  <2>2. QED
    BY <2>1 DEF IInv, Sound, SoundFiles, SoundDraftFile, SoundDraft, SoundRevision, DraftWritten
<1>2. QED
  BY <1>1, ReviewInvariant, PTL

\* No step removes a file, detaches a draft from its request or from the draft
\* it supersedes, or changes a verifier record.
THEOREM FilesGrow == Spec => HistoryIsKept
<1>1. IInv /\ [Next]_vars => [FilesOnlyGrow]_vars
  BY Growing
<1>2. QED
  BY <1>1, ReviewInvariant, PTL DEF Spec, HistoryIsKept

=============================================================================
