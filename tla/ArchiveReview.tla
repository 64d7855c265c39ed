---------------------------- MODULE ArchiveReview ----------------------------
(***************************************************************************)
(* The review pipeline of the Living Archive                               *)
(* (host/archive-review-service.mjs): a review request on an intake        *)
(* artifact, the draft a writer model makes of it, the verifier's record   *)
(* on the draft, the revisions of the draft, and the promotion of the      *)
(* draft into the trusted wiki.  Every object is a Markdown file whose     *)
(* front matter names the others by path.                                  *)
(*                                                                         *)
(* Each handler reads a file, waits (for a model, or for the disk), writes *)
(* a new file, and then writes the file it had read back WHOLE, from the   *)
(* text it read at the beginning.  Handlers of several calls interleave    *)
(* and nothing locks a file, so a write-back can carry old front matter.   *)
(* A path is a member of Requests, Drafts or Verifications; a file not     *)
(* yet written is "absent".  The time stamp in the name makes a new path   *)
(* each time.  No file of the pipeline is ever deleted.                    *)
(***************************************************************************)
EXTENDS Naturals

CONSTANTS
  Requests,        \* paths under REVIEW/requests
  Drafts,          \* paths under REVIEW/artifacts
  Verifications,   \* paths under REVIEW/verifications
  Calls,           \* the calls the bridge can have under way at once
  None             \* the empty front-matter value

ASSUME NoneIsNoPath ==
  None \notin Requests \cup Drafts \cup Verifications

VARIABLES
  request,         \* request[r]: front matter of the request file r
  draft,           \* draft[d]: front matter of the draft file d
  verification,    \* verification[v]: front matter of the verifier record v
  call             \* call[c]: what the handler of call c holds between awaits

vars == <<request, draft, verification, call>>

Statuses == {"pending", "in-progress", "approved", "rejected"}
Verdicts == {"verified", "needs-revision"}

RequestFile == [status : Statuses \cup {"absent"}, draft : Drafts \cup {None}]

DraftFile ==
  [verdict : Verdicts \cup {"unverified", "absent"}, request : Requests \cup {None},
   verifier : Verifications \cup {None}, revision : {"none", "revised", "superseded"},
   revisedDraft : Drafts \cup {None}, supersedes : Drafts \cup {None}]

VerificationFile ==
  [verdict : Verdicts \cup {"absent"}, draft : Drafts \cup {None}]

NoRequest == [status |-> "absent", draft |-> None]
NoVerification == [verdict |-> "absent", draft |-> None]

NewDraft(r) ==
  [verdict |-> "unverified", request |-> r, verifier |-> None, revision |-> "none",
   revisedDraft |-> None, supersedes |-> None]
NoDraft == [NewDraft(None) EXCEPT !.verdict = "absent"]

RequestWritten(r) == request[r].status # "absent"
DraftWritten(d) == draft[d].verdict # "absent"
VerificationWritten(v) == verification[v].verdict # "absent"

(***************************************************************************)
(* A call: the handler it runs and how far it is, the file it works on,    *)
(* the text it read of that file, and the file it has made.                *)
(***************************************************************************)
Stages == {"idle", "transition", "draft", "link", "verify", "report", "revise", "retire"}

IdleCall == [stage |-> "idle", request |-> None, draft |-> None, made |-> None,
             readRequest |-> NoRequest, readDraft |-> NoDraft]

OnRequest(stage, r) ==
  [IdleCall EXCEPT !.stage = stage, !.request = r, !.readRequest = request[r]]
OnDraft(stage, d) ==
  [IdleCall EXCEPT !.stage = stage, !.draft = d, !.readDraft = draft[d]]

Begin(c, new) ==
  /\ call[c].stage = "idle"
  /\ call' = [call EXCEPT ![c] = new]
Proceed(c, stage, made) == call' = [call EXCEPT ![c].stage = stage, ![c].made = made]
End(c) == call' = [call EXCEPT ![c] = IdleCall]

Init ==
  /\ request = [r \in Requests |-> NoRequest]
  /\ draft = [d \in Drafts |-> NoDraft]
  /\ verification = [v \in Verifications |-> NoVerification]
  /\ call = [c \in Calls |-> IdleCall]

(***************************************************************************)
(* POST /archive/review/request: a new request file.                       *)
(***************************************************************************)
ReviewRequest(r) ==
  /\ ~RequestWritten(r)
  /\ request' = [request EXCEPT ![r] = [status |-> "pending", draft |-> None]]
  /\ UNCHANGED <<draft, verification, call>>

(***************************************************************************)
(* POST /archive/review/transition, between its read and its write.  The   *)
(* human gate in front of the write never refuses: it looks at an argument *)
(* the call site does not pass, and no code sets the metadata it tests.    *)
(***************************************************************************)
ReadForTransition(c, r) ==
  /\ RequestWritten(r)
  /\ Begin(c, OnRequest("transition", r))
  /\ UNCHANGED <<request, draft, verification>>

WriteTransition(c, s) ==
  LET k == call[c] IN
  /\ k.stage = "transition"
  /\ request' = [request EXCEPT ![k.request] = [k.readRequest EXCEPT !.status = s]]
  /\ End(c)
  /\ UNCHANGED <<draft, verification>>

(***************************************************************************)
(* POST /archive/review/draft: the request is read, the writer model runs, *)
(* the draft file is written, and the request is written back with the     *)
(* draft's path and status in-progress.                                    *)
(***************************************************************************)
\* Slip: the request is linked before the draft is written.
LinkedBeforeWrite(c, r) ==
  /\ RequestWritten(r)
  /\ \E d \in Drafts :
       /\ ~DraftWritten(d)
       /\ request' = [request EXCEPT ![r].draft = d]
  /\ Begin(c, OnRequest("draft", r))
  /\ UNCHANGED <<draft, verification>>

ReadForDraft(c, r) ==
  /\ RequestWritten(r)
  /\ Begin(c, OnRequest("draft", r))
  /\ UNCHANGED <<request, draft, verification>>

\* Slip: two drafts of one millisecond and title get one path.
WriteDraftAgain(c, d) ==
  /\ call[c].stage = "draft"
  /\ draft' = [draft EXCEPT ![d] = NewDraft(call[c].request)]
  /\ Proceed(c, "link", d)
  /\ UNCHANGED <<request, verification>>

WriteDraft(c, d) ==
  /\ call[c].stage = "draft"
  /\ ~DraftWritten(d)
  /\ draft' = [draft EXCEPT ![d] = NewDraft(call[c].request)]
  /\ Proceed(c, "link", d)
  /\ UNCHANGED <<request, verification>>

DraftedRequest(k) == [k.readRequest EXCEPT !.draft = k.made, !.status = "in-progress"]

LinkDraft(c) ==
  LET k == call[c] IN
  /\ k.stage = "link"
  /\ request' = [request EXCEPT ![k.request] = DraftedRequest(k)]
  /\ End(c)
  /\ UNCHANGED <<draft, verification>>

(***************************************************************************)
(* POST /archive/review/artifact/verify: the draft is read, its content is *)
(* checked by rules and by the verifier model, the verdict is written to a *)
(* record of its own, and the draft is written back with the verdict.      *)
(***************************************************************************)
ReadForVerify(c, d) ==
  /\ DraftWritten(d)
  /\ Begin(c, OnDraft("verify", d))
  /\ UNCHANGED <<request, draft, verification>>

\* Slip: the answer of the verifier model is taken over as it came.
SemanticStatus(rules, semantic) ==
  IF rules = "needs-revision" THEN rules ELSE semantic

FinalStatus(rules, semantic) ==
  IF "needs-revision" \in {rules, semantic} THEN "needs-revision" ELSE "verified"

WriteVerification(c, v) ==
  /\ call[c].stage = "verify"
  /\ ~VerificationWritten(v)
  /\ \E rules \in Verdicts, semantic \in Verdicts \cup {"skipped", "unavailable"} :
       verification' = [verification EXCEPT
         ![v] = [verdict |-> FinalStatus(rules, semantic), draft |-> call[c].draft]]
  /\ Proceed(c, "report", v)
  /\ UNCHANGED <<request, draft>>

\* Slip: the draft names the new record and keeps the verdict it had.
VerdictAsRead(k) == [k.readDraft EXCEPT !.verifier = k.made]

\* finalStatus is still in a local variable of the handler; it is what the
\* handler has just written to its own record, which no one writes again.
VerifiedDraft(k) ==
  [k.readDraft EXCEPT !.verdict = verification[k.made].verdict, !.verifier = k.made]

ReportVerdict(c) ==
  LET k == call[c] IN
  /\ k.stage = "report"
  /\ draft' = [draft EXCEPT ![k.draft] = VerifiedDraft(k)]
  /\ End(c)
  /\ UNCHANGED <<request, verification>>

(***************************************************************************)
(* POST /archive/review/artifact/revise: the draft (and the record it      *)
(* names, if any) is read, the writer model runs, a new draft is written   *)
(* and the old one is written back as superseded.                          *)
(***************************************************************************)
ReadForRevise(c, d) ==
  /\ DraftWritten(d)
  /\ Begin(c, OnDraft("revise", d))
  /\ UNCHANGED <<request, draft, verification>>

\* Slip: the revision supersedes the draft the request names by now.
RevisionOfLinked(k) ==
  [NewDraft(k.readDraft.request) EXCEPT
     !.revision = "revised", !.supersedes = request[k.readDraft.request].draft]

RevisedDraft(k) ==
  [NewDraft(k.readDraft.request) EXCEPT !.revision = "revised", !.supersedes = k.draft]

WriteRevision(c, d) ==
  /\ call[c].stage = "revise"
  /\ ~DraftWritten(d)
  /\ draft' = [draft EXCEPT ![d] = RevisedDraft(call[c])]
  /\ Proceed(c, "retire", d)
  /\ UNCHANGED <<request, verification>>

SupersededDraft(k) ==
  [k.readDraft EXCEPT !.revision = "superseded", !.revisedDraft = k.made]

RetireDraft(c) ==
  LET k == call[c] IN
  /\ k.stage = "retire"
  /\ draft' = [draft EXCEPT ![k.draft] = SupersededDraft(k)]
  /\ End(c)
  /\ UNCHANGED <<request, verification>>

(***************************************************************************)
(* POST /archive/review/artifact/promote reads the draft and its record    *)
(* and asks the policy.  The policy destructures flat arguments and the    *)
(* call site passes nested ones; one that is not passed reads as empty.    *)
(* The handler writes nothing before the policy has accepted, and it never *)
(* does, so promotion is a question and not an action here.                *)
(***************************************************************************)
Argument(arguments, name) == IF name \in DOMAIN arguments THEN arguments[name] ELSE None

PolicyAccepts(arguments) ==
  LET given(name) == Argument(arguments, name) IN
  /\ given("artifactVerificationStatus") = "verified"
  /\ given("verifierStatus") = "verified"
  /\ given("verifierDraftArtifactPath") = given("draftArtifactPath")
  /\ given("verifierRequestPath") = given("requestPath")

PromotionArguments(d) ==
  LET record == verification[draft[d].verifier] IN
  [draftPath |-> d,
   draft |-> [requestPath |-> draft[d].request, verificationStatus |-> draft[d].verdict,
              verifierArtifactPath |-> draft[d].verifier],
   verifier |-> [artifactPath |-> record.draft, status |-> record.verdict]]

Promotable(d) ==
  /\ DraftWritten(d)
  /\ draft[d].verifier # None
  /\ PolicyAccepts(PromotionArguments(d))

(***************************************************************************)
(* An await of a handler throws (a model, a missing intake file, the       *)
(* disk): the call ends where it stands.  The host dies: every call does.  *)
(***************************************************************************)
Throw(c) ==
  /\ call[c].stage # "idle"
  /\ End(c)
  /\ UNCHANGED <<request, draft, verification>>

Crash ==
  /\ \E c \in Calls : call[c].stage # "idle"
  /\ call' = [c \in Calls |-> IdleCall]
  /\ UNCHANGED <<request, draft, verification>>

CallSteps(c) ==
  \/ \E r \in Requests : ReadForTransition(c, r) \/ ReadForDraft(c, r)
  \/ \E d \in Drafts :
       \/ ReadForVerify(c, d)
       \/ ReadForRevise(c, d)
       \/ WriteDraft(c, d)
       \/ WriteRevision(c, d)
  \/ \E v \in Verifications : WriteVerification(c, v)
  \/ \E s \in Statuses : WriteTransition(c, s)
  \/ LinkDraft(c)
  \/ ReportVerdict(c)
  \/ RetireDraft(c)
  \/ Throw(c)

Next ==
  \/ \E r \in Requests : ReviewRequest(r)
  \/ \E c \in Calls : CallSteps(c)
  \/ Crash

Spec == Init /\ [][Next]_vars

=============================================================================
