--------------------------- MODULE MCArchiveReview ---------------------------
(* The instance of the review pipeline TLC checks. *)
EXTENDS ArchiveReviewProperties, TLC

Symmetry ==
  Permutations(Requests) \cup Permutations(Drafts)
    \cup Permutations(Verifications) \cup Permutations(Calls)

=============================================================================
