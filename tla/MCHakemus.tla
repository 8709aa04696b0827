-------------------------------- MODULE MCHakemus --------------------------------
(***************************************************************************)
(* Small instances of Hakemus for TLC.                                     *)
(***************************************************************************)
EXTENDS Hakemus, TLC

Symmetry == Permutations(Requests)

Ask1(kind, token, status) == [kind |-> kind, token |-> token, status |-> status]

Plain(kinds) == {Ask1(k, FALSE, "new") : k \in kinds}

\* The statuses an officer asks for.
Officer(statuses) == {Ask1("status", FALSE, s) : s \in statuses}

\* With and without the officer's token.
Tokens(kinds) == {Ask1(k, TRUE, "new") : k \in kinds}

\* Every request there is.
EveryAsk == Plain(Kinds \ {"status"}) \cup Tokens({"save", "officer_edit_submit"})
              \cup Officer(Statuses)

\* What meets at an application in review: the applicant's form and page, the officer's
\* token, and an officer who opens, cancels and submits.
FormAsks == Plain({"save", "submit", "get_current_answers", "change_request_response",
                   "applicant_edit_open"})
              \cup Tokens({"save", "officer_edit_submit"})
              \cup Officer({"officer_edit", "cancelled", "submitted"})

\* Two refusals sent from the same page or from two.
RefuseAsks == Plain({"refuse"})

\* The application is in the applicant's hands, submitted, or back with a request for change.
MainStatuses == {"new", "submitted", "pending_change_request"}

=============================================================================
