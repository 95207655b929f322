------------------------------ MODULE Outsiders ------------------------------
(***************************************************************************)
(* What a visor promises those outside it: whoever asks for something with *)
(* a request, a line or a command line, and whoever is asked to trust a    *)
(* file.  The six share no variable, but for the requests that a line of   *)
(* the adapter is turned into: each moves by its own steps.                *)
(***************************************************************************)
EXTENDS Plans, Adapter, Options, Review, Imports, Sources

\* What is asked for is what is done, and what is told is what happened: PlanIsWalked of
\* MouseOp's plans, AnswersAreTrue of the inverse adapter, StartsAsTold of the command line.
RequestsAreCarriedOut == PlanIsWalked /\ AnswersAreTrue /\ StartsAsTold

\* Trust is given by the user to what the user was shown: TrustIsTheUsersWord of the
\* screens, ImportsKeepTheirMeaning of files other programs wrote,
\* ListLeavesNothingOutUnsaid of where they are looked for.
TrustIsInformed == TrustIsTheUsersWord /\ ImportsKeepTheirMeaning /\ ListLeavesNothingOutUnsaid
=============================================================================
