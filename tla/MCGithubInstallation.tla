------------------------ MODULE MCGithubInstallation ------------------------
(* Requests and calls for the checked instance of GithubInstallation. *)
EXTENDS GithubInstallation, TLC

CONSTANTS h1, h2, b1

Symmetry == Permutations({h1, h2})
=============================================================================
