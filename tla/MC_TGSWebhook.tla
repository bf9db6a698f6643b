--------------------------- MODULE MC_TGSWebhook ---------------------------
(* Instance of TGSWebhook for TLC: the constants are model values given in *)
(* the .cfg files; the bounds differ per run.                              *)
EXTENDS TGSWebhook, TLC

\* Names and services are interchangeable; so are requests.
Symmetry == Permutations(Names) \cup Permutations(Requests)
=============================================================================
