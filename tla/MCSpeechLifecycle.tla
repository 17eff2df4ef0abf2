-------------------------- MODULE MCSpeechLifecycle --------------------------
(* SpeechLifecycle on a small set of generations. *)
EXTENDS SpeechLifecycle, TLC

\* Tokens are interchangeable: no action or safety property orders them.
Symmetry == Permutations(Tokens)
=============================================================================
