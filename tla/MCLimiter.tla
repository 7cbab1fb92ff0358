----------------------------- MODULE MCLimiter -----------------------------
(* Limiter on a small instance: see the configurations for the bounds.      *)
EXTENDS Limiter, TLC

\* Callers are interchangeable; used only where no liveness is checked.
CallerSymmetry == Permutations(Callers)
=============================================================================
