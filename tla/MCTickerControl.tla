--------------------------- MODULE MCTickerControl ---------------------------
(* TickerControl on a small instance: see the configurations for the bounds. *)
EXTENDS TickerControl, TLC

\* Tickers are interchangeable; used only where no liveness is checked.
TickerSymmetry == Permutations(Tickers)
=============================================================================
