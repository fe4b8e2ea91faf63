--------------------------- MODULE MCSmsPipeline ---------------------------
EXTENDS SmsPipeline, TLC

\* Rows and drainers are interchangeable: no action and no property orders
\* them.  Used by the safety runs only.
Symmetry == Permutations(Sms) \cup Permutations(Drainer)

=============================================================================
