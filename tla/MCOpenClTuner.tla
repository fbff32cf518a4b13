--------------------------- MODULE MCOpenClTuner ---------------------------
(* Constants for model-checking OpenClTuner. *)
EXTENDS OpenClTuner

\* Each family has a name of its own.
OwnNames == [k \in Families |-> k]

\* Every case behaves the same way each time.
Deterministic == {{"ok"}, {"fail"}, {"crash"}}
\* A case may also work once and crash the next time.
Flaky == {{"ok"}, {"fail"}, {"ok", "crash"}}

=============================================================================
