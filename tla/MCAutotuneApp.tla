--------------------------- MODULE MCAutotuneApp ---------------------------
(* Constants for model-checking AutotuneApp. *)
EXTENDS AutotuneApp

OwnNames == [k \in Families |-> k]

\* Every case behaves the same way each time.
Deterministic == {{"ok"}, {"fail"}, {"crash"}}

=============================================================================
