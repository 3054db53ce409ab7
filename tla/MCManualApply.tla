---------------------------- MODULE MCManualApply -----------------------------
EXTENDS ManualApply

\* Two elements on the first page and one on the second.
MCPageOf == [r \in Refs |-> IF r < 3 THEN "home" ELSE "blog"]
=============================================================================
