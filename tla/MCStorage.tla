----------------------------- MODULE MCStorage -----------------------------
EXTENDS Storage, TLC
Kept == {"worker", "session", "events", "transcript"} \X {"file", "sqlite"}
Symm == Permutations(Write) \cup Permutations(Entry) \cup Permutations(Reader)
=============================================================================
