----------------------------- MODULE MCConsole -----------------------------
EXTENDS Console

Texts     == {"@hourly", " @hourly ", "junk"}
AsTrimmed == [x \in Texts |-> IF x = " @hourly " THEN "@hourly" ELSE x]
Parsed    == {"@hourly"}
Typed     == {0, 301}
=============================================================================
