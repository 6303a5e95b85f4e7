------------------------- MODULE MCSchemaMigrations -------------------------
\* A new database, and the older ones with at most three of the older forms, or
\* all of them.
EXTENDS SchemaMigrations, FiniteSetsExt

MCDatabases == UNION {kSubset(k, Forms) : k \in 0 .. 3} \cup {Forms}
=============================================================================
