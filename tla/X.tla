---- MODULE X ----
EXTENDS Documents, Seed
====
