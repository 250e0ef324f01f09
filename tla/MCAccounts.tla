---- MODULE MCAccounts ----
EXTENDS Accounts, TLC

CONSTANTS Anna, ANNA, Otto

\* Two spellings of one name, and another name.
IgnoreCase == (Anna :> Anna) @@ (ANNA :> Anna) @@ (Otto :> Otto)

Symmetry == Permutations(Signups) \cup Permutations(Signins) \cup Permutations(Checks)
              \cup Permutations(Passwords)
====
