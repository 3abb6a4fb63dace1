------------------------------ MODULE UserAdminMC ------------------------------
EXTENDS UserAdmin, TLC

\* Accounts that do not exist at the start are interchangeable, and so are requests
\* and the spellings of an address.
Symmetry == Permutations(Users \ (Admins \cup Gestors \cup Operators))
              \cup Permutations(Requests) \cup Permutations(Email)
=============================================================================
