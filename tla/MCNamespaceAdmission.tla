------------------------ MODULE MCNamespaceAdmission ------------------------
(* NamespaceAdmission for TLC. *)
EXTENDS NamespaceAdmission, TLC

CONSTANTS o1, o2

\* o1 has an override, o2 has none.
OneOverride == o1 :> 1 @@ o2 :> -1

NamespaceSymmetry == Permutations(Namespaces)

\* Neither Namespaces nor requests are told apart.
QuotaSymmetry == Permutations(Namespaces) \cup Permutations(Requests)
=============================================================================
