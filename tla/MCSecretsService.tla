-------------------------- MODULE MCSecretsService --------------------------
(***************************************************************************)
(* SecretsService for TLC: each instance is configured with an RP id of    *)
(* its own when there are enough of them.                                  *)
(***************************************************************************)
EXTENDS SecretsService, FiniteSets

MCRpId ==
    CHOOSE f \in [Service -> Rp] :
        Cardinality(Service) <= Cardinality(Rp) => \A s, t \in Service : f[s] = f[t] => s = t
=============================================================================
