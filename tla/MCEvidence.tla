------------------------------ MODULE MCEvidence -----------------------------
(* Evidence.tla with five records, two of them another team's, two seals,  *)
(* a handover between them, and chains of every kind.                      *)
EXTENDS Evidence

Issuer(name, from, to) == [name |-> name, from |-> from, to |-> to]
Deployed(key, from, to) == [key |-> key, issuer |-> "issuer", from |-> from, to |-> to]
Chain(root, issuers, deployments) ==
    [root |-> root, issuers |-> issuers, deployments |-> deployments]

Whole == {Deployed("first", 1, 2), Deployed("second", 2, 9)}

\* None; a good one; a root that is not pinned; an issuer past its time; a
\* certificate that comes too late; one key without.
MCChains == {
    Chain("none", {}, {}),
    Chain("root", {Issuer("issuer", 0, 9)}, Whole),
    Chain("other", {Issuer("issuer", 0, 9)}, Whole),
    Chain("root", {Issuer("issuer", 2, 9)}, Whole),
    Chain("root", {Issuer("issuer", 0, 9)}, {Deployed("first", 1, 2), Deployed("second", 4, 9)}),
    Chain("root", {Issuer("issuer", 0, 9)}, {Deployed("first", 1, 2)})}
=============================================================================
