------------------------------ MODULE Evidence -------------------------------
(***************************************************************************)
(* The offline verifier of an audit evidence bundle: audit_verify.py.      *)
(*                                                                         *)
(* External: the deployment, which keeps a log of records, seals it batch  *)
(* by batch, signs with one key after the other and exports a bundle of    *)
(* all records, of one team's or of a window; and what becomes of the      *)
(* bundle on its way to the reader: lines are lost, edited, put in twice,  *)
(* or taken from another export of the same deployment.                    *)
(*                                                                         *)
(* A hash is the record it is computed from, so a leaf's hash is its       *)
(* record's number and the hash it follows is the number before.  A        *)
(* signature holds while its line is as it was signed.  Record n is        *)
(* created at time n.                                                      *)
(***************************************************************************)
EXTENDS Naturals, FiniteSets, FiniteSetsExt

CONSTANTS
    Last,        \* records of the log
    Batch,       \* records under one seal
    TeamRecords, \* the records of one of the teams
    WithAttrs,   \* the records that carry request attributes
    HandoverAt,  \* the last record signed by the first key
    Chains,      \* certificate chains the bundle may carry
    Pins,        \* Evidence Roots the verifier pins
    MaxDamage    \* bound of the model: damages to one bundle

ASSUME EvidenceAssumption ==
    /\ {Last, Batch} \subseteq Nat \ {0}
    /\ HandoverAt \in 1..Last
    /\ TeamRecords \cup WithAttrs \subseteq 1..Last

\* A certificate says from when to when it is good.
ASSUME ChainsAssumption ==
    \A chain \in Chains :
        /\ DOMAIN chain = {"root", "issuers", "deployments"}
        /\ \A c \in chain.issuers \cup chain.deployments : {c.from, c.to} \subseteq Nat

VARIABLES
    bundle,     \* the bundle as the reader has it
    exported,   \* as it was exported
    damages     \* counter of the bound

vars == <<bundle, exported, damages>>

-----------------------------------------------------------------------------
(* The log and its exports.                                                *)

Keys == {"first", "second"}
Signer(n) == IF n <= HandoverAt THEN "first" ELSE "second"

\* "edited" says what no longer is as it was sealed: the body or the signature.
Leaf(n) == [seq |-> n, record |-> n, edited |-> "no",
            attrs |-> IF n \in WithAttrs THEN "signed" ELSE "none"]
Seal(first) == [first |-> first, last |-> first + Batch - 1, edited |-> "no"]
AllSeals == {Seal(1 + Batch * i) : i \in 0..((Last \div Batch) - 1)}
Covers(seal, n) == seal.first <= n /\ n <= seal.last
Handover == [retiring |-> "first", successor |-> "second", edited |-> FALSE]
NoManifest == [version |-> "none"]

\* A bundle of the records ns.  The manifest is signed with the key of the
\* day.  "old" is one from before the content digests.
Export(ns, version, chain) ==
    LET leaves == {Leaf(n) : n \in ns}
        seals == {s \in AllSeals : \E n \in ns : Covers(s, n)}
        covered == {x \in ns \X seals : Covers(x[2], x[1])}
        proofs == {[seq |-> x[1], record |-> x[1], seal |-> x[2].first] : x \in covered}
        manifest == [version |-> version, edited |-> FALSE, signer |-> Signer(Last),
                     leaves |-> leaves, seals |-> seals, proofs |-> proofs,
                     companions |-> {"decisions", "readme"}]
    IN  [leaves |-> leaves, seals |-> seals, proofs |-> proofs, keys |-> Keys,
         handovers |-> {Handover}, certificates |-> chain,
         companions |-> {"decisions", "readme"},
         manifest |-> IF version = "none" THEN NoManifest ELSE manifest]

-----------------------------------------------------------------------------
(* The verifier.  "crypto" is whether the package that checks signatures   *)
(* is installed.                                                           *)

Seqs(leaves) == {l.seq : l \in leaves}
Pairs(leaves) == {<<l.seq, l.record>> : l \in leaves}
AttrRows(leaves) == {l.seq : l \in {m \in leaves : m.attrs # "none"}}

\* Chain linkage on contiguous runs of seq.
Linked(leaves) == \A l, m \in leaves : m.seq = l.seq + 1 => m.record = l.record + 1

AttrsHold(leaf, crypto) ==
    /\ leaf.attrs # "unsigned"
    /\ crypto => leaf.attrs # "edited"

LeavesHold(leaves, keys, crypto) ==
    /\ \A l, m \in leaves : l.seq = m.seq \/ l.record = m.record => l = m
    /\ Linked(leaves)
    /\ \A l \in leaves :
          /\ l.edited # "body"
          /\ crypto => Signer(l.record) \in keys /\ l.edited = "no"
          /\ AttrsHold(l, crypto)

\* The manifest is signed by a key of the bundle; without cryptography it is
\* read all the same, unchecked.
Known(b) == b.manifest.version # "none" /\ b.manifest.signer \in b.keys
ManifestHolds(b, crypto) == crypto /\ Known(b) => ~b.manifest.edited
Trusted(b, crypto) == crypto /\ Known(b)
BindsContent(b) == b.manifest.version = "new"

HandoversHold(b, crypto) == \A h \in b.handovers : crypto => ~h.edited

\* The keys and the handovers the signed manifest commits to.
KeyCustody(b, crypto) ==
    /\ Trusted(b, crypto) =>
          /\ Keys \subseteq b.keys
          /\ BindsContent(b) => b.handovers = {Handover}
    /\ HandoversHold(b, crypto)

\* An inclusion proof names a seal and a leaf of the bundle, once.
ProofsIndexed(b) ==
    /\ \A p \in b.proofs : p.seq \in Seqs(b.leaves) /\ \E s \in b.seals : s.first = p.seal
    /\ \A p, q \in b.proofs : p.seal = q.seal /\ p.seq = q.seq => p = q

\* A proof reaches the root of its seal for the leaf it was made for.
Reaches(b, p, seal) ==
    Covers(seal, p.seq) /\ \A l \in b.leaves : l.seq = p.seq => l.record = p.record

\* Mutant: a seal that is not all there is a boundary, whatever is around it.
BoundaryAlways(b, seal) == TRUE

\* A seal some leaves of which are absent is the boundary of an export when
\* it reaches past the leaves, and they do not run up to where it goes on.
Boundary(b, seal) ==
    LET seqs == Seqs(b.leaves)
        Dense == Cardinality(seqs) = Max(seqs) - Min(seqs) + 1
    IN  seqs = {} \/ /\ ~(seal.first >= Min(seqs) /\ seal.last <= Max(seqs))
                     /\ ~(Dense /\ seal.first \in Min(seqs)..Max(seqs))

SealHolds(b, seal, crypto, defer) ==
    LET covered == {l \in b.leaves : Covers(seal, l.seq)}
    IN  /\ seal.edited # "body"
        /\ crypto => Signer(seal.last) \in b.keys /\ seal.edited = "no"
        /\ \A p \in b.proofs : p.seal = seal.first => Reaches(b, p, seal)
        /\ IF Cardinality(covered) = Batch
           THEN \A l \in covered : l.record = l.seq
           ELSE defer \/ Boundary(b, seal)

\* Mutant: the endpoints and counts are all that is compared.
SameCounts(b) ==
    /\ Cardinality(b.leaves) = Cardinality(b.manifest.leaves)
    /\ Cardinality(b.seals) = Cardinality(b.manifest.seals)

\* The record set the manifest commits to, as far as its version does.
RecordSet(b) ==
    LET m == b.manifest
        Ends(leaves) == IF leaves = {} THEN {} ELSE {Min(Seqs(leaves)), Max(Seqs(leaves))}
    IN  /\ Ends(b.leaves) = Ends(m.leaves)
        /\ Cardinality(b.leaves) = Cardinality(m.leaves)
        /\ Cardinality(b.seals) = Cardinality(m.seals)
        /\ BindsContent(b) =>
              /\ Pairs(b.leaves) = Pairs(m.leaves)
              /\ b.proofs = m.proofs
              /\ {s.first : s \in b.seals} = {s.first : s \in m.seals}
              /\ AttrRows(b.leaves) = AttrRows(m.leaves)

\* The readable files the manifest lists are there as they were.
CompanionsHold(b) == BindsContent(b) => b.manifest.companions \subseteq b.companions

\* Mutant: only a manifest that was checked is deferred to.
DefersIfChecked(b, crypto) == Trusted(b, crypto) /\ BindsContent(b)

\* Whether a manifest decides what a seal that is not all there means.
Defers(b, crypto) == Known(b) /\ BindsContent(b)

BundleHolds(b, crypto) ==
    /\ LeavesHold(b.leaves, b.keys, crypto)
    /\ ManifestHolds(b, crypto)
    /\ KeyCustody(b, crypto)
    /\ ProofsIndexed(b)
    /\ \A s \in b.seals : SealHolds(b, s, crypto, Defers(b, crypto))
    /\ Known(b) => RecordSet(b) /\ CompanionsHold(b)

\* The deployment certificates that chain to a pinned root: the issuer is
\* certified, and was when it issued them.
Validated(chain) ==
    IF chain.root \notin Pins THEN {}
    ELSE {d \in chain.deployments :
            \E i \in chain.issuers : i.name = d.issuer /\ i.from <= d.from /\ d.from <= i.to}

\* Mutant: a certificate is good for all time.
CoveredEver(chain, key, time) == \E d \in Validated(chain) : d.key = key

Covered(chain, key, time) ==
    \E d \in Validated(chain) : d.key = key /\ d.from <= time /\ time <= d.to

Attested(b, crypto) ==
    /\ Trusted(b, crypto)
    /\ \A l \in b.leaves : Covered(b.certificates, Signer(l.record), l.record)
    /\ \A s \in b.seals : Covered(b.certificates, Signer(s.last), s.last)
    /\ \E d \in Validated(b.certificates) : d.key = b.manifest.signer
    /\ BindsContent(b)

verify_bundle(b, crypto) ==
    IF ~BundleHolds(b, crypto) THEN "FAILED"
    ELSE IF Attested(b, crypto) THEN "ATTESTED" ELSE "SELF-ATTESTED"

-----------------------------------------------------------------------------
(* What becomes of a bundle.                                               *)

Damaged(b) ==
    /\ damages < MaxDamage
    /\ damages' = damages + 1
    /\ bundle' = b
    /\ UNCHANGED exported

\* Lines or files are lost.
Lose ==
    \/ \E part \in {"leaves", "seals", "proofs", "keys", "handovers", "companions"} :
          \E x \in bundle[part] : Damaged([bundle EXCEPT ![part] = @ \ {x}])
    \/ bundle.manifest.version # "none" /\ Damaged([bundle EXCEPT !.manifest = NoManifest])
    \/ bundle.certificates.root # "none"
       /\ Damaged([bundle EXCEPT !.certificates = [@ EXCEPT !.root = "none"]])

Changed(part, x, y) == Damaged([bundle EXCEPT ![part] = (@ \ {x}) \cup {y}])

\* A line is edited, or a signature is, or the attributes are lost.
Edit ==
    \/ \E x \in bundle.leaves :
          \/ \E how \in {"body", "signature"} : Changed("leaves", x, [x EXCEPT !.edited = how])
          \/ \E how \in {"none", "unsigned", "edited"} :
                x.attrs # "none" /\ Changed("leaves", x, [x EXCEPT !.attrs = how])
    \/ \E x \in bundle.seals, how \in {"body", "signature"} :
          Changed("seals", x, [x EXCEPT !.edited = how])
    \/ \E h \in bundle.handovers : Changed("handovers", h, [h EXCEPT !.edited = TRUE])
    \/ Known(bundle) /\ Damaged([bundle EXCEPT !.manifest.edited = TRUE])

\* A line gets another seq, or is put in twice, or comes from another export.
Mix ==
    \/ \E x \in bundle.leaves, n \in 1..Last :
          \/ Changed("leaves", x, [x EXCEPT !.seq = n])
          \/ Damaged([bundle EXCEPT !.leaves = @ \cup {[x EXCEPT !.seq = n]}])
    \/ \E n \in 1..Last : Damaged([bundle EXCEPT !.leaves = @ \cup {Leaf(n)}])

-----------------------------------------------------------------------------
Windows == {ns \in {lo..hi : lo, hi \in 1..Last} : ns # {}}

Init ==
    /\ \E ns \in Windows, team \in {1..Last, TeamRecords}, version \in {"none", "old", "new"} :
       \E chain \in Chains :
          ns \cap team # {} /\ bundle = Export(ns \cap team, version, chain)
    /\ exported = bundle
    /\ damages = 0

Next == Lose \/ Edit \/ Mix

Spec == Init /\ [][Next]_vars

-----------------------------------------------------------------------------
(* What a verdict means.                                                   *)

Ok(crypto) == verify_bundle(bundle, crypto) # "FAILED"

\* Every export verifies on either install, also one whose seals are shared
\* with other teams' records or reach past its window, if its manifest
\* commits the content; and so does an export of the whole log without one.
ExportsVerify ==
    damages = 0 /\ (BindsContent(bundle) \/ Seqs(bundle.leaves) = 1..Last)
        => Ok(TRUE) /\ Ok(FALSE)

\* A bundle that verifies under a manifest that commits the content, signed
\* with a key of the bundle, holds what was exported, whatever was lost, put
\* in twice, relabelled or taken from another export: the records and their
\* attributes, the seals, the proofs, the keys and the handovers.
VerifiedMeansExported ==
    Ok(TRUE) /\ Known(bundle) /\ BindsContent(bundle) =>
        [exported EXCEPT !.certificates = bundle.certificates] = bundle

\* ATTESTED says that, and that each record was signed with a key certified
\* at that time under a pinned root by an issuer that could issue it.
AttestedIsEarned ==
    verify_bundle(bundle, TRUE) = "ATTESTED" =>
        /\ exported.leaves = bundle.leaves
        /\ exported.seals = bundle.seals
        /\ bundle.certificates.root \in Pins
        /\ \A l \in bundle.leaves : \E d \in bundle.certificates.deployments :
              /\ d.key = Signer(l.record)
              /\ l.record \in d.from..d.to
              /\ \E i \in bundle.certificates.issuers : i.name = d.issuer /\ d.from \in i.from..i.to

\* Without a manifest the seals guard the records between the first and the
\* last one: none of them is missing, edited or exchanged under a seal that is
\* in the bundle with all it spans.
SealsGuard ==
    LET seqs == Seqs(bundle.leaves)
    IN  Ok(FALSE) /\ bundle.manifest.version = "none" =>
            \A s \in bundle.seals : s.first \in seqs /\ Max(seqs) >= s.last =>
                \A n \in s.first..s.last : \E l \in bundle.leaves :
                    l.seq = n /\ l.record = n /\ l.edited # "body"
=============================================================================
