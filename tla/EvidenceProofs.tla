----------------------------- MODULE EvidenceProofs ----------------------------
(***************************************************************************)
(* Proofs about Evidence.tla: for every log, batch, team, window, handover *)
(* and chain, every set of pinned roots and every number of damages.       *)
(***************************************************************************)
EXTENDS Evidence, FiniteSetTheorems, WellFoundedInduction, TLAPS

Edits == {"no", "body", "signature"}
Leaves == [seq : 1..Last, record : 1..Last, edited : Edits,
           attrs : {"none", "signed", "unsigned", "edited"}]
Seals == {s \in [first : Nat, last : Nat, edited : Edits] : s.last = s.first + Batch - 1}
Handovers == [retiring : {"first"}, successor : {"second"}, edited : BOOLEAN]
Companions == {"decisions", "readme"}

Dated(chain) ==
    /\ DOMAIN chain = {"root", "issuers", "deployments"}
    /\ \A c \in chain.issuers \cup chain.deployments : c.from \in Nat /\ c.to \in Nat

\* The lines of a bundle, damaged or not.
Shape(b) ==
    /\ b = [leaves |-> b.leaves, seals |-> b.seals, proofs |-> b.proofs, keys |-> b.keys,
            handovers |-> b.handovers, certificates |-> b.certificates,
            companions |-> b.companions, manifest |-> b.manifest]
    /\ b.leaves \subseteq Leaves
    /\ b.seals \subseteq Seals
    /\ b.keys \subseteq Keys
    /\ b.handovers \subseteq Handovers
    /\ b.companions \subseteq Companions
    /\ Dated(b.certificates)

IsExport(b) ==
    \E ns \in SUBSET (1..Last), version \in {"none", "old", "new"}, chain \in Chains :
        b = Export(ns, version, chain)

LEMMA Sizes == Last \in Nat \ {0} /\ Batch \in Nat \ {0}
BY EvidenceAssumption

\* The seals lie one behind the other within the log.
LEMMA SealsWithin ==
    ASSUME NEW s \in AllSeals
    PROVE  s \in Seals /\ s.edited = "no" /\ s.first >= 1 /\ s.last <= Last
<1>1. PICK i \in 0..((Last \div Batch) - 1) : s = Seal(1 + Batch * i)
  BY DEF AllSeals
<1>2. Last \div Batch \in Int /\ Batch * (Last \div Batch) <= Last
  BY Sizes
<1>3. Batch * i \in Nat /\ Batch * i + Batch <= Batch * (Last \div Batch)
  BY Sizes, <1>2
<1>4. 1 + Batch * i \in Nat /\ 1 + Batch * i + Batch - 1 \in Nat
  BY Sizes, <1>3
<1>5. 1 + Batch * i + Batch - 1 <= Last
  BY Sizes, <1>2, <1>3
<1> QED
  BY <1>1, <1>3, <1>4, <1>5 DEF Seal, Seals, Edits

LEMMA LeafShape ==
    ASSUME NEW n \in 1..Last
    PROVE  Leaf(n) \in Leaves /\ Leaf(n).seq = n /\ Leaf(n).record = n /\ Leaf(n).edited = "no"
BY DEF Leaf, Leaves, Edits

Parts(b, ns, version, chain) ==
    /\ Shape(b)
    /\ b.leaves = {Leaf(n) : n \in ns}
    /\ b.seals = {s \in AllSeals : \E n \in ns : Covers(s, n)}
    /\ b.proofs = {[seq |-> x[1], record |-> x[1], seal |-> x[2].first] :
                      x \in {x \in ns \X b.seals : Covers(x[2], x[1])}}
    /\ b.keys = Keys /\ b.handovers = {Handover} /\ b.companions = Companions
    /\ version = "none" => b.manifest = NoManifest
    /\ version # "none" =>
          b.manifest = [version |-> version, edited |-> FALSE, signer |-> Signer(Last),
                        leaves |-> b.leaves, seals |-> b.seals, proofs |-> b.proofs,
                        companions |-> Companions]

LEMMA ExportParts ==
    ASSUME NEW ns \in SUBSET (1..Last), NEW version \in {"none", "old", "new"},
           NEW chain \in Chains,
           NEW b, b = Export(ns, version, chain)
    PROVE  Parts(b, ns, version, chain)
<1>1. /\ b.leaves = {Leaf(n) : n \in ns}
      /\ b.seals = {s \in AllSeals : \E n \in ns : Covers(s, n)}
      /\ b.proofs = {[seq |-> x[1], record |-> x[1], seal |-> x[2].first] :
                        x \in {x \in ns \X b.seals : Covers(x[2], x[1])}}
      /\ b.keys = Keys /\ b.handovers = {Handover} /\ b.companions = Companions
      /\ b.certificates = chain
      /\ version = "none" => b.manifest = NoManifest
      /\ version # "none" =>
            b.manifest = [version |-> version, edited |-> FALSE, signer |-> Signer(Last),
                          leaves |-> b.leaves, seals |-> b.seals, proofs |-> b.proofs,
                          companions |-> Companions]
  BY DEF Export, Companions
<1>2. b = [leaves |-> b.leaves, seals |-> b.seals, proofs |-> b.proofs, keys |-> b.keys,
           handovers |-> b.handovers, certificates |-> b.certificates,
           companions |-> b.companions, manifest |-> b.manifest]
  BY DEF Export
<1>3. b.leaves \subseteq Leaves
  BY <1>1, LeafShape
<1>4. b.seals \subseteq Seals
  BY <1>1, SealsWithin
<1>5. b.handovers \subseteq Handovers
  BY <1>1 DEF Handover, Handovers
<1>6. Dated(b.certificates)
  BY <1>1, ChainsAssumption DEF Dated
<1> QED
  BY <1>1, <1>2, <1>3, <1>4, <1>5, <1>6 DEF Shape, Parts

\* What an export is, as far as the proofs below need it: the parts, and the
\* manifest that commits to them or none.
LEMMA Exported ==
    ASSUME NEW e, IsExport(e)
    PROVE  /\ Shape(e)
           /\ \A l \in e.leaves : l = Leaf(l.seq)
           /\ \A s \in e.seals : s.edited = "no"
           /\ e.keys = Keys /\ e.handovers = {Handover} /\ e.companions = Companions
           /\ \/ e.manifest = NoManifest
              \/ \E version \in {"old", "new"} :
                    e.manifest = [version |-> version, edited |-> FALSE, signer |-> Signer(Last),
                                  leaves |-> e.leaves, seals |-> e.seals, proofs |-> e.proofs,
                                  companions |-> Companions]
<1>1. PICK ns \in SUBSET (1..Last), version \in {"none", "old", "new"}, chain \in Chains :
         e = Export(ns, version, chain)
  BY DEF IsExport
<1>2. Parts(e, ns, version, chain)
  BY <1>1, ExportParts
<1>3. Shape(e) /\ e.keys = Keys /\ e.handovers = {Handover} /\ e.companions = Companions
  BY <1>2 DEF Parts
<1>4. e.leaves = {Leaf(n) : n \in ns} /\ e.seals \subseteq AllSeals
  BY <1>2 DEF Parts
<1>5. \A l \in e.leaves : l = Leaf(l.seq)
  <2>1. \A n \in ns : Leaf(n).seq = n
    BY LeafShape
  <2> QED
    BY <1>4, <2>1
<1>6. \A s \in e.seals : s.edited = "no"
  BY <1>4, SealsWithin
<1>7. CASE version = "none"
  <2>1. e.manifest = NoManifest
    BY <1>2, <1>7 DEF Parts
  <2> QED
    BY <1>3, <1>5, <1>6, <2>1
<1>8. CASE version # "none"
  <2>1. e.manifest = [version |-> version, edited |-> FALSE, signer |-> Signer(Last),
                      leaves |-> e.leaves, seals |-> e.seals, proofs |-> e.proofs,
                      companions |-> Companions]
    BY <1>2, <1>8 DEF Parts
  <2>2. version \in {"old", "new"}
    BY <1>8
  <2> QED
    BY <1>3, <1>5, <1>6, <2>1, <2>2
<1> QED
  BY <1>7, <1>8

-----------------------------------------------------------------------------
(***************************************************************************)
(* The invariant: what is exported is an export; a bundle has the shape of *)
(* one however it was damaged, and the manifest it was exported with, that *)
(* one edited, or none.                                                    *)
(***************************************************************************)
Manifests == {exported.manifest, [exported.manifest EXCEPT !.edited = TRUE], NoManifest}

BundleInv ==
    /\ IsExport(exported)
    /\ Shape(bundle)
    /\ bundle.manifest \in Manifests
    /\ damages \in Nat
    /\ damages = 0 => bundle = exported

LEMMA InvInit == Init => BundleInv
<1> SUFFICES ASSUME Init PROVE BundleInv
  OBVIOUS
<1>1. PICK ns \in Windows, team \in {1..Last, TeamRecords}, version \in {"none", "old", "new"},
           chain \in Chains :
         ns \cap team # {} /\ bundle = Export(ns \cap team, version, chain)
  BY DEF Init
<1>2. ns \cap team \in SUBSET (1..Last)
  <2>1. team \in SUBSET (1..Last)
    BY EvidenceAssumption
  <2> QED
    BY <2>1
<1>3. IsExport(bundle)
  BY <1>1, <1>2 DEF IsExport
<1> QED
  BY <1>3, Exported DEF Init, BundleInv, Manifests

\* A bundle with other lines of one part is a bundle.
LEMMA PartShape ==
    ASSUME NEW b, Shape(b), NEW x
    PROVE  /\ x \subseteq Leaves => Shape([b EXCEPT !.leaves = x])
           /\ x \subseteq Seals => Shape([b EXCEPT !.seals = x])
           /\ Shape([b EXCEPT !.proofs = x])
           /\ x \subseteq Keys => Shape([b EXCEPT !.keys = x])
           /\ x \subseteq Handovers => Shape([b EXCEPT !.handovers = x])
           /\ Dated(x) => Shape([b EXCEPT !.certificates = x])
           /\ x \subseteq Companions => Shape([b EXCEPT !.companions = x])
           /\ Shape([b EXCEPT !.manifest = x])
<1>1. x \subseteq Leaves => Shape([b EXCEPT !.leaves = x])
  BY DEF Shape
<1>2. x \subseteq Seals => Shape([b EXCEPT !.seals = x])
  BY DEF Shape
<1>3. Shape([b EXCEPT !.proofs = x])
  BY DEF Shape
<1>4. x \subseteq Keys => Shape([b EXCEPT !.keys = x])
  BY DEF Shape
<1>5. x \subseteq Handovers => Shape([b EXCEPT !.handovers = x])
  BY DEF Shape
<1>6. Dated(x) => Shape([b EXCEPT !.certificates = x])
  BY DEF Shape
<1>7. x \subseteq Companions => Shape([b EXCEPT !.companions = x])
  BY DEF Shape
<1>8. Shape([b EXCEPT !.manifest = x])
  BY DEF Shape
<1> QED
  BY <1>1, <1>2, <1>3, <1>4, <1>5, <1>6, <1>7, <1>8

LEMMA DamagedKeeps ==
    ASSUME BundleInv, NEW b, Damaged(b), Shape(b), b.manifest \in Manifests
    PROVE  BundleInv'
<1>1. bundle' = b /\ exported' = exported /\ damages' = damages + 1
  BY DEF Damaged
<1> QED
  BY <1>1 DEF BundleInv, Manifests

\* No damage puts in a line of another shape, or another manifest.
LEMMA InvNext == BundleInv /\ [Next]_vars => BundleInv'
<1> SUFFICES ASSUME BundleInv, [Next]_vars PROVE BundleInv'
  OBVIOUS
<1>1. Shape(bundle) /\ bundle.manifest \in Manifests
  BY DEF BundleInv
<1>2. ASSUME NEW x, \/ x \subseteq Leaves /\ Damaged([bundle EXCEPT !.leaves = x])
                    \/ x \subseteq Seals /\ Damaged([bundle EXCEPT !.seals = x])
                    \/ Damaged([bundle EXCEPT !.proofs = x])
                    \/ x \subseteq Keys /\ Damaged([bundle EXCEPT !.keys = x])
                    \/ x \subseteq Handovers /\ Damaged([bundle EXCEPT !.handovers = x])
                    \/ Dated(x) /\ Damaged([bundle EXCEPT !.certificates = x])
                    \/ x \subseteq Companions /\ Damaged([bundle EXCEPT !.companions = x])
                    \/ x \in Manifests /\ Damaged([bundle EXCEPT !.manifest = x])
      PROVE  BundleInv'
  <2>1. /\ [bundle EXCEPT !.leaves = x].manifest = bundle.manifest
        /\ [bundle EXCEPT !.seals = x].manifest = bundle.manifest
        /\ [bundle EXCEPT !.proofs = x].manifest = bundle.manifest
        /\ [bundle EXCEPT !.keys = x].manifest = bundle.manifest
        /\ [bundle EXCEPT !.handovers = x].manifest = bundle.manifest
        /\ [bundle EXCEPT !.certificates = x].manifest = bundle.manifest
        /\ [bundle EXCEPT !.companions = x].manifest = bundle.manifest
        /\ [bundle EXCEPT !.manifest = x].manifest = x
    BY <1>1 DEF Shape
  <2>2. CASE x \subseteq Leaves /\ Damaged([bundle EXCEPT !.leaves = x])
    BY <1>1, <2>1, <2>2, PartShape, DamagedKeeps
  <2>3. CASE x \subseteq Seals /\ Damaged([bundle EXCEPT !.seals = x])
    BY <1>1, <2>1, <2>3, PartShape, DamagedKeeps
  <2>4. CASE Damaged([bundle EXCEPT !.proofs = x])
    BY <1>1, <2>1, <2>4, PartShape, DamagedKeeps
  <2>5. CASE x \subseteq Keys /\ Damaged([bundle EXCEPT !.keys = x])
    BY <1>1, <2>1, <2>5, PartShape, DamagedKeeps
  <2>6. CASE x \subseteq Handovers /\ Damaged([bundle EXCEPT !.handovers = x])
    BY <1>1, <2>1, <2>6, PartShape, DamagedKeeps
  <2>7. CASE Dated(x) /\ Damaged([bundle EXCEPT !.certificates = x])
    BY <1>1, <2>1, <2>7, PartShape, DamagedKeeps
  <2>8. CASE x \subseteq Companions /\ Damaged([bundle EXCEPT !.companions = x])
    BY <1>1, <2>1, <2>8, PartShape, DamagedKeeps
  <2>9. CASE x \in Manifests /\ Damaged([bundle EXCEPT !.manifest = x])
    <3>1. Shape([bundle EXCEPT !.manifest = x])
      BY <1>1, PartShape
    <3>2. [bundle EXCEPT !.manifest = x].manifest \in Manifests
      BY <2>1, <2>9
    <3> QED
      BY <2>9, <3>1, <3>2, DamagedKeeps
  <2> QED
    BY <1>2, <2>2, <2>3, <2>4, <2>5, <2>6, <2>7, <2>8, <2>9
<1>3. ASSUME Lose
      PROVE  BundleInv'
  <2>1. ASSUME NEW part \in {"leaves", "seals", "proofs", "keys", "handovers", "companions"},
               NEW x \in bundle[part], Damaged([bundle EXCEPT ![part] = @ \ {x}])
        PROVE  BundleInv'
    <3>1. CASE part = "leaves"
      BY <1>1, <1>2, <2>1, <3>1 DEF Shape
    <3>2. CASE part = "seals"
      BY <1>1, <1>2, <2>1, <3>2 DEF Shape
    <3>3. CASE part = "proofs"
      BY <1>2, <2>1, <3>3
    <3>4. CASE part = "keys"
      BY <1>1, <1>2, <2>1, <3>4 DEF Shape
    <3>5. CASE part = "handovers"
      BY <1>1, <1>2, <2>1, <3>5 DEF Shape
    <3>6. CASE part = "companions"
      BY <1>1, <1>2, <2>1, <3>6 DEF Shape
    <3> QED
      BY <2>1, <3>1, <3>2, <3>3, <3>4, <3>5, <3>6
  <2>2. CASE Damaged([bundle EXCEPT !.manifest = NoManifest])
    BY <1>2, <2>2 DEF Manifests
  <2>3. CASE Damaged([bundle EXCEPT !.certificates = [@ EXCEPT !.root = "none"]])
    <3>1. Dated([bundle.certificates EXCEPT !.root = "none"])
      BY <1>1 DEF Shape, Dated
    <3> QED
      BY <1>2, <2>3, <3>1
  <2> QED
    BY <1>3, <2>1, <2>2, <2>3 DEF Lose
<1>4. ASSUME Edit
      PROVE  BundleInv'
  <2>1. ASSUME NEW x \in bundle.leaves, NEW y \in Leaves, Changed("leaves", x, y)
        PROVE  BundleInv'
    BY <1>1, <1>2, <2>1 DEF Changed, Shape
  <2>2. ASSUME NEW x \in bundle.leaves
        PROVE  /\ \A how \in {"body", "signature"} : [x EXCEPT !.edited = how] \in Leaves
               /\ \A how \in {"none", "unsigned", "edited"} : [x EXCEPT !.attrs = how] \in Leaves
    BY <1>1 DEF Shape, Leaves, Edits
  <2>3. ASSUME NEW x \in bundle.seals, NEW how \in {"body", "signature"},
               Changed("seals", x, [x EXCEPT !.edited = how])
        PROVE  BundleInv'
    <3>1. [x EXCEPT !.edited = how] \in Seals
      BY <1>1 DEF Shape, Seals, Edits
    <3> QED
      BY <1>1, <1>2, <2>3, <3>1 DEF Changed, Shape
  <2>4. ASSUME NEW h \in bundle.handovers, Changed("handovers", h, [h EXCEPT !.edited = TRUE])
        PROVE  BundleInv'
    <3>1. [h EXCEPT !.edited = TRUE] \in Handovers
      BY <1>1 DEF Shape, Handovers
    <3> QED
      BY <1>1, <1>2, <2>4, <3>1 DEF Changed, Shape
  <2>5. CASE Known(bundle) /\ Damaged([bundle EXCEPT !.manifest.edited = TRUE])
    <3>1. bundle.manifest # NoManifest
      BY <2>5 DEF Known, NoManifest
    <3>2. [bundle.manifest EXCEPT !.edited = TRUE] \in Manifests
      BY <1>1, <3>1 DEF Manifests
    <3> QED
      BY <1>2, <2>5, <3>2
  <2> QED
    BY <1>4, <2>1, <2>2, <2>3, <2>4, <2>5 DEF Edit
<1>5. ASSUME Mix
      PROVE  BundleInv'
  <2>1. ASSUME NEW x \in bundle.leaves, NEW n \in 1..Last
        PROVE  [x EXCEPT !.seq = n] \in Leaves
    BY <1>1 DEF Shape, Leaves
  <2>2. ASSUME NEW x \in bundle.leaves, NEW n \in 1..Last,
               \/ Changed("leaves", x, [x EXCEPT !.seq = n])
               \/ Damaged([bundle EXCEPT !.leaves = @ \cup {[x EXCEPT !.seq = n]}])
        PROVE  BundleInv'
    BY <1>1, <1>2, <2>1, <2>2 DEF Changed, Shape
  <2>3. ASSUME NEW n \in 1..Last, Damaged([bundle EXCEPT !.leaves = @ \cup {Leaf(n)}])
        PROVE  BundleInv'
    BY <1>1, <1>2, <2>3, LeafShape DEF Shape
  <2> QED
    BY <1>5, <2>2, <2>3 DEF Mix
<1>6. CASE UNCHANGED vars
  BY <1>6 DEF vars, BundleInv, Manifests
<1> QED
  BY <1>3, <1>4, <1>5, <1>6 DEF Next

-----------------------------------------------------------------------------
(***************************************************************************)
(* What a verdict means.                                                   *)
(***************************************************************************)
LEMMA OkMeans ==
    ASSUME NEW crypto
    PROVE  Ok(crypto) <=> BundleHolds(bundle, crypto)
BY DEF Ok, verify_bundle

\* A manifest that holds and commits the content is the one of the export.
LEMMA ManifestIsExported ==
    ASSUME BundleInv, ManifestHolds(bundle, TRUE), Known(bundle)
    PROVE  /\ bundle.manifest = exported.manifest
           /\ bundle.manifest.leaves = exported.leaves
           /\ bundle.manifest.seals = exported.seals
           /\ bundle.manifest.proofs = exported.proofs
           /\ bundle.manifest.companions = exported.companions
<1>1. IsExport(exported) /\ bundle.manifest \in Manifests
  BY DEF BundleInv
<1>2. bundle.manifest # NoManifest /\ ~bundle.manifest.edited
  BY DEF ManifestHolds, Known, NoManifest
<1>3. exported.manifest # NoManifest
  <2>1. SUFFICES ASSUME exported.manifest = NoManifest PROVE FALSE
    OBVIOUS
  <2>2. bundle.manifest = [NoManifest EXCEPT !.edited = TRUE]
    BY <1>1, <1>2, <2>1 DEF Manifests
  <2>3. [NoManifest EXCEPT !.edited = TRUE] = NoManifest
    BY DEF NoManifest
  <2> QED
    BY <1>2, <2>2, <2>3
<1>4. PICK version \in {"old", "new"} :
         exported.manifest = [version |-> version, edited |-> FALSE, signer |-> Signer(Last),
                              leaves |-> exported.leaves, seals |-> exported.seals,
                              proofs |-> exported.proofs, companions |-> Companions]
  BY <1>1, <1>3, Exported
<1>5. [exported.manifest EXCEPT !.edited = TRUE].edited = TRUE
  BY <1>4
<1>6. bundle.manifest = exported.manifest
  BY <1>1, <1>2, <1>5 DEF Manifests
<1>7. exported.companions = Companions
  BY <1>1, Exported
<1> QED
  BY <1>4, <1>6, <1>7

LEMMA SameLeaves ==
    ASSUME NEW leaves, leaves \subseteq Leaves, NEW from, from \subseteq Leaves,
           \A l \in from : l = Leaf(l.seq), NEW keys,
           LeavesHold(leaves, keys, TRUE), Pairs(leaves) = Pairs(from),
           AttrRows(leaves) = AttrRows(from)
    PROVE  leaves = from
<1>1. \A l \in leaves : \E m \in from : m.seq = l.seq /\ m.record = l.record
  <2>1. SUFFICES ASSUME NEW l \in leaves PROVE \E m \in from : m.seq = l.seq /\ m.record = l.record
    OBVIOUS
  <2>2. <<l.seq, l.record>> \in Pairs(from)
    BY DEF Pairs
  <2> QED
    BY <2>2 DEF Pairs
<1>2. \A m \in from : \E l \in leaves : m.seq = l.seq /\ m.record = l.record
  <2>1. SUFFICES ASSUME NEW m \in from PROVE \E l \in leaves : m.seq = l.seq /\ m.record = l.record
    OBVIOUS
  <2>2. <<m.seq, m.record>> \in Pairs(leaves)
    BY DEF Pairs
  <2> QED
    BY <2>2 DEF Pairs
<1>3. \A l, m \in leaves : l.seq = m.seq => l = m
  BY DEF LeavesHold
<1>4. \A l, m \in from : l.seq = m.seq => l = m
  OBVIOUS
<1>5. \A l \in leaves : l.edited = "no" /\ l.attrs \in {"none", "signed"}
  BY DEF LeavesHold, AttrsHold, Leaves
<1>6. \A m \in from : m.edited = "no" /\ m.attrs \in {"none", "signed"}
  BY DEF Leaf
<1>7. ASSUME NEW l \in leaves, NEW m \in from, l.seq = m.seq
      PROVE  l.attrs = "signed" <=> m.attrs = "signed"
  <2>1. l.attrs # "none" <=> l.seq \in AttrRows(leaves)
    BY <1>3 DEF AttrRows
  <2>2. m.attrs # "none" <=> m.seq \in AttrRows(from)
    BY <1>4 DEF AttrRows
  <2> QED
    BY <1>5, <1>6, <1>7, <2>1, <2>2
<1>8. ASSUME NEW l \in leaves, NEW m \in from, l.seq = m.seq, l.record = m.record
      PROVE  l = m
  <2>1. l \in Leaves /\ m \in Leaves
    OBVIOUS
  <2>2. l.edited = m.edited /\ l.attrs = m.attrs
    BY <1>5, <1>6, <1>7, <1>8
  <2> QED
    BY <1>8, <2>1, <2>2 DEF Leaves
<1> QED
  BY <1>1, <1>2, <1>8

LEMMA SameSeals ==
    ASSUME NEW seals, seals \subseteq Seals, NEW from, from \subseteq Seals,
           \A s \in seals \cup from : s.edited = "no",
           {s.first : s \in seals} = {s.first : s \in from}
    PROVE  seals = from
<1>1. ASSUME NEW s \in seals, NEW t \in from, s.first = t.first
      PROVE  s = t
  BY <1>1 DEF Seals
<1>2. \A s \in seals : \E t \in from : s.first = t.first
  OBVIOUS
<1>3. \A t \in from : \E s \in seals : s.first = t.first
  OBVIOUS
<1> QED
  BY <1>1, <1>2, <1>3

\* A bundle that holds under a manifest that commits the content is the export,
\* part by part.
LEMMA VerifiedParts ==
    ASSUME BundleInv, BundleHolds(bundle, TRUE), Known(bundle), BindsContent(bundle)
    PROVE  /\ bundle.leaves = exported.leaves /\ bundle.seals = exported.seals
           /\ bundle.proofs = exported.proofs /\ bundle.keys = exported.keys
           /\ bundle.handovers = exported.handovers
           /\ bundle.companions = exported.companions
           /\ bundle.manifest = exported.manifest
<1>1. Shape(bundle) /\ Shape(exported) /\ IsExport(exported)
  BY Exported DEF BundleInv
<1>2. /\ LeavesHold(bundle.leaves, bundle.keys, TRUE) /\ ManifestHolds(bundle, TRUE)
      /\ KeyCustody(bundle, TRUE) /\ RecordSet(bundle) /\ CompanionsHold(bundle)
      /\ \A s \in bundle.seals : s.edited = "no"
  BY DEF BundleHolds, SealHolds
<1>3. /\ bundle.manifest = exported.manifest
      /\ bundle.manifest.leaves = exported.leaves
      /\ bundle.manifest.seals = exported.seals
      /\ bundle.manifest.proofs = exported.proofs
      /\ bundle.manifest.companions = exported.companions
  BY <1>2, ManifestIsExported
<1>4. bundle.leaves = exported.leaves
  <2>1. /\ Pairs(bundle.leaves) = Pairs(exported.leaves)
        /\ AttrRows(bundle.leaves) = AttrRows(exported.leaves)
    BY <1>2, <1>3 DEF RecordSet
  <2> QED
    BY <1>1, <1>2, <2>1, Exported, SameLeaves DEF Shape
<1>5. bundle.seals = exported.seals
  <2>1. {s.first : s \in bundle.seals} = {s.first : s \in exported.seals}
    BY <1>2, <1>3 DEF RecordSet
  <2> QED
    BY <1>1, <1>2, <2>1, Exported, SameSeals DEF Shape
<1>6. bundle.proofs = exported.proofs
  BY <1>2, <1>3 DEF RecordSet
<1>7. bundle.keys = exported.keys /\ bundle.handovers = exported.handovers
  <2>1. Keys \subseteq bundle.keys /\ bundle.handovers = {Handover}
    BY <1>2 DEF KeyCustody, Trusted
  <2> QED
    BY <1>1, <2>1, Exported DEF Shape
<1>8. bundle.companions = exported.companions
  <2>1. exported.companions \subseteq bundle.companions
    BY <1>2, <1>3 DEF CompanionsHold
  <2>2. exported.companions = Companions
    BY <1>1, Exported
  <2>3. bundle.companions \subseteq Companions
    BY <1>1 DEF Shape
  <2> QED
    BY <2>1, <2>2, <2>3
<1> QED
  BY <1>3, <1>4, <1>5, <1>6, <1>7, <1>8

\* A bundle that verifies under a manifest that commits the content is what was
\* exported, for every log and every export of it, whatever became of it on
\* its way (verify_bundle of audit_verify.py).
THEOREM VerifiedAlwaysExported == Spec => []VerifiedMeansExported
<1>1. ASSUME BundleInv
      PROVE  VerifiedMeansExported
  <2>1. SUFFICES ASSUME BundleHolds(bundle, TRUE), Known(bundle), BindsContent(bundle)
                 PROVE  [exported EXCEPT !.certificates = bundle.certificates] = bundle
    BY OkMeans DEF VerifiedMeansExported
  <2>2. Shape(bundle) /\ Shape(exported)
    BY <1>1, Exported DEF BundleInv
  <2> QED
    BY <1>1, <2>1, <2>2, VerifiedParts DEF Shape
<1> QED
  BY <1>1, InvInit, InvNext, PTL DEF Spec

\* ATTESTED says that, and that each record was signed with a key certified at
\* that time under a pinned root by an issuer that could issue it, for every
\* certificate chain and every set of pinned roots (_attestation).
THEOREM AttestedAlwaysEarned == Spec => []AttestedIsEarned
<1>1. ASSUME BundleInv
      PROVE  AttestedIsEarned
  <2>1. SUFFICES ASSUME BundleHolds(bundle, TRUE), Attested(bundle, TRUE)
                 PROVE  /\ exported.leaves = bundle.leaves
                        /\ exported.seals = bundle.seals
                        /\ bundle.certificates.root \in Pins
                        /\ \A l \in bundle.leaves :
                              \E d \in bundle.certificates.deployments :
                                 /\ d.key = Signer(l.record)
                                 /\ l.record \in d.from..d.to
                                 /\ \E i \in bundle.certificates.issuers :
                                       i.name = d.issuer /\ d.from \in i.from..i.to
    BY DEF AttestedIsEarned, verify_bundle
  <2>2. exported.leaves = bundle.leaves /\ exported.seals = bundle.seals
    BY <1>1, <2>1, VerifiedParts DEF Attested, Trusted
  <2>3. bundle.certificates.root \in Pins
    BY <2>1 DEF Attested, Validated
  <2>4. ASSUME NEW l \in bundle.leaves
        PROVE  \E d \in bundle.certificates.deployments :
                  /\ d.key = Signer(l.record)
                  /\ l.record \in d.from..d.to
                  /\ \E i \in bundle.certificates.issuers :
                        i.name = d.issuer /\ d.from \in i.from..i.to
    <3>1. PICK d \in Validated(bundle.certificates) :
             d.key = Signer(l.record) /\ d.from <= l.record /\ l.record <= d.to
      BY <2>1 DEF Attested, Covered
    <3>2. PICK i \in bundle.certificates.issuers :
             i.name = d.issuer /\ i.from <= d.from /\ d.from <= i.to
      BY <2>3, <3>1 DEF Validated
    <3>3. d \in bundle.certificates.deployments
      BY <2>3, <3>1 DEF Validated
    <3>4. d.from \in Nat /\ d.to \in Nat /\ i.from \in Nat /\ i.to \in Nat /\ l.record \in Nat
      BY <1>1, <3>2, <3>3, Sizes DEF BundleInv, Shape, Dated, Leaves
    <3> QED
      BY <3>1, <3>2, <3>3, <3>4
  <2> QED
    BY <2>2, <2>3, <2>4
<1> QED
  BY <1>1, InvInit, InvNext, PTL DEF Spec

-----------------------------------------------------------------------------
(***************************************************************************)
(* The seals without a manifest.  A seal that lies between the records of  *)
(* the bundle is no boundary, so it has to be there with as many leaves as *)
(* it spans; no two of them have one seq, so they have every seq there is. *)
(***************************************************************************)
LEMMA MinIsLeast ==
    ASSUME NEW S, S \subseteq Nat, S # {}
    PROVE  Min(S) \in S /\ \A y \in S : Min(S) <= y
<1> DEFINE less == {p \in Nat \X Nat : p[1] < p[2]}
<1>1. IsWellFoundedOn(less, Nat)
  BY NatLessThanWellFounded, Zenon DEF OpToRel
<1>2. \E x \in S : \A y \in S : ~(<<y, x>> \in less)
  BY <1>1, WFMin
<1>3. \E x \in S : \A y \in S : x <= y
  <2>1. PICK x \in S : \A y \in S : ~(<<y, x>> \in less)
    BY <1>2
  <2>2. ASSUME NEW y \in S
        PROVE  x <= y
    <3>1. <<y, x>> \in Nat \X Nat /\ <<y, x>>[1] = y /\ <<y, x>>[2] = x
      OBVIOUS
    <3>2. ~(y < x)
      BY <2>1, <3>1
    <3> QED
      BY <3>2
  <2> QED
    BY <2>2
<1> QED
  BY <1>3 DEF Min

LEMMA SpanSize ==
    ASSUME NEW a \in Nat, NEW b \in Nat, b = a + Batch - 1
    PROVE  IsFiniteSet(a..b) /\ Cardinality(a..b) = Batch
<1>1. a \in Int /\ b \in Int /\ ~(a > b) /\ b - a + 1 = Batch
  BY Sizes
<1> QED
  BY <1>1, FS_Interval

UnderSeal(leaves, s) == {l \in leaves : Covers(s, l.seq)}

\* As many leaves as a seal spans are all of them, and the other way round.
LEMMA AllCovered ==
    ASSUME NEW leaves, leaves \subseteq Leaves, NEW s \in Seals,
           \A l, m \in leaves : l.seq = m.seq => l = m
    PROVE  Cardinality(UnderSeal(leaves, s)) = Batch
               <=> \A n \in s.first..s.last : \E l \in leaves : Covers(s, l.seq) /\ l.seq = n
<1> DEFINE covered == UnderSeal(leaves, s)
           f == [l \in covered |-> l.seq]
<1>1. s.first \in Nat /\ s.last \in Nat /\ s.last = s.first + Batch - 1
  BY DEF Seals
<1>2. IsFiniteSet(s.first..s.last) /\ Cardinality(s.first..s.last) = Batch
  BY <1>1, SpanSize
<1>3. \A l \in covered : l.seq \in s.first..s.last
  BY <1>1, Sizes DEF Covers, Leaves, UnderSeal
<1>4. f \in Injection(covered, s.first..s.last)
  BY <1>3 DEF Injection, IsInjective, UnderSeal
<1>5. Cardinality(covered) = Batch <=> f \in Surjection(covered, s.first..s.last)
  BY <1>2, <1>4, FS_Injection
<1>6. f \in Surjection(covered, s.first..s.last)
         <=> \A n \in s.first..s.last : \E l \in covered : f[l] = n
  BY <1>3 DEF Surjection
<1> QED
  BY <1>5, <1>6 DEF UnderSeal

\* Without a manifest none of the records between the first and the last one is
\* missing, edited or exchanged under a seal that is in the bundle, for every
\* size of a batch (verify_seal and the boundary of verify_bundle).
THEOREM SealsAlwaysGuard == Spec => []SealsGuard
<1>1. ASSUME BundleInv
      PROVE  SealsGuard
  <2>1. SUFFICES ASSUME BundleHolds(bundle, FALSE), bundle.manifest.version = "none",
                        NEW s \in bundle.seals, s.first \in Seqs(bundle.leaves),
                        Max(Seqs(bundle.leaves)) >= s.last,
                        NEW n \in s.first..s.last
                 PROVE  \E l \in bundle.leaves : l.seq = n /\ l.record = n /\ l.edited # "body"
    BY OkMeans DEF SealsGuard
  <2> DEFINE covered == UnderSeal(bundle.leaves, s)
  <2>2. bundle.leaves \subseteq Leaves /\ s \in Seals
    BY <1>1 DEF BundleInv, Shape
  <2>3. /\ \A l, m \in bundle.leaves : l.seq = m.seq => l = m
        /\ \A l \in bundle.leaves : l.edited # "body"
        /\ SealHolds(bundle, s, FALSE, FALSE)
    BY <2>1 DEF BundleHolds, LeavesHold, Defers, Known
  <2>4. ~Boundary(bundle, s)
    <3>1. Seqs(bundle.leaves) \subseteq Nat
      BY <2>2, Sizes DEF Seqs, Leaves
    <3>2. s.first >= Min(Seqs(bundle.leaves))
      BY <2>1, <3>1, MinIsLeast
    <3> QED
      BY <2>1, <3>2 DEF Boundary
  <2>5. Cardinality(covered) = Batch /\ \A l \in covered : l.record = l.seq
    BY <2>3, <2>4 DEF SealHolds, UnderSeal
  <2>6. PICK l \in bundle.leaves : Covers(s, l.seq) /\ l.seq = n
    BY <2>2, <2>3, <2>5, AllCovered
  <2> QED
    BY <2>3, <2>5, <2>6 DEF UnderSeal
<1> QED
  BY <1>1, InvInit, InvNext, PTL DEF Spec

-----------------------------------------------------------------------------
(***************************************************************************)
(* An export.  Its manifest commits to what is in it, and each of its      *)
(* proofs is of a leaf and a seal that are.  A seal that reaches past it   *)
(* is left to the manifest; an export of the whole log has none.           *)
(***************************************************************************)
LEMMA ExportHolds ==
    ASSUME NEW b, IsExport(b), NEW crypto,
           BindsContent(b) \/ Seqs(b.leaves) = 1..Last
    PROVE  BundleHolds(b, crypto)
<1>1. PICK ns \in SUBSET (1..Last), version \in {"none", "old", "new"}, chain \in Chains :
         b = Export(ns, version, chain)
  BY DEF IsExport
<1>2. Parts(b, ns, version, chain)
  BY <1>1, ExportParts
<1>3. /\ b.leaves \subseteq Leaves /\ b.seals \subseteq Seals
      /\ \A l \in b.leaves : l = Leaf(l.seq)
      /\ \A s \in b.seals : s.edited = "no"
      /\ b.keys = Keys /\ b.handovers = {Handover} /\ b.companions = Companions
  BY Exported DEF Shape
<1>4. \A n : Signer(n) \in Keys
  BY DEF Signer, Keys
<1>5. \A l \in b.leaves : l.record = l.seq /\ l.edited = "no" /\ l.attrs \in {"none", "signed"}
  BY <1>3 DEF Leaf
<1>6. \A l, m \in b.leaves : l.seq = m.seq => l = m
  BY <1>3
<1>7. LeavesHold(b.leaves, b.keys, crypto)
  <2>1. \A l, m \in b.leaves : l.seq = m.seq \/ l.record = m.record => l = m
    BY <1>5, <1>6
  <2>2. Linked(b.leaves)
    BY <1>5 DEF Linked
  <2> QED
    BY <1>3, <1>4, <1>5, <2>1, <2>2 DEF LeavesHold, AttrsHold
<1>8. ManifestHolds(b, crypto) /\ (Known(b) => RecordSet(b) /\ CompanionsHold(b))
  <2>1. CASE version = "none"
    <3>1. ~Known(b)
      BY <1>2, <2>1 DEF Parts, Known, NoManifest
    <3> QED
      BY <3>1 DEF ManifestHolds
  <2>2. CASE version # "none"
    <3>1. /\ b.manifest.leaves = b.leaves /\ b.manifest.seals = b.seals
          /\ b.manifest.proofs = b.proofs /\ b.manifest.companions = Companions
          /\ b.manifest.edited = FALSE
      BY <1>2, <2>2 DEF Parts
    <3> QED
      BY <1>3, <3>1 DEF ManifestHolds, RecordSet, CompanionsHold
  <2> QED
    BY <2>1, <2>2
<1>9. KeyCustody(b, crypto)
  BY <1>3 DEF KeyCustody, HandoversHold, Handover
<1>10. ASSUME NEW p \in b.proofs
       PROVE  \E n \in ns, s \in b.seals :
                 /\ Covers(s, n) /\ Leaf(n) \in b.leaves
                 /\ p.seq = n /\ p.record = n /\ p.seal = s.first
                 /\ p = [seq |-> n, record |-> n, seal |-> s.first]
  <2>1. PICK x \in {x \in ns \X b.seals : Covers(x[2], x[1])} :
           p = [seq |-> x[1], record |-> x[1], seal |-> x[2].first]
    BY <1>2 DEF Parts
  <2>2. x[1] \in ns /\ x[2] \in b.seals /\ Covers(x[2], x[1])
    OBVIOUS
  <2>3. Leaf(x[1]) \in b.leaves
    BY <1>2, <2>2 DEF Parts
  <2> QED
    BY <2>1, <2>2, <2>3
<1>11. ProofsIndexed(b)
  <2>1. ASSUME NEW p \in b.proofs
        PROVE  p.seq \in Seqs(b.leaves) /\ \E s \in b.seals : s.first = p.seal
    <3>1. PICK n \in ns, s \in b.seals :
             Leaf(n) \in b.leaves /\ p.seq = n /\ p.seal = s.first
      BY <1>10
    <3>2. Leaf(n).seq = n
      BY LeafShape
    <3> QED
      BY <3>1, <3>2 DEF Seqs
  <2>2. ASSUME NEW p \in b.proofs, NEW q \in b.proofs, p.seal = q.seal, p.seq = q.seq
        PROVE  p = q
    BY <1>10, <2>2
  <2> QED
    BY <2>1, <2>2 DEF ProofsIndexed
<1>12. ASSUME NEW s \in b.seals
       PROVE  SealHolds(b, s, crypto, Defers(b, crypto))
  <2>1. ASSUME NEW p \in b.proofs, p.seal = s.first
        PROVE  Reaches(b, p, s)
    <3>1. PICK n \in ns, t \in b.seals :
             Covers(t, n) /\ p.seq = n /\ p.record = n /\ p.seal = t.first
      BY <1>10
    <3>2. Covers(s, n)
      BY <1>3, <2>1, <3>1 DEF Covers, Seals
    <3> QED
      BY <1>5, <3>1, <3>2 DEF Reaches
  <2>2. CASE BindsContent(b)
    <3>1. Known(b)
      <4>1. version # "none"
        BY <1>2, <2>2 DEF Parts, BindsContent, NoManifest
      <4>2. b.manifest.signer = Signer(Last) /\ b.manifest.version = version
        BY <1>2, <4>1 DEF Parts
      <4> QED
        BY <1>3, <1>4, <4>1, <4>2 DEF Known
    <3> QED
      BY <1>3, <1>4, <1>5, <2>1, <2>2, <3>1 DEF SealHolds, Defers
  <2>3. CASE Seqs(b.leaves) = 1..Last
    <3>1. s \in AllSeals /\ s \in Seals
      BY <1>2, <1>3 DEF Parts
    <3>2. s.first >= 1 /\ s.last <= Last /\ s.first \in Nat /\ s.last \in Nat
      BY <3>1, SealsWithin DEF Seals
    <3>3. ASSUME NEW n \in s.first..s.last
          PROVE  \E l \in b.leaves : Covers(s, l.seq) /\ l.seq = n
      <4>1. n \in Seqs(b.leaves) /\ s.first <= n /\ n <= s.last
        BY <2>3, <3>2, Sizes
      <4> QED
        BY <4>1 DEF Seqs, Covers
    <3>4. Cardinality(UnderSeal(b.leaves, s)) = Batch
      <4>1. \A n \in s.first..s.last : \E l \in b.leaves : Covers(s, l.seq) /\ l.seq = n
        BY <3>3
      <4> QED
        BY <1>3, <1>6, <3>1, <4>1, AllCovered
    <3> QED
      BY <1>3, <1>4, <1>5, <2>1, <3>4 DEF SealHolds, UnderSeal
  <2> QED
    BY <2>2, <2>3
<1> QED
  BY <1>7, <1>8, <1>9, <1>11, <1>12 DEF BundleHolds

\* Every export whose manifest commits the content verifies, with cryptography
\* and without, and so does an export of the whole log without a manifest: of
\* any log, batch, team and window, though its seals may reach past it.
THEOREM ExportsAlwaysVerify == Spec => []ExportsVerify
<1>1. ASSUME BundleInv
      PROVE  ExportsVerify
  <2>1. damages = 0 => IsExport(bundle)
    BY <1>1 DEF BundleInv
  <2> QED
    BY <2>1, ExportHolds, OkMeans DEF ExportsVerify
<1> QED
  BY <1>1, InvInit, InvNext, PTL DEF Spec
=============================================================================
