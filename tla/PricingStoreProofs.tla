------------------------- MODULE PricingStoreProofs -------------------------
(***************************************************************************)
(* Proofs about PricingStore, for any number of invocations, any catalogs  *)
(* and any additions; and about CostEstimation, for any catalog and any    *)
(* number of sessions and turns.                                           *)
(***************************************************************************)
EXTENDS PricingStore, CostEstimation, InductionLemmas, TLAPS

(* The remote's catalogs are catalogs.                                      *)
LEMMA PublishedType == \A v \in Versions : Published[v] \subseteq Profiles
BY PublishedAssumption DEF Versions

(* What an add saves is a profile.                                          *)
LEMMA SavedType == \A r \in Additions : Saved(r) \in Profiles
BY AdditionsAssumption, DatesAssumption DEF Saved, Profiles

(* Finitely many catalogs are published.                                    *)
LEMMA LengthType == Len(Published) \in Nat
BY PublishedAssumption

-----------------------------------------------------------------------------
(* Type correctness. *)

(* An invocation that ends keeps the types of its locals.                   *)
LEMMA ReturnTypeOK ==
    ASSUME TypeOK, NEW c \in Commands, Return(c)
    PROVE  /\ step' \in [Commands -> Steps]
           /\ readOverride' \in [Commands -> SUBSET Profiles]
           /\ request' \in [Commands -> SUBSET Additions]
           /\ version' \in [Commands -> Versions \cup {None}]
BY DEF TypeOK, Return, Steps

(* Every step keeps the types.                                              *)
LEMMA TypeStep == TypeOK /\ [Next]_vars => TypeOK'
<1> SUFFICES ASSUME TypeOK, [Next]_vars PROVE TypeOK'
  OBVIOUS
<1> USE LengthType DEF files, locals, ghosts, Steps
<1>1. CASE UNCHANGED vars
  BY <1>1 DEF TypeOK, vars
<1>2. CASE Publish
  BY <1>2 DEF TypeOK, Publish, Versions, None
<1>3. ASSUME NEW c \in Commands, NEW r \in Additions, NEW replace \in BOOLEAN,
             ReadOverride(c, r, replace)
      PROVE  TypeOK'
  BY <1>3 DEF TypeOK, ReadOverride
<1>4. ASSUME NEW c \in Commands, RenameOverride(c) PROVE TypeOK'
  <2>1. PICK r \in request[c] :
            /\ override' = (readOverride[c] \ Displaced(readOverride[c], r)) \cup {Saved(r)}
            /\ saved' = {p \in saved : Keys(p) \cap Keys(Saved(r)) = {}} \cup {Saved(r)}
    BY <1>4 DEF RenameOverride
  <2>2. r \in Additions /\ readOverride[c] \subseteq Profiles
    BY DEF TypeOK
  <2>3. override' \subseteq Profiles /\ saved' \subseteq Profiles
    BY <2>1, <2>2, SavedType DEF TypeOK
  <2> QED
    BY <1>4, <2>3, ReturnTypeOK DEF TypeOK, RenameOverride
<1>5. ASSUME NEW c \in Commands, Ask(c) \/ NotModified(c) \/ List(c) \/ ReadCache(c)
                                 \/ MergeOverride(c)
      PROVE  TypeOK'
  BY <1>5 DEF TypeOK, Ask, NotModified, List, ReadCache, MergeOverride
<1>6. ASSUME NEW c \in Commands, Download(c) \/ WriteCatalog(c) PROVE TypeOK'
  BY <1>6 DEF TypeOK, Download, WriteCatalog
<1>7. ASSUME NEW c \in Commands, WriteMeta(c) \/ Stop(c) PROVE TypeOK'
  BY <1>7, ReturnTypeOK DEF TypeOK, WriteMeta, Stop
<1> QED
  BY <1>1, <1>2, <1>3, <1>4, <1>5, <1>6, <1>7 DEF Next

(* Every variable keeps its type.                                           *)
THEOREM TypeCorrect == Spec => []TypeOK
<1>1. Init => TypeOK
  BY DEF Init, TypeOK, Steps, None
<1> QED
  BY <1>1, TypeStep, PTL DEF Spec

-----------------------------------------------------------------------------
(* The override file. *)

Saveable == {Saved(r) : r \in Additions}

(* Profiles share a key when they share the provider and a name.            *)
LEMMA KeysMeet ==
    ASSUME NEW p, NEW q
    PROVE  Keys(p) \cap Keys(q) # {} <=> p.provider = q.provider /\ p.names \cap q.names # {}
<1>1. ASSUME NEW k \in Keys(p), k \in Keys(q)
      PROVE  p.provider = q.provider /\ p.names \cap q.names # {}
  BY <1>1 DEF Keys
<1>2. ASSUME p.provider = q.provider, NEW n \in p.names, n \in q.names
      PROVE  Keys(p) \cap Keys(q) # {}
  <2>1. <<p.provider, n>> \in Keys(p) /\ <<p.provider, n>> \in Keys(q)
    BY <1>2 DEF Keys
  <2> QED BY <2>1
<1> QED
  BY <1>1, <1>2

(* What an addition displaces is what shares a key with it.                 *)
LEMMA DisplacedShares ==
    ASSUME SkusNameThemselves, NEW r \in Additions, NEW p \in Saveable,
           NEW catalog, p \in catalog
    PROVE  p \in Displaced(catalog, r) <=> Keys(p) \cap Keys(Saved(r)) # {}
<1>1. PICK s \in Additions : p = Saved(s)
  BY DEF Saveable
<1>2. /\ p.provider = s.provider /\ p.sku = s.sku /\ p.names = {s.sku, s.model}
      /\ Saved(r).provider = r.provider /\ Saved(r).names = {r.sku, r.model}
  BY <1>1 DEF Saved
<1>3. Keys(p) \cap Keys(Saved(r)) # {}
         <=> r.provider = s.provider /\ {r.sku, r.model} \cap {s.sku, s.model} # {}
  <2>1. Keys(p) \cap Keys(Saved(r)) # {}
           <=> p.provider = Saved(r).provider /\ p.names \cap Saved(r).names # {}
    BY KeysMeet
  <2> QED BY <1>2, <2>1
<1>4. r.provider = s.provider /\ r.sku \in {s.sku, s.model} => r.sku = s.sku
  BY DEF SkusNameThemselves
<1> QED
  BY <1>2, <1>3, <1>4 DEF Displaced

(* An addition to a file that validates leaves one that does.               *)
LEMMA AdditionValid ==
    ASSUME SkusNameThemselves, NEW r \in Additions, NEW catalog,
           catalog \subseteq Saveable, Valid(catalog)
    PROVE  LET next == (catalog \ Displaced(catalog, r)) \cup {Saved(r)}
           IN  next \subseteq Saveable /\ Valid(next)
<1> DEFINE next == (catalog \ Displaced(catalog, r)) \cup {Saved(r)}
<1>1. next \subseteq Saveable
  BY DEF Saveable
<1>2. ASSUME NEW p \in next, NEW q \in next, p # q, Keys(p) \cap Keys(q) # {}
      PROVE  p.sku = q.sku /\ p.from # q.from
  <2>1. CASE p \in catalog /\ q \in catalog
    BY <1>2, <2>1 DEF Valid
  <2>2. \A e \in catalog : e \notin Displaced(catalog, r) => Keys(e) \cap Keys(Saved(r)) = {}
    BY DisplacedShares
  <2>3. CASE p = Saved(r)
    BY <1>2, <2>2, <2>3
  <2>4. CASE q = Saved(r)
    BY <1>2, <2>2, <2>4
  <2> QED BY <2>1, <2>3, <2>4
<1> QED
  BY <1>1, <1>2 DEF Valid

(* What is read and what is there come from additions and validate.         *)
OverrideInv ==
    SkusNameThemselves =>
        /\ override \subseteq Saveable /\ Valid(override)
        /\ \A c \in Commands : readOverride[c] \subseteq Saveable /\ Valid(readOverride[c])
        /\ "override" \notin raced => override = saved

(* Every step keeps the invariant of the override file.                     *)
LEMMA OverrideStep == TypeOK /\ OverrideInv /\ [Next]_vars => OverrideInv'
<1> SUFFICES ASSUME TypeOK, OverrideInv, [Next]_vars, SkusNameThemselves
             PROVE  OverrideInv'
  BY DEF OverrideInv, SkusNameThemselves
<1>0. Valid({})
  BY DEF Valid
<1> USE DEF files, locals, ghosts
<1>1. CASE UNCHANGED vars
  BY <1>1 DEF OverrideInv, vars
<1>2. ASSUME NEW c \in Commands, NEW r \in Additions, NEW replace \in BOOLEAN,
             ReadOverride(c, r, replace)
      PROVE  OverrideInv'
  BY <1>2 DEF OverrideInv, ReadOverride, TypeOK
<1>3. ASSUME NEW c \in Commands, Return(c)
      PROVE  \A d \in Commands : readOverride'[d] = readOverride[d] \/ readOverride'[d] = {}
  BY <1>3 DEF Return, TypeOK
<1>4. ASSUME NEW c \in Commands, RenameOverride(c) PROVE OverrideInv'
  <2>1. PICK r \in request[c] :
            /\ override' = (readOverride[c] \ Displaced(readOverride[c], r)) \cup {Saved(r)}
            /\ saved' = {p \in saved : Keys(p) \cap Keys(Saved(r)) = {}} \cup {Saved(r)}
    BY <1>4 DEF RenameOverride
  <2>2. r \in Additions /\ readOverride[c] \subseteq Saveable /\ Valid(readOverride[c])
    BY DEF TypeOK, OverrideInv
  <2>3. override' \subseteq Saveable /\ Valid(override')
    BY <2>1, <2>2, AdditionValid
  <2>4. \A d \in Commands : readOverride'[d] \subseteq Saveable /\ Valid(readOverride'[d])
    BY <1>0, <1>3, <1>4 DEF RenameOverride, OverrideInv
  <2>5. ASSUME "override" \notin raced' PROVE override' = saved'
    <3>1. override = readOverride[c] /\ "override" \notin raced
      BY <1>4, <2>5 DEF RenameOverride
    <3>2. saved = readOverride[c]
      BY <3>1 DEF OverrideInv
    <3>3. \A p \in saved : p \in Displaced(readOverride[c], r)
                              <=> Keys(p) \cap Keys(Saved(r)) # {}
      BY <2>2, <3>2, DisplacedShares
    <3> QED BY <2>1, <3>2, <3>3
  <2> QED BY <2>3, <2>4, <2>5 DEF OverrideInv
<1>5. ASSUME NEW c \in Commands, WriteMeta(c) \/ Stop(c) PROVE OverrideInv'
  <2>1. Return(c) /\ UNCHANGED <<override, saved, raced>>
    BY <1>5 DEF WriteMeta, Stop
  <2>2. \A d \in Commands : readOverride'[d] \subseteq Saveable /\ Valid(readOverride'[d])
    BY <1>0, <1>3, <2>1 DEF OverrideInv
  <2> QED BY <2>1, <2>2 DEF OverrideInv
<1>6. ASSUME NEW c \in Commands, MergeOverride(c) PROVE OverrideInv'
  BY <1>6 DEF OverrideInv, MergeOverride, TypeOK
<1>7. ASSUME NEW c \in Commands,
             NotModified(c) \/ Download(c) \/ WriteCatalog(c) \/ List(c) \/ ReadCache(c)
      PROVE  OverrideInv'
  BY <1>7 DEF OverrideInv, NotModified, Download, WriteCatalog, List, ReadCache
<1>8. ASSUME NEW c \in Commands, Ask(c) PROVE OverrideInv'
  BY <1>8 DEF OverrideInv, Ask
<1>9. CASE Publish
  BY <1>9 DEF OverrideInv, Publish
<1> QED
  BY <1>1, <1>2, <1>4, <1>5, <1>6, <1>7, <1>8, <1>9 DEF Next

(* The invariant of the override file holds in every behaviour.             *)
LEMMA OverrideAlways == Spec => []OverrideInv
<1>1. Init => OverrideInv
  BY DEF Init, OverrideInv, Valid
<1> QED
  BY <1>1, TypeCorrect, OverrideStep, PTL DEF Spec

(* When no SKU is another one's model, no order of adds, overlapping or     *)
(* not, leaves an override file that cannot be read.                        *)
THEOREM AddsLeaveReadable == Spec => []OverrideReadable
<1>1. OverrideInv => OverrideReadable
  BY DEF OverrideInv, OverrideReadable
<1> QED
  BY <1>1, OverrideAlways, PTL

(* And without overlap the file is what was saved and not replaced.         *)
THEOREM AddsAreKept == Spec => []AddedIsKept
<1>1. OverrideInv => AddedIsKept
  BY DEF OverrideInv, AddedIsKept
<1> QED
  BY <1>1, OverrideAlways, PTL

-----------------------------------------------------------------------------
(* The cache. *)

(* What is written validates; and while updates do not overlap, the tag is  *)
(* no newer than the catalog, and an update in progress is not older than   *)
(* what it replaces.                                                        *)
CacheInv ==
    /\ LastKnownGood
    /\ \A c \in Commands : step[c] = "catalog" => Valid(Published[version[c]])
    /\ "cache" \notin raced =>
        /\ metaFile <= catalogFile /\ catalogFile <= remote
        /\ \A c, d \in Commands : Updating(c) /\ Updating(d) => c = d
        /\ \A c \in Commands :
            /\ step[c] = "asked" => version[c] <= catalogFile
            /\ step[c] = "catalog" => catalogFile <= version[c] /\ version[c] <= remote
            /\ step[c] = "meta" => version[c] = catalogFile

(* Every step keeps the invariant of the cache.                             *)
LEMMA CacheStep == TypeOK /\ CacheInv /\ [Next]_vars => CacheInv'
<1> SUFFICES ASSUME TypeOK, CacheInv, [Next]_vars PROVE CacheInv'
  OBVIOUS
<1> USE LengthType DEF files, locals, ghosts, CacheInv, LastKnownGood, Updating, None, Versions
<1>1. CASE UNCHANGED vars
  BY <1>1 DEF vars
<1>2. CASE Publish
  BY <1>2 DEF Publish, TypeOK
<1>3. ASSUME NEW c \in Commands, Ask(c) PROVE CacheInv'
  BY <1>3 DEF Ask, TypeOK
<1>4. ASSUME NEW c \in Commands, Download(c) PROVE CacheInv'
  BY <1>4 DEF Download, TypeOK
<1>5. ASSUME NEW c \in Commands, WriteCatalog(c) PROVE CacheInv'
  BY <1>5 DEF WriteCatalog, TypeOK
<1>6. ASSUME NEW c \in Commands, WriteMeta(c) PROVE CacheInv'
  BY <1>6 DEF WriteMeta, Return, TypeOK
<1>7. ASSUME NEW c \in Commands, Stop(c) \/ RenameOverride(c) PROVE CacheInv'
  BY <1>7 DEF Stop, RenameOverride, Return, TypeOK
<1>8. ASSUME NEW c \in Commands,
             \/ NotModified(c) \/ List(c) \/ ReadCache(c) \/ MergeOverride(c)
             \/ \E r \in Additions, replace \in BOOLEAN : ReadOverride(c, r, replace)
      PROVE  CacheInv'
  BY <1>8 DEF NotModified, List, ReadCache, MergeOverride, ReadOverride, TypeOK
<1> QED
  BY <1>1, <1>2, <1>3, <1>4, <1>5, <1>6, <1>7, <1>8 DEF Next

(* The invariant of the cache holds in every behaviour.                     *)
LEMMA CacheAlways == Spec => []CacheInv
<1>1. Init => CacheInv
  BY DEF Init, CacheInv, LastKnownGood, Updating, None
<1> QED
  BY <1>1, TypeCorrect, CacheStep, PTL DEF Spec

(* The cache holds a catalog that validates, however updates overlap.       *)
THEOREM CacheIsGood == Spec => []LastKnownGood
<1>1. CacheInv => LastKnownGood
  BY DEF CacheInv
<1> QED
  BY <1>1, CacheAlways, PTL

(* A 304 vouches for what is cached when updates do not overlap.            *)
THEOREM TagVouchesForCatalog == Spec => []NotModifiedIsCurrent
<1>1. TypeOK /\ CacheInv => NotModifiedIsCurrent
  BY LengthType DEF CacheInv, NotModifiedIsCurrent, TypeOK, None, Versions
<1> QED
  BY <1>1, TypeCorrect, CacheAlways, PTL

-----------------------------------------------------------------------------
(* Merging and resolving. *)

(* Entries that validate together name a key under one SKU, at different    *)
(* dates, from one source.                                                  *)
Unambiguous(entries) ==
    /\ entries \subseteq [profile : Profiles, source : Sources]
    /\ \A d, e \in entries :
        d # e /\ Keys(d.profile) \cap Keys(e.profile) # {}
            => d.profile.sku = e.profile.sku /\ d.profile.from # e.profile.from

(* A catalog that validates is unambiguous, whatever source it is read as.  *)
LEMMA FromUnambiguous ==
    ASSUME NEW catalog, catalog \subseteq Profiles, Valid(catalog), NEW s \in Sources
    PROVE  Unambiguous(From(catalog, s))
<1> USE DEF From
<1>1. From(catalog, s) \subseteq [profile : Profiles, source : Sources]
  OBVIOUS
<1>2. ASSUME NEW d \in From(catalog, s), NEW e \in From(catalog, s), d # e,
             Keys(d.profile) \cap Keys(e.profile) # {}
      PROVE  d.profile.sku = e.profile.sku /\ d.profile.from # e.profile.from
  <2>1. d.profile \in catalog /\ e.profile \in catalog /\ d.profile # e.profile
    BY <1>2
  <2> QED BY <1>2, <2>1 DEF Valid
<1> QED
  BY <1>1, <1>2 DEF Unambiguous

(* mergeCatalogs keeps catalogs unambiguous.                                *)
LEMMA MergeUnambiguous ==
    ASSUME NEW base, NEW higher, Unambiguous(base), Unambiguous(higher)
    PROVE  Unambiguous(Merge(base, higher))
<1>1. Merge(base, higher) \subseteq base \cup higher
  BY DEF Merge
<1>2. \A e \in Merge(base, higher), h \in higher :
        e \notin higher => Keys(e.profile) \cap Keys(h.profile) = {}
  BY DEF Merge
<1> QED
  BY <1>1, <1>2 DEF Unambiguous

(* The active catalog is unambiguous whatever is cached and overridden.     *)
LEMMA ActiveUnambiguous ==
    ASSUME NEW v \in Versions \cup {None}, NEW overrides,
           overrides \subseteq Profiles, Valid(overrides)
    PROVE  Unambiguous(Active(v, overrides))
<1>1. Cached(v) \subseteq Profiles /\ Valid(Cached(v))
  BY PublishedType DEF Cached, Valid
<1>2. "embedded" \in Sources /\ "cache" \in Sources /\ "override" \in Sources
  BY DEF Sources
<1>3. Unambiguous(Merge(From(Embedded, "embedded"), From(Cached(v), "cache")))
  BY <1>1, <1>2, FromUnambiguous, MergeUnambiguous, EmbeddedAssumption
<1>4. Unambiguous(From(overrides, "override"))
  BY <1>2, FromUnambiguous
<1> QED
  BY <1>3, <1>4, MergeUnambiguous DEF Active

(* Two profiles of one provider that match a name share a key.              *)
LEMMA MatchesShareKey ==
    ASSUME NEW name, NEW date, NEW p, NEW q, InEffect(p, name, date), InEffect(q, name, date),
           p.provider = q.provider
    PROVE  Keys(p) \cap Keys(q) # {}
BY KeysMeet DEF InEffect

(* What profiles are ordered by are numbers.                                *)
LEMMA NumberedProfiles ==
    ASSUME NEW p \in Profiles
    PROVE  p.from \in Int /\ p.sku \in Int /\ p.provider \in Int
<1>1. p.from \in Dates /\ p.sku \in Names /\ p.provider \in Providers
  BY DEF Profiles
<1>2. p.from \in Nat /\ p.sku \in Int /\ p.provider \in Int
  BY <1>1, ProvidersAssumption, NamesAssumption, DatesAssumption, Zenon
<1> QED
  BY <1>2

(* What a name resolves to is one entry: which of several matches comes     *)
(* first never depends on the order of the files.                           *)
LEMMA ResolvesToOne ==
    ASSUME NEW entries, Unambiguous(entries), NEW name, NEW date,
           NEW d \in Resolve(entries, name, date), NEW e \in Resolve(entries, name, date)
    PROVE  d = e
<1>1. /\ d \in entries /\ InEffect(d.profile, name, date)
      /\ e \in entries /\ InEffect(e.profile, name, date)
      /\ ~Before(d, e) /\ ~Before(e, d)
  BY DEF Resolve
<1>2. d \in [profile : Profiles, source : Sources] /\ e \in [profile : Profiles, source : Sources]
  BY <1>1 DEF Unambiguous
<1>3. d.source = e.source
  <2>1. Rank[d.source] = Rank[e.source]
    BY <1>1, <1>2 DEF Before, Rank, Sources
  <2> QED BY <1>2, <2>1 DEF Rank, Sources
<1>4. /\ d.profile.from \in Int /\ e.profile.from \in Int
      /\ d.profile.sku \in Int /\ e.profile.sku \in Int
      /\ d.profile.provider \in Int /\ e.profile.provider \in Int
  <2>1. d.profile \in Profiles /\ e.profile \in Profiles
    BY <1>2
  <2> QED BY <2>1, NumberedProfiles
<1>5. d.profile.from = e.profile.from
  BY <1>1, <1>3, <1>4 DEF Before
<1>6. d.profile.sku = e.profile.sku
  BY <1>1, <1>3, <1>4, <1>5 DEF Before
<1>7. d.profile.provider = e.profile.provider
  BY <1>1, <1>3, <1>4, <1>5, <1>6 DEF Before
<1>8. Keys(d.profile) \cap Keys(e.profile) # {}
  BY <1>1, <1>7, MatchesShareKey
<1> QED
  BY <1>1, <1>5, <1>8 DEF Unambiguous

(* An override in effect for a name is not passed over for another source.  *)
LEMMA OverrideFirst ==
    ASSUME NEW v \in Versions \cup {None}, NEW overrides,
           overrides \subseteq Profiles, Valid(overrides), NEW name, NEW date,
           NEW p \in overrides, InEffect(p, name, date),
           NEW e \in Resolve(Active(v, overrides), name, date)
    PROVE  e.source = "override"
<1> DEFINE o == [profile |-> p, source |-> "override"]
<1>1. o \in Active(v, overrides)
  BY DEF Active, Merge, From
<1>2. ~Before(o, e) /\ e \in Active(v, overrides)
  BY <1>1 DEF Resolve
<1>3. e.source \in Sources
  BY <1>2, ActiveUnambiguous DEF Unambiguous
<1>4. ~(Rank["override"] > Rank[e.source])
  BY <1>2 DEF Before
<1> QED
  BY <1>3, <1>4 DEF Rank, Sources

(* Entries in effect have one that no other comes before.                   *)
LEMMA MatchResolves ==
    ASSUME NEW entries, Unambiguous(entries), IsFiniteSet(entries), NEW name, NEW date,
           NEW m \in entries, InEffect(m.profile, name, date)
    PROVE  Resolve(entries, name, date) # {}
<1> DEFINE matches == {e \in entries : InEffect(e.profile, name, date)}
<1> DEFINE R == {de \in matches \X matches : Before(de[1], de[2])}
<1>1. IsFiniteSet(matches) /\ matches # {}
  BY FS_Subset
<1>2. \A d \in matches :
        /\ d.source \in Sources /\ Rank[d.source] \in Int
        /\ d.profile.from \in Int /\ d.profile.sku \in Int /\ d.profile.provider \in Int
  <2> TAKE d \in matches
  <2>1. d \in [profile : Profiles, source : Sources]
    BY DEF Unambiguous
  <2>2. d.profile \in Profiles /\ d.source \in Sources
    BY <2>1
  <2> QED BY <2>2, NumberedProfiles DEF Rank, Sources
<1>3. \A d \in matches : ~ Before(d, d)
  BY <1>2 DEF Before
<1>4. ASSUME NEW d \in matches, NEW e \in matches, NEW f \in matches, Before(d, e), Before(e, f)
      PROVE  Before(d, f)
  <2> HIDE DEF matches
  <2>1. Rank[d.source] >= Rank[e.source] /\ Rank[e.source] >= Rank[f.source]
    BY <1>2, <1>4 DEF Before
  <2>2. CASE Rank[d.source] > Rank[f.source]
    BY <2>2 DEF Before
  <2>3. CASE Rank[d.source] = Rank[f.source]
    <3>1. d.source = e.source /\ e.source = f.source
      BY <1>2, <2>1, <2>3, <1>4 DEF Before
    <3> QED BY <1>2, <1>4, <3>1 DEF Before
  <2> QED BY <1>2, <2>1, <2>2, <2>3
<1>5. PICK e \in matches : \A d \in matches : <<d, e>> \notin R
  <2>1. \A d \in matches : <<d, d>> \notin R
    BY <1>3
  <2>2. \A d, e, f \in matches : <<d, e>> \in R /\ <<e, f>> \in R => <<d, f>> \in R
    BY <1>4
  <2> HIDE DEF matches, R
  <2> QED BY <1>1, <2>1, <2>2, FirstInOrder
<1>6. \A d \in matches : ~ Before(d, e)
  BY <1>5
<1> QED
  BY <1>5, <1>6 DEF Resolve

(* A finite catalog is finite when its source is noted.                     *)
LEMMA FromFinite ==
    ASSUME NEW catalog, IsFiniteSet(catalog), NEW source
    PROVE  IsFiniteSet(From(catalog, source))
<1> DEFINE f == [p \in catalog |-> [profile |-> p, source |-> source]]
<1>1. f \in Surjection(catalog, From(catalog, source))
  BY DEF From, Surjection
<1> QED
  BY <1>1, FS_Surjection

(* What Active merges is finite.                                            *)
LEMMA ActiveFinite ==
    ASSUME NEW v \in Versions \cup {None}, NEW overrides, IsFiniteSet(overrides)
    PROVE  IsFiniteSet(Active(v, overrides))
<1>1. \A base, higher : IsFiniteSet(base) /\ IsFiniteSet(higher) => IsFiniteSet(Merge(base, higher))
  <2> TAKE base, higher
  <2>1. Merge(base, higher) \in SUBSET (base \cup higher)
    BY DEF Merge
  <2> QED BY <2>1, FS_Union, FS_Subset
<1>2. IsFiniteSet(Cached(v))
  BY FiniteAssumption, FS_EmptySet DEF Cached
<1> QED
  BY <1>1, <1>2, FromFinite, FiniteAssumption DEF Active

(* What a listing has read validates, and no file is endless.               *)
ListedInv ==
    /\ IsFiniteSet(override)
    /\ \A c \in Commands :
        /\ IsFiniteSet(readOverride[c])
        /\ step[c] = "listed" => Valid(readOverride[c])

(* Every step keeps the invariant of what a listing has merged.             *)
LEMMA ListedStep == TypeOK /\ ListedInv /\ [Next]_vars => ListedInv'
<1> SUFFICES ASSUME TypeOK, ListedInv, [Next]_vars PROVE ListedInv'
  OBVIOUS
<1> USE DEF files, locals, ghosts, ListedInv, TypeOK
<1>1. CASE UNCHANGED vars
  BY <1>1 DEF vars
<1>2. ASSUME NEW c \in Commands, RenameOverride(c) PROVE ListedInv'
  <2>1. PICK r \in request[c] :
            override' = (readOverride[c] \ Displaced(readOverride[c], r)) \cup {Saved(r)}
    BY <1>2 DEF RenameOverride
  <2>2. IsFiniteSet(override')
    BY <2>1, FS_Difference, FS_AddElement
  <2> QED BY <1>2, <2>2, FS_EmptySet DEF RenameOverride, Return
<1>3. ASSUME NEW c \in Commands, WriteMeta(c) \/ Stop(c) PROVE ListedInv'
  BY <1>3, FS_EmptySet DEF WriteMeta, Stop, Return
<1>4. ASSUME NEW c \in Commands, MergeOverride(c) PROVE ListedInv'
  BY <1>4 DEF MergeOverride
<1>5. ASSUME NEW c \in Commands,
             \/ Ask(c) \/ NotModified(c) \/ Download(c) \/ WriteCatalog(c)
             \/ List(c) \/ ReadCache(c)
             \/ \E r \in Additions, replace \in BOOLEAN : ReadOverride(c, r, replace)
      PROVE  ListedInv'
  BY <1>5 DEF Ask, NotModified, Download, WriteCatalog, List, ReadCache, ReadOverride
<1>6. CASE Publish
  BY <1>6 DEF Publish
<1> QED
  BY <1>1, <1>2, <1>3, <1>4, <1>5, <1>6 DEF Next

(* Whatever is cached, published and overridden, and whichever files a      *)
(* listing reads between the renames of others, a name resolves to one      *)
(* profile, and to one of the override file's where that has one in effect. *)
THEOREM ListingsResolve == Spec => []ResolvesByPrecedence
<1>1. Init => ListedInv
  BY FS_EmptySet DEF Init, ListedInv
<1>2. TypeOK /\ ListedInv => ResolvesByPrecedence
  <2> SUFFICES ASSUME TypeOK, ListedInv, NEW c \in Commands, step[c] = "listed",
                      NEW name \in Names, NEW date \in Dates
               PROVE  LET found == Resolve(Active(version[c], readOverride[c]), name, date)
                      IN  /\ \A d, e \in found : d = e
                          /\ (\E p \in readOverride[c] : InEffect(p, name, date))
                                  => \E e \in found : e.source = "override"
    BY DEF ResolvesByPrecedence
  <2> DEFINE active == Active(version[c], readOverride[c])
  <2>1. /\ version[c] \in Versions \cup {None}
        /\ readOverride[c] \subseteq Profiles /\ Valid(readOverride[c])
        /\ IsFiniteSet(readOverride[c])
    BY DEF TypeOK, ListedInv
  <2>2. Unambiguous(active) /\ IsFiniteSet(active)
    BY <2>1, ActiveUnambiguous, ActiveFinite
  <2>3. \A d, e \in Resolve(active, name, date) : d = e
    BY <2>2, ResolvesToOne
  <2>4. ASSUME NEW p \in readOverride[c], InEffect(p, name, date)
        PROVE  \E e \in Resolve(active, name, date) : e.source = "override"
    <3>1. [profile |-> p, source |-> "override"] \in active
      BY DEF Active, Merge, From
    <3>2. Resolve(active, name, date) # {}
      <4> DEFINE o == [profile |-> p, source |-> "override"]
      <4>1. o \in active /\ InEffect(o.profile, name, date)
        BY <2>4, <3>1
      <4> HIDE DEF active, o
      <4> QED BY <2>2, <4>1, MatchResolves
    <3> QED BY <2>1, <2>4, <3>2, OverrideFirst
  <2> QED BY <2>3, <2>4
<1> QED
  BY <1>1, <1>2, TypeCorrect, ListedStep, PTL DEF Spec


-----------------------------------------------------------------------------
(* CostEstimation: sessions, as far as they were read. *)

BilledSessions ==
    [id : {s.id : s \in PricedSessions}, source : {s.source : s \in PricedSessions},
     model : {s.model : s \in PricedSessions}, updated : {s.updated : s \in PricedSessions},
     billable : {s.billable : s \in PricedSessions}, turns : Seq(PricedTurns)]

CostType == billed \in Seq(BilledSessions)

(* Sessions are of those that are priced, and their turns are.               *)
LEMMA CostTypeHolds == CostSpec => []CostType
<1>1. CostInit => CostType
  BY DEF CostInit, CostType
<1>2. CostType /\ [CostNext]_billed => CostType'
  <2> SUFFICES ASSUME CostType, CostNext PROVE CostType'
    BY DEF CostType
  <2>1. ASSUME NEW s \in PricedSessions, ReadSession(s) PROVE CostType'
    <3> DEFINE new == [id |-> s.id, source |-> s.source, model |-> s.model, updated |-> s.updated,
                       billable |-> s.billable, turns |-> <<>>]
    <3>1. new \in BilledSessions
      <4>1. <<>> \in Seq(PricedTurns)
        OBVIOUS
      <4> QED BY <4>1 DEF BilledSessions
    <3>2. billed' = Append(billed, new)
      BY <2>1 DEF ReadSession
    <3> HIDE DEF new
    <3>3. Append(billed, new) \in Seq(BilledSessions)
      BY <3>1 DEF CostType
    <3> QED BY <3>2, <3>3 DEF CostType
  <2>2. ASSUME NEW t \in PricedTurns, ReadTurn(t) PROVE CostType'
    <3> DEFINE n == Len(billed)
    <3> DEFINE s == [billed[n] EXCEPT !.turns = Append(@, t)]
    <3>1. n \in DOMAIN billed /\ billed[n] \in BilledSessions
      <4>1. billed # <<>>
        BY <2>2 DEF ReadTurn
      <4> HIDE DEF BilledSessions
      <4> QED BY <4>1 DEF CostType
    <3>2. billed[n].turns \in Seq(PricedTurns)
      BY <3>1 DEF BilledSessions
    <3>3. Append(billed[n].turns, t) \in Seq(PricedTurns)
      BY <3>2
    <3>4. s \in BilledSessions
      BY <3>1, <3>3 DEF BilledSessions
    <3>5. billed' = [billed EXCEPT ![n] = s]
      BY <2>2 DEF ReadTurn
    <3> HIDE DEF s, n
    <3>6. [billed EXCEPT ![n] = s] \in Seq(BilledSessions)
      BY <3>1, <3>4 DEF CostType
    <3> QED BY <3>5, <3>6 DEF CostType
  <2> QED BY <2>1, <2>2 DEF CostNext
<1> QED BY <1>1, <1>2, PTL DEF CostSpec

(* What a session that was read has.                                        *)
LEMMA BilledFacts ==
    ASSUME CostType, NEW n \in DOMAIN billed
    PROVE  /\ billed[n].turns \in Seq(PricedTurns)
           /\ \A k \in DOMAIN TurnsForCost(billed[n]) :
                /\ k \in Nat
                /\ \A f \in BillableKinds : TurnsForCost(billed[n])[k].billable[f].value \in Int
           /\ IsFiniteSet(DOMAIN TurnsForCost(billed[n]))
<1>1. billed[n] \in BilledSessions
  BY DEF CostType
<1>2. billed[n].turns \in Seq(PricedTurns)
  BY <1>1 DEF BilledSessions
<1>3. \A f \in BillableKinds : billed[n].billable[f].value \in Int
  <2>1. PICK s \in PricedSessions : billed[n].billable = s.billable
    BY <1>1 DEF BilledSessions
  <2> QED BY <2>1, PriceAssumption DEF PriceAssumption
<1>4. CASE billed[n].turns # <<>>
  <2>1. TurnsForCost(billed[n]) = billed[n].turns
    BY <1>4 DEF TurnsForCost
  <2>2. \A k \in DOMAIN billed[n].turns : k \in Nat /\ billed[n].turns[k] \in PricedTurns
    BY <1>2
  <2>3. DOMAIN billed[n].turns = 1..Len(billed[n].turns) /\ Len(billed[n].turns) \in Nat
    BY <1>2
  <2>4. IsFiniteSet(DOMAIN billed[n].turns)
    BY <2>3, FS_Interval
  <2> QED BY <1>2, <2>1, <2>2, <2>4, PriceAssumption DEF PriceAssumption
<1>5. CASE billed[n].turns = <<>>
  <2> DEFINE only == [model |-> billed[n].model, at |-> billed[n].updated, billable |-> billed[n].billable]
  <2>1. TurnsForCost(billed[n]) = <<only>>
    BY <1>5 DEF TurnsForCost
  <2>2. only.billable = billed[n].billable
    OBVIOUS
  <2> HIDE DEF only
  <2>3. DOMAIN <<only>> = {1} /\ <<only>>[1] = only
    OBVIOUS
  <2>4. IsFiniteSet({1})
    BY FS_Singleton
  <2> QED BY <1>2, <1>3, <2>1, <2>2, <2>3, <2>4
<1> QED BY <1>4, <1>5

(* The places of sessions.                                                  *)
LEMMA BilledPlaces ==
    ASSUME CostType, NEW S \in SUBSET DOMAIN billed
    PROVE  /\ IsFiniteSet(PlacesFor(S))
           /\ \A p \in PlacesFor(S) :
                /\ p = <<p[1], p[2]>> /\ p[1] \in S /\ p[2] \in DOMAIN TurnsForCost(billed[p[1]])
                /\ p[1] \in Nat /\ p[2] \in Nat
                /\ \A f \in BillableKinds : TurnFor(p).billable[f].value \in Int
<1>1. IsFiniteSet(S)
  BY FS_Interval, FS_Subset DEF CostType
<1> DEFINE D(n) == DOMAIN TurnsForCost(billed[n])
<1> DEFINE f == [n \in S |-> {<<n, k>> : k \in D(n)}]
<1>2. PlacesFor(S) = UNION {f[n] : n \in S}
  BY DEF PlacesFor
<1>3. ASSUME NEW n \in S PROVE IsFiniteSet(f[n])
  <2> DEFINE g == [k \in D(n) |-> <<n, k>>]
  <2>1. f[n] = {g[k] : k \in D(n)}
    OBVIOUS
  <2>2. IsFiniteSet(D(n))
    BY BilledFacts
  <2> HIDE DEF f, g, D
  <2> QED BY <2>1, <2>2, ImageSize
<1>4. IsFiniteSet(PlacesFor(S))
  <2>1. IsFiniteSet({f[n] : n \in S})
    <3> HIDE DEF f
    <3> QED BY <1>1, ImageSize
  <2> HIDE DEF f
  <2>2. \A T \in {f[n] : n \in S} : IsFiniteSet(T)
    BY <1>3
  <2> QED BY <1>2, <2>1, <2>2, FS_UNION
<1>5. ASSUME NEW p \in PlacesFor(S)
      PROVE  /\ p = <<p[1], p[2]>> /\ p[1] \in S /\ p[2] \in DOMAIN TurnsForCost(billed[p[1]])
             /\ p[1] \in Nat /\ p[2] \in Nat
             /\ \A e \in BillableKinds : TurnFor(p).billable[e].value \in Int
  <2>1. PICK n \in S : \E k \in D(n) : p = <<n, k>>
    BY DEF PlacesFor
  <2>2. PICK k \in D(n) : p = <<n, k>>
    BY <2>1
  <2>3. n \in Nat
    BY DEF CostType
  <2>4. k \in Nat /\ \A e \in BillableKinds : TurnsForCost(billed[n])[k].billable[e].value \in Int
    BY BilledFacts
  <2> QED BY <2>1, <2>2, <2>3, <2>4 DEF TurnFor
<1> QED BY <1>4, <1>5


(* A finite order has one first element.                                    *)
LEMMA OneIsFirst ==
    ASSUME NEW S, IsFiniteSet(S), S # {}, NEW R, StrictOrder(R, S)
    PROVE  \E x \in S : /\ \A y \in S \ {x} : <<x, y>> \in R
                        /\ \A z \in S : (\A y \in S \ {z} : <<z, y>> \in R) => z = x
<1>1. PICK x \in S : \A y \in S : <<y, x>> \notin R
  BY FirstInOrder DEF StrictOrder
<1>2. \A y \in S \ {x} : <<x, y>> \in R
  BY <1>1 DEF StrictOrder
<1>3. \A z \in S : (\A y \in S \ {z} : <<z, y>> \in R) => z = x
  BY <1>1
<1> QED BY <1>2, <1>3

-----------------------------------------------------------------------------
(* The price of a turn. *)

CatalogPlaces == DOMAIN PriceCatalog

PriceTiers == [upTo : Nat \cup {-1}, rates : [RateKinds -> Nat]]

(* What the catalog's profiles have.                                        *)
LEMMA ProfileFacts ==
    /\ IsFiniteSet(CatalogPlaces)
    /\ \A i \in CatalogPlaces :
         /\ i \in Int /\ PriceCatalog[i].rank \in Int /\ PriceCatalog[i].from \in Int
         /\ PriceCatalog[i].sku \in Int /\ PriceCatalog[i].provider # ""
         /\ PriceCatalog[i].tiers \in Seq(PriceTiers)
         /\ PriceCatalog[i] \in ToSet(PriceCatalog)
<1>1. PriceCatalog \in Seq(ToSet(PriceCatalog))
  BY PriceAssumption DEF PriceAssumption
<1>2. IsFiniteSet(CatalogPlaces) /\ \A i \in CatalogPlaces : i \in Int /\ PriceCatalog[i] \in ToSet(PriceCatalog)
  BY <1>1, FS_Interval DEF CatalogPlaces
<1> QED BY <1>2, PriceAssumption DEF PriceAssumption, PriceTiers

(* Of the profiles that match, one comes before the others.                 *)
LEMMA PriceForFacts ==
    ASSUME NEW model, NEW at, PriceMatches(model, at) # {}
    PROVE  \E i \in PriceMatches(model, at) :
              /\ i \in CatalogPlaces
              /\ PriceFor(model, at) = PriceCatalog[i]
              /\ i = CHOOSE i_1 \in PriceMatches(model, at) :
                        \A j \in PriceMatches(model, at) : i_1 = j \/ PriceBefore(i_1, j)
<1> DEFINE M == PriceMatches(model, at)
<1> DEFINE R == {e \in M \X M : PriceBefore(e[1], e[2])}
<1>1. M \in SUBSET CatalogPlaces
  BY DEF PriceMatches, CatalogPlaces
<1> HIDE DEF M
<1>2. \A i, j \in M : <<i, j>> \in R <=> PriceBefore(i, j)
  OBVIOUS
<1>3. StrictOrder(R, M)
  <2>1. \A i \in M : /\ i \in Int /\ PriceCatalog[i].rank \in Int /\ PriceCatalog[i].from \in Int
                     /\ PriceCatalog[i].sku \in Int
    BY <1>1, ProfileFacts
  <2>2. \A i \in M : ~ PriceBefore(i, i)
    BY <2>1 DEF PriceBefore
  <2>3. \A i, j \in M : i = j \/ PriceBefore(i, j) \/ PriceBefore(j, i)
    BY <2>1 DEF PriceBefore
  <2>4. \A i, j, k \in M : PriceBefore(i, j) /\ PriceBefore(j, k) => PriceBefore(i, k)
    BY <2>1 DEF PriceBefore
  <2> HIDE DEF R
  <2> QED BY <1>2, <2>2, <2>3, <2>4 DEF StrictOrder
<1> HIDE DEF R
<1>4. IsFiniteSet(M) /\ M # {}
  BY <1>1, ProfileFacts, FS_Subset DEF M
<1>5. PICK i \in M : /\ \A j \in M \ {i} : <<i, j>> \in R
                     /\ \A k \in M : (\A j \in M \ {k} : <<k, j>> \in R) => k = i
  BY <1>3, <1>4, OneIsFirst
<1>6. \A k \in M : (\A j \in M \ {k} : PriceBefore(k, j)) <=> k = i
  BY <1>2, <1>5
<1>7. \A k \in M : (\A j \in M : k = j \/ PriceBefore(k, j)) <=> k = i
  BY <1>6
<1>8. i = CHOOSE k \in M : \A j \in M \ {k} : PriceBefore(k, j)
  BY <1>6
<1>9. i = CHOOSE k \in M : \A j \in M : k = j \/ PriceBefore(k, j)
  BY <1>7
<1> QED BY <1>1, <1>8, <1>9 DEF PriceFor, M

(* What every estimate is: a price is at a profile of the catalog.          *)
IsEstimate(e) ==
    /\ e.status \in {"available", "unmeasured", "no_tier", "no_profile"}
    /\ \A part \in CostParts : e.usage[part] \in Int /\ e.cost[part] \in Int
    /\ e.status = "available" =>
         /\ e.provider # ""
         /\ \E p \in ToSet(PriceCatalog) : p.provider = e.provider /\ p.currency = e.currency

(* Money is a whole number of micros, even where a product wraps.           *)
LEMMA MicrosAreNumbers ==
    ASSUME NEW tokens \in Int, NEW rate \in Nat
    PROVE  CostMicros(tokens, rate) \in Int
<1>1. Million \in Nat \ {0} /\ Word \in Nat \ {0}
  BY PriceAssumption DEF PriceAssumption
<1> DEFINE x == tokens * rate
<1>2. x \in Int
  OBVIOUS
<1> HIDE DEF x
<1> DEFINE y == (x + Word) % (2 * Word)
<1>3. y \in Int
  BY <1>1, <1>2
<1> HIDE DEF y
<1> DEFINE z == y - Word
<1>4. z \in Int /\ - z \in Int
  BY <1>1, <1>3
<1> HIDE DEF z
<1>5. z \div Million \in Int /\ (-z) \div Million \in Int
  BY <1>1, <1>4
<1>6. CostMicros(tokens, rate) = IF z < 0 THEN -((-z) \div Million) ELSE z \div Million
  BY DEF CostMicros, x, y, z
<1> QED BY <1>5, <1>6

(* The tier that is found, and its rates.                                   *)
LEMMA TierFacts ==
    ASSUME NEW i \in CatalogPlaces, NEW input \in Int, TiersFor(PriceCatalog[i], input) # {}
    PROVE  LET tiers == PriceCatalog[i].tiers  k == Min(TiersFor(PriceCatalog[i], input))
           IN  /\ k \in DOMAIN tiers /\ (tiers[k].upTo = -1 \/ input <= tiers[k].upTo)
               /\ \A l \in DOMAIN tiers : l < k => 0 <= tiers[l].upTo /\ tiers[l].upTo < input
               /\ ~ (0 <= tiers[k].upTo /\ tiers[k].upTo < input)
               /\ \A l \in 1..(k - 1) : l \in DOMAIN tiers
               /\ k \in Int /\ tiers[k].rates \in [RateKinds -> Nat]
<1> DEFINE tiers == PriceCatalog[i].tiers
<1> DEFINE T == TiersFor(PriceCatalog[i], input)
<1>1. tiers \in Seq(PriceTiers)
  BY ProfileFacts
<1>2. /\ DOMAIN tiers = 1..Len(tiers) /\ Len(tiers) \in Nat
      /\ \A l \in DOMAIN tiers : /\ l \in Int /\ tiers[l].upTo \in Nat \cup {-1}
                                 /\ tiers[l].rates \in [RateKinds -> Nat]
      /\ IsFiniteSet(DOMAIN tiers)
  <2> HIDE DEF tiers
  <2>1. DOMAIN tiers = 1..Len(tiers) /\ Len(tiers) \in Nat
    BY <1>1
  <2>2. \A l \in DOMAIN tiers : tiers[l] \in PriceTiers
    BY <1>1
  <2>3. \A tier \in PriceTiers : tier.upTo \in Nat \cup {-1} /\ tier.rates \in [RateKinds -> Nat]
    BY DEF PriceTiers
  <2>4. IsFiniteSet(DOMAIN tiers)
    BY <2>1, FS_Interval
  <2>5. \A l \in DOMAIN tiers : l \in Int
    BY <2>1
  <2> HIDE DEF T, PriceTiers
  <2> QED BY <2>1, <2>2, <2>3, <2>4, <2>5
<1>3. T = {l \in DOMAIN tiers : tiers[l].upTo = -1 \/ input <= tiers[l].upTo}
  BY DEF TiersFor
<1> HIDE DEF tiers
<1>4. T \subseteq Int /\ IsFiniteSet(T) /\ T # {}
  <2>1. T \in SUBSET DOMAIN tiers
    BY <1>3
  <2> HIDE DEF T
  <2>2. T \subseteq Int /\ IsFiniteSet(T)
    BY <1>2, <2>1, FS_Subset
  <2> QED BY <2>2 DEF T
<1> HIDE DEF T
<1> DEFINE k == Min(T)
<1>5. k \in T /\ \A l \in T : k <= l
  BY <1>4, EndsOfIntegers
<1> HIDE DEF k
<1>6. \A l \in DOMAIN tiers : l < k => 0 <= tiers[l].upTo /\ tiers[l].upTo < input
  <2> SUFFICES ASSUME NEW l \in DOMAIN tiers, l < k PROVE 0 <= tiers[l].upTo /\ tiers[l].upTo < input
    OBVIOUS
  <2>1. l \notin T
    BY <1>2, <1>3, <1>4, <1>5
  <2> QED BY <1>2, <1>3, <2>1
<1>7. ~ (0 <= tiers[k].upTo /\ tiers[k].upTo < input)
  BY <1>2, <1>3, <1>5
<1>8. \A l \in 1..(k - 1) : l \in DOMAIN tiers
  BY <1>2, <1>3, <1>5
<1> QED BY <1>2, <1>3, <1>5, <1>6, <1>7, <1>8 DEF k, tiers, T

(* What an estimate is, whatever the model, the time and the usage.          *)
LEMMA EstimateFacts ==
    ASSUME NEW model, NEW at, NEW b, \A f \in BillableKinds : b[f].value \in Int
    PROVE  LET e == EstimateUsage(model, at, b)  tokens == BillableTokens(b)
           IN  /\ IsEstimate(e)
               /\ e.status = "no_profile" <=> PriceMatches(model, at) = {}
               /\ e.status = "available" =>
                    /\ Billable(b) /\ e.usage = tokens
                    /\ TiersFor(PriceFor(model, at), TotalInput(tokens)) # {}
                    /\ e.cost = [part \in CostParts |->
                         CostMicros(tokens[part],
                           Rate(PriceFor(model, at).tiers[Min(TiersFor(PriceFor(model, at), TotalInput(tokens)))].rates,
                                part))]
<1> DEFINE e == EstimateUsage(model, at, b)
<1> DEFINE tokens == BillableTokens(b)
<1> DEFINE profile == PriceFor(model, at)
<1> DEFINE tiers == TiersFor(profile, TotalInput(tokens))
<1>1. ASSUME NEW status \in {"unmeasured", "no_tier", "no_profile"}
      PROVE  IsEstimate(Refused(status)) /\ Refused(status).status = status
  BY DEF Refused, IsEstimate, Nothing64, CostParts
<1>2. CASE PriceMatches(model, at) = {}
  <2>1. e = Refused("no_profile")
    BY <1>2 DEF EstimateUsage
  <2> HIDE DEF e
  <2> QED BY <1>1, <1>2, <2>1 DEF e
<1>3. CASE PriceMatches(model, at) # {}
  <2>1. e = Estimate(profile, tokens, tiers, b)
    BY <1>3 DEF EstimateUsage
  <2>2. PICK i \in CatalogPlaces : profile = PriceCatalog[i]
    BY <1>3, PriceForFacts
  <2> DEFINE rates == profile.tiers[Min(tiers)].rates
  <2>3. \A part \in CostParts : tokens[part] \in Int
    BY DEF BillableTokens, CostParts, BillableKinds
  <2>4. TotalInput(tokens) \in Int
    BY <2>3 DEF TotalInput, CostParts
  <2>5. tiers # {} => rates \in [RateKinds -> Nat]
    BY <2>2, <2>4, TierFacts
  <2> DEFINE cost == [part \in CostParts |-> CostMicros(tokens[part], Rate(rates, part))]
  <2>6. profile.provider # "" /\ profile \in ToSet(PriceCatalog)
    BY <2>2, ProfileFacts
  <2> DEFINE priced == [status |-> "available", usage |-> tokens, cost |-> cost,
                        provider |-> profile.provider, sku |-> profile.sku,
                        currency |-> profile.currency]
  <2>7. tiers # {} => \A part \in CostParts : cost[part] \in Int
    <3> SUFFICES ASSUME tiers # {}, NEW part \in CostParts PROVE cost[part] \in Int
      OBVIOUS
    <3>1. rates \in [RateKinds -> Nat]
      BY <2>5
    <3> HIDE DEF rates
    <3>2. Rate(rates, part) \in Nat
      BY <3>1 DEF Rate, RateKinds, CostParts
    <3>3. tokens[part] \in Int
      BY <2>3
    <3> HIDE DEF tokens
    <3> QED BY <3>2, <3>3, MicrosAreNumbers
  <2> HIDE DEF tokens, tiers, profile
  <2>8. CASE ~ Billable(b)
    <3>1. e = Refused("unmeasured")
      BY <2>1, <2>8 DEF Estimate
    <3> HIDE DEF e
    <3> QED BY <1>1, <1>3, <3>1 DEF e
  <2>9. CASE Billable(b) /\ tiers = {}
    <3>1. e = Refused("no_tier")
      BY <2>1, <2>9 DEF Estimate
    <3> HIDE DEF e
    <3> QED BY <1>1, <1>3, <3>1 DEF e
  <2>10. CASE Billable(b) /\ tiers # {} /\ rates.write > 0 /\ ~Available(b.cacheWrite)
    <3>1. e = Refused("unmeasured")
      BY <2>1, <2>10 DEF Estimate
    <3> HIDE DEF e
    <3> QED BY <1>1, <1>3, <3>1 DEF e
  <2>11. CASE Billable(b) /\ tiers # {} /\ ~ (rates.write > 0 /\ ~Available(b.cacheWrite))
    <3>1. e = priced
      BY <2>1, <2>11 DEF Estimate
    <3>2. /\ priced.status = "available" /\ priced.usage = tokens /\ priced.cost = cost
          /\ priced.provider = profile.provider /\ priced.currency = profile.currency
      OBVIOUS
    <3> HIDE DEF e, priced
    <3>3. \A part \in CostParts : cost[part] \in Int
      BY <2>7, <2>11
    <3>4. cost = [part \in CostParts |-> CostMicros(tokens[part], Rate(profile.tiers[Min(tiers)].rates, part))]
      OBVIOUS
    <3> HIDE DEF cost
    <3>5. IsEstimate(e)
      BY <2>3, <2>6, <3>1, <3>2, <3>3 DEF IsEstimate
    <3> QED BY <1>3, <2>11, <3>1, <3>2, <3>4, <3>5 DEF e, tokens, profile, tiers
  <2> QED BY <2>8, <2>9, <2>10, <2>11
<1> QED BY <1>2, <1>3


-----------------------------------------------------------------------------
(* What is recorded of the parts of a set. *)

(* Evaluating it once does not change what it is.                           *)
LEMMA StrictIsSame ==
    ASSUME NEW f
    PROVE  Strict(f) = f
  BY DEF Strict

(* What is recorded of each of a set's parts, a part being what shares a key. *)
Parted(P, key, K, part) ==
    /\ K = {key[p] : p \in P}
    /\ part = [k \in K |-> {p \in P : key[p] = k}]

(* Each part is some of the set, and all are together.                      *)
LEMMA PartsAreParts ==
    ASSUME NEW P, IsFiniteSet(P), NEW key, NEW K, NEW part, Parted(P, key, K, part)
    PROVE  /\ PartsOf(part, K, P) /\ IsFiniteSet(K)
           /\ \A k \in K : part[k] # {} /\ part[k] \subseteq P /\ IsFiniteSet(part[k])
<1>1. IsFiniteSet(K)
  BY ImageSize DEF Parted
<1>2. \A k \in K : part[k] \subseteq P /\ IsFiniteSet(part[k])
  BY FS_Subset DEF Parted
<1>3. \A k \in K : part[k] # {}
  BY DEF Parted
<1>4. PartsOf(part, K, P)
  <2>1. P \subseteq UNION {part[k] : k \in K}
    BY DEF Parted
  <2>2. UNION {part[k] : k \in K} \subseteq P
    BY <1>2
  <2>3. \A j, k \in K : j # k => part[j] \cap part[k] = {}
    BY DEF Parted
  <2> QED BY <2>1, <2>2, <2>3 DEF PartsOf
<1> QED BY <1>1, <1>2, <1>3, <1>4

(* Distinct records of distinct keys.                                       *)
Recorded(K, rec, G) ==
    /\ G = {rec[k] : k \in K}
    /\ \A j, k \in K : rec[j] = rec[k] => j = k

(* What the records sum up is what their parts do.                          *)
LEMMA RecordsSumUp ==
    ASSUME NEW P, IsFiniteSet(P), NEW v, Numbers(v, P),
           NEW key, NEW K, NEW part, Parted(P, key, K, part),
           NEW rec, NEW G, Recorded(K, rec, G),
           NEW w, \A k \in K : w[rec[k]] = SumFunctionOnSet(v, part[k])
    PROVE  SumFunctionOnSet(w, G) = SumFunctionOnSet(v, P)
<1>1. /\ PartsOf(part, K, P) /\ IsFiniteSet(K)
      /\ \A k \in K : part[k] \subseteq P /\ IsFiniteSet(part[k])
  BY PartsAreParts
<1> DEFINE u == [k \in K |-> w[rec[k]]]
<1>2. \A k \in K : u[k] = SumFunctionOnSet(v, part[k])
  OBVIOUS
<1>3. Carries(rec, u, K, w, G)
  BY DEF Recorded, Carries
<1>4. Numbers(w, G)
  <2>1. \A k \in K : w[rec[k]] \in Int
    <3> SUFFICES ASSUME NEW k \in K PROVE w[rec[k]] \in Int
      OBVIOUS
    <3>1. Numbers(v, part[k]) /\ IsFiniteSet(part[k])
      BY <1>1 DEF Numbers
    <3>2. SumFunctionOnSet(v, part[k]) \in Int
      BY <3>1, SumFacts
    <3> QED BY <3>2
  <2> QED BY <2>1 DEF Numbers, Recorded
<1> HIDE DEF u
<1>5. SumFunctionOnSet(v, P) = SumFunctionOnSet(u, K)
  BY <1>1, <1>2, SumOfParts
<1>6. SumFunctionOnSet(u, K) = SumFunctionOnSet(w, G)
  BY <1>1, <1>3, <1>4, SumOfImage
<1> QED BY <1>5, <1>6

(* So is what they count.                                                   *)
LEMMA RecordsCountUp ==
    ASSUME NEW P, IsFiniteSet(P),
           NEW key, NEW K, NEW part, Parted(P, key, K, part),
           NEW rec, NEW G, Recorded(K, rec, G),
           NEW w, \A k \in K : w[rec[k]] = Cardinality(part[k])
    PROVE  SumFunctionOnSet(w, G) = Cardinality(P)
<1> DEFINE v == [p \in P |-> 1]
<1>1. Numbers(v, P) /\ \A p \in P : v[p] = 1
  BY DEF Numbers
<1> HIDE DEF v
<1>2. Cardinality(P) = SumFunctionOnSet(v, P)
  BY <1>1, SizeIsSum
<1>3. \A k \in K : w[rec[k]] = SumFunctionOnSet(v, part[k])
  <2> SUFFICES ASSUME NEW k \in K PROVE Cardinality(part[k]) = SumFunctionOnSet(v, part[k])
    OBVIOUS
  <2>1. part[k] \subseteq P /\ IsFiniteSet(part[k])
    BY PartsAreParts
  <2> QED BY <1>1, <2>1, SizeIsSum
<1> QED BY <1>1, <1>2, <1>3, RecordsSumUp


(* The same numbers have the same sum.                                      *)
LEMMA SameSum ==
    ASSUME NEW S, IsFiniteSet(S), NEW v, Numbers(v, S), NEW w, \A x \in S : w[x] = v[x]
    PROVE  SumFunctionOnSet(w, S) = SumFunctionOnSet(v, S)
<1>1. OfPart(w, S, v, S)
  BY DEF OfPart
<1> QED BY <1>1, SumOfPart

-----------------------------------------------------------------------------
(* Collections. *)

(* Estimates of finitely many places.                                       *)
Estimates(costs) ==
    /\ IsFiniteSet(DOMAIN costs)
    /\ \A p \in DOMAIN costs : IsEstimate(costs[p])
    /\ \A p \in DOMAIN costs : p = <<p[1], p[2]>> /\ p[1] \in Nat /\ p[2] \in Nat

(* The estimates of sessions are some.                                      *)
LEMMA AllCostsFacts ==
    ASSUME CostType, NEW S \in SUBSET DOMAIN billed
    PROVE  /\ DOMAIN AllCosts(S) = PlacesFor(S)
           /\ Estimates(AllCosts(S))
           /\ \A p \in PlacesFor(S) :
                /\ AllCosts(S)[p] = EstimateUsage(ModelFor(p), TurnFor(p).at, TurnFor(p).billable)
                /\ AllCosts(S)[p].status = "no_profile" <=> PriceMatches(ModelFor(p), TurnFor(p).at) = {}
<1>1. DOMAIN AllCosts(S) = PlacesFor(S)
  BY DEF AllCosts
<1>2. \A p \in PlacesFor(S) :
        AllCosts(S)[p] = EstimateUsage(ModelFor(p), TurnFor(p).at, TurnFor(p).billable)
  BY DEF AllCosts
<1>3. ASSUME NEW p \in PlacesFor(S)
      PROVE  /\ IsEstimate(AllCosts(S)[p])
             /\ AllCosts(S)[p].status = "no_profile" <=> PriceMatches(ModelFor(p), TurnFor(p).at) = {}
  <2>1. \A f \in BillableKinds : TurnFor(p).billable[f].value \in Int
    BY BilledPlaces
  <2>2. /\ IsEstimate(EstimateUsage(ModelFor(p), TurnFor(p).at, TurnFor(p).billable))
        /\ EstimateUsage(ModelFor(p), TurnFor(p).at, TurnFor(p).billable).status = "no_profile"
              <=> PriceMatches(ModelFor(p), TurnFor(p).at) = {}
    BY <2>1, EstimateFacts
  <2> QED BY <1>2, <2>2
<1>4. /\ IsFiniteSet(PlacesFor(S))
      /\ \A p \in PlacesFor(S) : p = <<p[1], p[2]>> /\ p[1] \in Nat /\ p[2] \in Nat
  BY BilledPlaces
<1> QED BY <1>1, <1>2, <1>3, <1>4 DEF Estimates

(* What is recorded of each part: how many turns it is, and what they sum up to. *)
RecordsParts(G, costs, K, part, rec) ==
    /\ Recorded(K, rec, G)
    /\ \A k \in K : /\ rec[k].calls = Cardinality(part[k])
                    /\ rec[k].usage = SumOver(part[k], costs, "usage")
                    /\ rec[k].cost = SumOver(part[k], costs, "cost")

IsSumOf(G, P, costs) ==
    /\ CallsOf(G) = Cardinality(P)
    /\ TotalOf(G, "usage") = SumOver(P, costs, "usage")
    /\ TotalOf(G, "cost") = SumOver(P, costs, "cost")

(* Such records sum up to what there is of all turns.                       *)
LEMMA RecordsAddUp ==
    ASSUME NEW costs, Estimates(costs), NEW P \in SUBSET DOMAIN costs,
           NEW key, NEW K, NEW part, Parted(P, key, K, part),
           NEW rec, NEW G, RecordsParts(G, costs, K, part, rec)
    PROVE  IsSumOf(G, P, costs)
<1>1. IsFiniteSet(P)
  BY FS_Subset DEF Estimates
<1>2. Recorded(K, rec, G)
  BY DEF RecordsParts
<1>3. CallsOf(G) = Cardinality(P)
  <2> DEFINE w == [r \in G |-> r.calls]
  <2>1. \A k \in K : w[rec[k]] = Cardinality(part[k])
    BY <1>2 DEF RecordsParts, Recorded
  <2>2. CallsOf(G) = SumFunctionOnSet(w, G)
    BY DEF CallsOf
  <2> HIDE DEF w
  <2> QED BY <1>1, <1>2, <2>1, <2>2, RecordsCountUp
<1>4. ASSUME NEW field \in {"usage", "cost"}
      PROVE  TotalOf(G, field) = SumOver(P, costs, field)
  <2> SUFFICES ASSUME NEW c \in CostParts
               PROVE  SumFunctionOnSet([r \in G |-> r[field][c]], G)
                        = SumFunctionOnSet([p \in P |-> costs[p][field][c]], P)
    BY DEF TotalOf, SumOver
  <2> DEFINE v == [p \in P |-> costs[p][field][c]]
  <2> DEFINE w == [r \in G |-> r[field][c]]
  <2>1. Numbers(v, P)
    BY DEF Numbers, Estimates, IsEstimate
  <2>2. ASSUME NEW k \in K
        PROVE  w[rec[k]] = SumFunctionOnSet(v, part[k])
    <3> DEFINE u == [p \in part[k] |-> costs[p][field][c]]
    <3>1. rec[k][field] = SumOver(part[k], costs, field)
      BY DEF RecordsParts
    <3>2. w[rec[k]] = SumFunctionOnSet(u, part[k])
      BY <1>2, <3>1 DEF SumOver, Recorded
    <3>3. part[k] \subseteq P /\ IsFiniteSet(part[k])
      BY <1>1, PartsAreParts
    <3>4. \A p \in part[k] : u[p] = v[p]
      BY <3>3
    <3>5. Numbers(v, part[k])
      BY <2>1, <3>3 DEF Numbers
    <3> HIDE DEF u, v
    <3>6. SumFunctionOnSet(u, part[k]) = SumFunctionOnSet(v, part[k])
      BY <3>3, <3>4, <3>5, SameSum
    <3> QED BY <3>2, <3>6
  <2> HIDE DEF v, w
  <2>3. SumFunctionOnSet(w, G) = SumFunctionOnSet(v, P)
    BY <1>1, <1>2, <2>1, <2>2, RecordsSumUp
  <2> QED BY <2>3 DEF v, w
<1> QED BY <1>3, <1>4 DEF IsSumOf

(* Models are of the turns that they are made of.                           *)
LEMMA ModelsAddUp ==
    ASSUME NEW costs, Estimates(costs), NEW P \in SUBSET DOMAIN costs
    PROVE  IsSumOf(ModelCosts(P, costs), P, costs)
<1> DEFINE key == [p \in P |-> ModelOf(p, costs)]
<1> DEFINE K == {ModelOf(p, costs) : p \in P}
<1> DEFINE part == [k \in K |-> {p \in P : ModelOf(p, costs) = k}]
<1> DEFINE rec == [k \in K |-> ModelCost(k, part[k], costs)]
<1> DEFINE G == ModelCosts(P, costs)
<1>1. Parted(P, key, K, part)
  BY DEF Parted
<1>2. \A k \in K : k = <<k[1], k[2]>>
  BY DEF ModelOf
<1>3. \A k \in K : /\ rec[k].sku = k[1] /\ rec[k].model = k[2]
                   /\ rec[k].calls = Cardinality(part[k])
                   /\ rec[k].usage = SumOver(part[k], costs, "usage")
                   /\ rec[k].cost = SumOver(part[k], costs, "cost")
  BY DEF ModelCost
<1>4. G = {rec[k] : k \in K}
  BY DEF ModelCosts
<1> HIDE DEF key, K, part, rec, G
<1>5. RecordsParts(G, costs, K, part, rec)
  BY <1>2, <1>3, <1>4 DEF Recorded, RecordsParts
<1>6. IsSumOf(G, P, costs)
  BY <1>1, <1>5, RecordsAddUp
<1> QED BY <1>6 DEF G

(* So are groups.                                                           *)
LEMMA GroupsAddUp ==
    ASSUME NEW costs, Estimates(costs), NEW P \in SUBSET DOMAIN costs
    PROVE  IsSumOf(Groups(P, costs), P, costs)
<1> DEFINE key == [p \in P |-> GroupOf(p, costs)]
<1> DEFINE K == {GroupOf(p, costs) : p \in P}
<1> DEFINE part == [k \in K |-> {p \in P : GroupOf(p, costs) = k}]
<1> DEFINE rec == [k \in K |-> ProviderCost(k, part[k], costs)]
<1> DEFINE G == Groups(P, costs)
<1>1. Parted(P, key, K, part)
  BY DEF Parted
<1>2. \A k \in K : k = <<k[1], k[2]>>
  BY DEF GroupOf
<1>3. \A k \in K : /\ rec[k].provider = k[1] /\ rec[k].source = k[2]
                   /\ rec[k].calls = Cardinality(part[k])
                   /\ rec[k].usage = SumOver(part[k], costs, "usage")
                   /\ rec[k].cost = SumOver(part[k], costs, "cost")
  BY DEF ProviderCost
<1>4. G = {rec[k] : k \in K}
  BY DEF Groups
<1> HIDE DEF key, K, part, rec, G
<1>5. RecordsParts(G, costs, K, part, rec)
  BY <1>2, <1>3, <1>4 DEF Recorded, RecordsParts
<1>6. IsSumOf(G, P, costs)
  BY <1>1, <1>5, RecordsAddUp
<1> QED BY <1>6 DEF G

(* The models that are missing count the turns without a profile.           *)
LEMMA MissingCountUp ==
    ASSUME NEW costs, Estimates(costs), NEW P \in SUBSET DOMAIN costs
    PROVE  TurnsOf(MissingFromTurns(P, costs)) = Cardinality(WithoutProfile(P, costs))
<1> DEFINE L == WithoutProfile(P, costs)
<1> DEFINE key == [p \in L |-> ModelFor(p)]
<1> DEFINE K == {ModelFor(p) : p \in L}
<1> DEFINE part == [k \in K |-> {p \in L : ModelFor(p) = k}]
<1> DEFINE rec == [k \in K |-> [model |-> k, turns |-> Cardinality(part[k])]]
<1> DEFINE G == MissingFromTurns(P, costs)
<1>1. L \subseteq P /\ IsFiniteSet(L)
  <2>1. L \in SUBSET DOMAIN costs
    BY DEF WithoutProfile
  <2>2. L \subseteq P
    BY DEF WithoutProfile
  <2> HIDE DEF L
  <2> QED BY <2>1, <2>2, FS_Subset DEF Estimates
<1>2. G = {rec[k] : k \in K}
  BY DEF MissingFromTurns
<1> HIDE DEF L
<1>3. Parted(L, key, K, part)
  BY DEF Parted
<1>4. \A k \in K : rec[k].model = k /\ rec[k].turns = Cardinality(part[k])
  OBVIOUS
<1> DEFINE w == [r \in G |-> r.turns]
<1>5. TurnsOf(G) = SumFunctionOnSet(w, G)
  BY DEF TurnsOf
<1> HIDE DEF key, K, part, rec, G
<1>6. Recorded(K, rec, G)
  BY <1>2, <1>4 DEF Recorded
<1>7. \A k \in K : w[rec[k]] = Cardinality(part[k])
  BY <1>2, <1>4
<1> HIDE DEF w
<1>8. SumFunctionOnSet(w, G) = Cardinality(L)
  BY <1>1, <1>3, <1>6, <1>7, RecordsCountUp
<1> QED BY <1>5, <1>8 DEF G, L

(* The first and the last of some places are of them.                       *)
LEMMA FirstAndLast ==
    ASSUME NEW costs, Estimates(costs), NEW P \in SUBSET DOMAIN costs, P # {}
    PROVE  FirstOf(P) \in P /\ LastOf(P) \in P
<1> DEFINE R == {e \in P \X P : ReadBefore(e[1], e[2])}
<1> DEFINE Q == {e \in P \X P : ReadBefore(e[2], e[1])}
<1>1. \A p, q \in P : (<<p, q>> \in R <=> ReadBefore(p, q)) /\ (<<p, q>> \in Q <=> ReadBefore(q, p))
  OBVIOUS
<1>2. \A p \in P : p = <<p[1], p[2]>> /\ p[1] \in Nat /\ p[2] \in Nat
  BY DEF Estimates
<1>3. \A p \in P : ~ ReadBefore(p, p)
  BY <1>2 DEF ReadBefore
<1>4. \A p, q \in P : p = q \/ ReadBefore(q, p) \/ ReadBefore(p, q)
  BY <1>2 DEF ReadBefore
<1>5. \A p, q, r \in P : ReadBefore(p, q) /\ ReadBefore(q, r) => ReadBefore(p, r)
  BY <1>2 DEF ReadBefore
<1> HIDE DEF R, Q
<1>6. StrictOrder(R, P) /\ StrictOrder(Q, P)
  BY <1>1, <1>3, <1>4, <1>5 DEF StrictOrder
<1>7. IsFiniteSet(P)
  BY FS_Subset DEF Estimates
<1>8. \E p \in P : \A q \in P \ {p} : <<p, q>> \in R
  BY <1>6, <1>7, OneIsFirst
<1>9. \E p \in P : \A q \in P \ {p} : <<p, q>> \in Q
  BY <1>6, <1>7, OneIsFirst
<1>10. \E p \in P : \A q \in P \ {p} : ReadBefore(p, q)
  BY <1>1, <1>8
<1>11. \E p \in P : \A q \in P \ {p} : ReadBefore(q, p)
  BY <1>1, <1>9
<1> QED BY <1>10, <1>11 DEF FirstOf, LastOf


(* A group of turns that have a price.                                      *)
LEMMA GroupFacts ==
    ASSUME NEW costs, Estimates(costs), NEW P \in SUBSET Priced(costs), NEW g \in Groups(P, costs)
    PROVE  /\ CallsOf(g.models) = g.calls
           /\ g.cost = TotalOf(g.models, "cost") /\ g.usage = TotalOf(g.models, "usage")
           /\ \E q \in ToSet(PriceCatalog) : q.provider = g.provider /\ q.currency = g.currency
<1>1. PICK k \in {GroupOf(p, costs) : p \in P} :
        g = ProviderCost(k, {p \in P : GroupOf(p, costs) = k}, costs)
  BY DEF Groups
<1> DEFINE part == {p \in P : GroupOf(p, costs) = k}
<1> DEFINE last == LastOf(part)
<1>2. part \in SUBSET Priced(costs) /\ part \in SUBSET DOMAIN costs /\ part # {}
  BY DEF Priced
<1>3. \A p \in part : costs[p].provider = k[1]
  BY DEF GroupOf
<1>4. /\ g.provider = k[1] /\ g.currency = costs[last].currency
      /\ g.calls = Cardinality(part)
      /\ g.usage = SumOver(part, costs, "usage") /\ g.cost = SumOver(part, costs, "cost")
      /\ g.models = ModelCosts(part, costs)
  BY <1>1 DEF ProviderCost
<1> HIDE DEF part
<1>5. last \in part
  BY <1>2, FirstAndLast
<1> HIDE DEF last
<1>6. costs[last].status = "available" /\ IsEstimate(costs[last])
  BY <1>2, <1>5 DEF Priced, Estimates
<1>7. \E q \in ToSet(PriceCatalog) :
        q.provider = costs[last].provider /\ q.currency = costs[last].currency
  BY <1>6 DEF IsEstimate
<1> QED BY <1>2, <1>3, <1>4, <1>5, <1>7, ModelsAddUp DEF IsSumOf

GroupsFor(groups, whole, provider) == groups = {g \in whole : g.provider = provider}
MissingFor(missing, whole, provider) == missing = {m \in whole : m.model[1] = provider}

(* The groups of one provider are those of its turns.                       *)
LEMMA GroupsOfOne ==
    ASSUME NEW costs, NEW provider, NEW P, NEW Q \in SUBSET P,
           \A p \in P : p \in Q <=> costs[p].provider = provider
    PROVE  GroupsFor(Groups(Q, costs), Groups(P, costs), provider)
<1> DEFINE KP == {GroupOf(p, costs) : p \in P}
<1> DEFINE KQ == {GroupOf(p, costs) : p \in Q}
<1> DEFINE InP(k) == {p \in P : GroupOf(p, costs) = k}
<1> DEFINE InQ(k) == {p \in Q : GroupOf(p, costs) = k}
<1>1. Groups(P, costs) = {ProviderCost(k, InP(k), costs) : k \in KP}
  BY DEF Groups
<1>2. Groups(Q, costs) = {ProviderCost(k, InQ(k), costs) : k \in KQ}
  BY DEF Groups
<1>3. \A k, places : ProviderCost(k, places, costs).provider = k[1]
  BY DEF ProviderCost
<1>4. KQ = {k \in KP : k[1] = provider}
  BY DEF GroupOf
<1>5. \A k \in KQ : InQ(k) = InP(k)
  BY DEF GroupOf
<1> HIDE DEF KP, KQ, InP, InQ
<1>6. {ProviderCost(k, InQ(k), costs) : k \in KQ} = {ProviderCost(k, InP(k), costs) : k \in KQ}
  BY <1>5
<1>7. {ProviderCost(k, InP(k), costs) : k \in KQ}
        = {g \in {ProviderCost(k, InP(k), costs) : k \in KP} : g.provider = provider}
  BY <1>3, <1>4
<1> QED BY <1>1, <1>2, <1>6, <1>7 DEF GroupsFor

(* So are the models that are missing.                                      *)
LEMMA MissingOfOne ==
    ASSUME NEW costs, NEW provider, NEW P, NEW Q \in SUBSET P,
           \A p \in P : p \in Q <=> ModelFor(p)[1] = provider
    PROVE  MissingFor(MissingFromTurns(Q, costs), MissingFromTurns(P, costs), provider)
<1> DEFINE LP == WithoutProfile(P, costs)
<1> DEFINE LQ == WithoutProfile(Q, costs)
<1> DEFINE InP(m) == {p \in LP : ModelFor(p) = m}
<1> DEFINE InQ(m) == {p \in LQ : ModelFor(p) = m}
<1> DEFINE Rec(m, places) == [model |-> m, turns |-> Cardinality(places)]
<1> DEFINE KP == {ModelFor(p) : p \in LP}
<1> DEFINE KQ == {ModelFor(p) : p \in LQ}
<1>1. MissingFromTurns(P, costs) = {Rec(m, InP(m)) : m \in KP}
  BY DEF MissingFromTurns
<1>2. MissingFromTurns(Q, costs) = {Rec(m, InQ(m)) : m \in KQ}
  BY DEF MissingFromTurns
<1>3. LQ = {p \in LP : ModelFor(p)[1] = provider}
  BY DEF WithoutProfile
<1>4. \A m, places : Rec(m, places).model = m
  OBVIOUS
<1> HIDE DEF LP, LQ, Rec
<1>5. KQ = {m \in KP : m[1] = provider}
  BY <1>3
<1>6. \A m \in KQ : InQ(m) = InP(m)
  BY <1>3
<1> HIDE DEF KP, KQ, InP, InQ
<1>7. {Rec(m, InQ(m)) : m \in KQ} = {Rec(m, InP(m)) : m \in KQ}
  BY <1>6
<1>8. {Rec(m, InP(m)) : m \in KQ} = {r \in {Rec(m, InP(m)) : m \in KP} : r.model[1] = provider}
  BY <1>4, <1>5
<1> QED BY <1>1, <1>2, <1>7, <1>8 DEF MissingFor

(* What a collection is made of.                                            *)
LEMMA CollectionFacts ==
    ASSUME CostType, NEW S \in SUBSET DOMAIN billed, NEW provider
    PROVE  LET costs == AllCosts(S)
               known == {p \in Priced(costs) : provider \in {"", costs[p].provider}}
               lost == {p \in DOMAIN costs \ Priced(costs) : provider \in {"", ModelFor(p)[1]}}
           IN  /\ EstimateCollection(S, provider).groups = Groups(known, costs)
               /\ EstimateCollection(S, provider).missing = MissingFromTurns(lost, costs)
  BY StrictIsSame DEF EstimateCollection, Collection

(* And of all providers.                                                    *)
LEMMA WholeFacts ==
    ASSUME CostType, NEW S \in SUBSET DOMAIN billed
    PROVE  LET costs == AllCosts(S)
           IN  /\ EstimateCollection(S, "").groups = Groups(Priced(costs), costs)
               /\ EstimateCollection(S, "").missing
                    = MissingFromTurns(DOMAIN costs \ Priced(costs), costs)
<1> DEFINE costs == AllCosts(S)
<1>1. {p \in Priced(costs) : "" \in {"", costs[p].provider}} = Priced(costs)
  OBVIOUS
<1>2. {p \in DOMAIN costs \ Priced(costs) : "" \in {"", ModelFor(p)[1]}} = DOMAIN costs \ Priced(costs)
  OBVIOUS
<1> QED BY <1>1, <1>2, CollectionFacts

(* Every turn is counted once, has no profile, or cannot be priced.         *)
LEMMA EveryTurnIsCounted ==
    ASSUME CostType
    PROVE  LET all == Strict(AllCosts(DOMAIN billed))
               whole == EstimateCollection(DOMAIN billed, "")
           IN  CallsOf(whole.groups) + TurnsOf(whole.missing)
                 + Cardinality({p \in DOMAIN all : all[p].status \in {"unmeasured", "no_tier"}})
                   = Cardinality(DOMAIN all)
<1> DEFINE costs == AllCosts(DOMAIN billed)
<1> DEFINE lost == DOMAIN costs \ Priced(costs)
<1> DEFINE unpriced == {p \in DOMAIN costs : costs[p].status \in {"unmeasured", "no_tier"}}
<1>1. Estimates(costs)
  BY AllCostsFacts
<1>2. Strict(costs) = costs
  BY StrictIsSame
<1>3. /\ EstimateCollection(DOMAIN billed, "").groups = Groups(Priced(costs), costs)
      /\ EstimateCollection(DOMAIN billed, "").missing = MissingFromTurns(lost, costs)
  BY WholeFacts
<1> HIDE DEF costs
<1>4. Priced(costs) \in SUBSET DOMAIN costs /\ lost \in SUBSET DOMAIN costs
  BY DEF Priced
<1>5. CallsOf(Groups(Priced(costs), costs)) = Cardinality(Priced(costs))
  BY <1>1, <1>4, GroupsAddUp DEF IsSumOf
<1>6. TurnsOf(MissingFromTurns(lost, costs)) = Cardinality(WithoutProfile(lost, costs))
  BY <1>1, <1>4, MissingCountUp
<1>7. \A p \in DOMAIN costs : costs[p].status \in {"available", "unmeasured", "no_tier", "no_profile"}
  BY <1>1 DEF Estimates, IsEstimate
<1>8. /\ DOMAIN costs = Priced(costs) \cup WithoutProfile(lost, costs) \cup unpriced
      /\ Priced(costs) \cap WithoutProfile(lost, costs) = {}
      /\ Priced(costs) \cap unpriced = {} /\ WithoutProfile(lost, costs) \cap unpriced = {}
  BY <1>7 DEF Priced, WithoutProfile
<1>9. IsFiniteSet(DOMAIN costs)
  BY <1>1 DEF Estimates
<1> HIDE DEF lost, unpriced
<1>10. Cardinality(DOMAIN costs) = Cardinality(Priced(costs)) + Cardinality(WithoutProfile(lost, costs))
                                     + Cardinality(unpriced)
  BY <1>8, <1>9, ThreeParts
<1> QED BY <1>2, <1>3, <1>5, <1>6, <1>10 DEF costs, unpriced

(* The view of one provider is its part of the whole.                       *)
LEMMA OneProviderIsPart ==
    ASSUME CostType, NEW provider, provider # ""
    PROVE  LET whole == EstimateCollection(DOMAIN billed, "")
               one == EstimateCollection(DOMAIN billed, provider)
           IN  /\ one.groups = {g \in whole.groups : g.provider = provider}
               /\ one.missing = {m \in whole.missing : m.model[1] = provider}
<1> DEFINE costs == AllCosts(DOMAIN billed)
<1> DEFINE lost == DOMAIN costs \ Priced(costs)
<1> DEFINE known1 == {p \in Priced(costs) : provider \in {"", costs[p].provider}}
<1> DEFINE lost1 == {p \in lost : provider \in {"", ModelFor(p)[1]}}
<1>1. /\ EstimateCollection(DOMAIN billed, "").groups = Groups(Priced(costs), costs)
      /\ EstimateCollection(DOMAIN billed, "").missing = MissingFromTurns(lost, costs)
  BY WholeFacts
<1>2. /\ EstimateCollection(DOMAIN billed, provider).groups = Groups(known1, costs)
      /\ EstimateCollection(DOMAIN billed, provider).missing = MissingFromTurns(lost1, costs)
  BY CollectionFacts
<1>3. /\ known1 \in SUBSET Priced(costs)
      /\ \A p \in Priced(costs) : p \in known1 <=> costs[p].provider = provider
  OBVIOUS
<1>4. lost1 \in SUBSET lost /\ \A p \in lost : p \in lost1 <=> ModelFor(p)[1] = provider
  OBVIOUS
<1> DEFINE known == Priced(costs)
<1> HIDE DEF costs, lost, known1, lost1, known
<1>5. GroupsFor(Groups(known1, costs), Groups(known, costs), provider)
  <2>1. known1 \in SUBSET known /\ \A p \in known : p \in known1 <=> costs[p].provider = provider
    BY <1>3 DEF known
  <2> QED BY <2>1, GroupsOfOne
<1>6. MissingFor(MissingFromTurns(lost1, costs), MissingFromTurns(lost, costs), provider)
  BY <1>4, MissingOfOne
<1> QED BY <1>1, <1>2, <1>5, <1>6 DEF known, GroupsFor, MissingFor

(* `tok pricing missing` misses what `tok cost` does.                       *)
LEMMA MissingIsTheSame ==
    ASSUME CostType
    PROVE  EstimateCollection(DOMAIN billed, "").missing
             = {[model |-> m.model, turns |-> m.turns] : m \in MissingProfiles(DOMAIN billed)}
<1> DEFINE costs == AllCosts(DOMAIN billed)
<1> DEFINE places == PlacesFor(DOMAIN billed)
<1> DEFINE lost == DOMAIN costs \ Priced(costs)
<1> DEFINE L == {p \in places : PriceMatches(ModelFor(p), TurnFor(p).at) = {}}
<1> DEFINE In(m) == {p \in L : ModelFor(p) = m}
<1> DEFINE K == {ModelFor(p) : p \in L}
<1> DEFINE sessions(m) == Cardinality({billed[p[1]].id : p \in In(m)})
<1> DEFINE Rec(m) == [model |-> m, turns |-> Cardinality(In(m)), sessions |-> sessions(m)]
<1>1. EstimateCollection(DOMAIN billed, "").missing = MissingFromTurns(lost, costs)
  BY WholeFacts
<1>2. WithoutProfile(lost, costs) = L
  <2>1. DOMAIN costs = places
    BY AllCostsFacts
  <2>2. \A p \in places : costs[p].status = "no_profile" <=> PriceMatches(ModelFor(p), TurnFor(p).at) = {}
    BY AllCostsFacts
  <2> HIDE DEF costs, places
  <2> QED BY <2>1, <2>2 DEF WithoutProfile, Priced
<1>3. MissingProfiles(DOMAIN billed) = {Rec(m) : m \in K}
  BY DEF MissingProfiles
<1> HIDE DEF L, lost, costs
<1>4. MissingFromTurns(lost, costs) = {[model |-> m, turns |-> Cardinality(In(m))] : m \in K}
  BY <1>2 DEF MissingFromTurns
<1>5. \A m : Rec(m).model = m /\ Rec(m).turns = Cardinality(In(m))
  OBVIOUS
<1> HIDE DEF In, K, Rec
<1>6. {[model |-> r.model, turns |-> r.turns] : r \in {Rec(m) : m \in K}}
        = {[model |-> m, turns |-> Cardinality(In(m))] : m \in K}
  BY <1>5
<1> QED BY <1>1, <1>3, <1>4, <1>6

(* In every collection each turn that was read is counted in one group, or   *)
(* missing by its model, or cannot be priced; groups sum up their models,    *)
(* and a provider's view is its part of the whole (EstimateCollection,       *)
(* MissingProfiles).                                                         *)
THEOREM CollectionIsCounted == CostSpec => []CollectionCountsEveryTurn
<1>1. CostType => CollectionCountsEveryTurn
  <2> SUFFICES ASSUME CostType PROVE CollectionCountsEveryTurn
    OBVIOUS
  <2> DEFINE whole == EstimateCollection(DOMAIN billed, "")
  <2> DEFINE costs == AllCosts(DOMAIN billed)
  <2>1. \A g \in whole.groups :
          /\ CallsOf(g.models) = g.calls
          /\ g.cost = TotalOf(g.models, "cost") /\ g.usage = TotalOf(g.models, "usage")
          /\ \E q \in ToSet(PriceCatalog) : q.provider = g.provider /\ q.currency = g.currency
    <3>1. whole.groups = Groups(Priced(costs), costs)
      BY WholeFacts
    <3>2. Estimates(costs)
      BY AllCostsFacts
    <3> DEFINE known == Priced(costs)
    <3>3. known \in SUBSET Priced(costs)
      OBVIOUS
    <3> HIDE DEF costs, known
    <3>4. \A g \in Groups(known, costs) :
            /\ CallsOf(g.models) = g.calls
            /\ g.cost = TotalOf(g.models, "cost") /\ g.usage = TotalOf(g.models, "usage")
            /\ \E q \in ToSet(PriceCatalog) : q.provider = g.provider /\ q.currency = g.currency
      BY <3>2, <3>3, GroupFacts
    <3> QED BY <3>1, <3>4 DEF known
  <2> DEFINE profiles(provider) == {p \in ToSet(PriceCatalog) : p.provider = provider}
  <2>2. \A g \in whole.groups : \A p \in profiles(g.provider) :
          (\A q \in profiles(g.provider) : p.currency = q.currency) => p.currency = g.currency
    <3> HIDE DEF whole
    <3> QED BY <2>1
  <2>3. \A provider \in {p.provider : p \in ToSet(PriceCatalog)} : provider # ""
    BY PriceAssumption DEF PriceAssumption
  <2>4. \A provider \in {p.provider : p \in ToSet(PriceCatalog)} :
          LET one == EstimateCollection(DOMAIN billed, provider)
          IN  /\ one.groups = {g \in whole.groups : g.provider = provider}
              /\ one.missing = {m \in whole.missing : m.model[1] = provider}
    BY <2>3, OneProviderIsPart
  <2> QED BY <2>1, <2>2, <2>4, EveryTurnIsCounted, MissingIsTheSame DEF CollectionCountsEveryTurn
<1> QED BY <1>1, CostTypeHolds, PTL


-----------------------------------------------------------------------------
(* What a session costs. *)

FirstTier(tiers, input) ==
    CHOOSE k \in DOMAIN tiers :
        /\ tiers[k].upTo = -1 \/ input <= tiers[k].upTo
        /\ \A l \in 1..(k - 1) : 0 <= tiers[l].upTo /\ tiers[l].upTo < input

BestOf(matches) == CHOOSE i \in matches : \A j \in matches : i = j \/ PriceBefore(i, j)

(* The first tier that takes the whole input is the one that is found.       *)
LEMMA TierIsFound ==
    ASSUME NEW i \in CatalogPlaces, NEW input \in Int, TiersFor(PriceCatalog[i], input) # {}
    PROVE  Min(TiersFor(PriceCatalog[i], input)) = FirstTier(PriceCatalog[i].tiers, input)
<1> DEFINE tiers == PriceCatalog[i].tiers
<1> DEFINE k == Min(TiersFor(PriceCatalog[i], input))
<1> DEFINE Takes(j) == tiers[j].upTo = -1 \/ input <= tiers[j].upTo
<1> DEFINE Passes(j) == 0 <= tiers[j].upTo /\ tiers[j].upTo < input
<1>1. /\ k \in DOMAIN tiers /\ k \in Int /\ Takes(k) /\ ~ Passes(k)
      /\ \A l \in DOMAIN tiers : l < k => Passes(l)
      /\ \A l \in 1..(k - 1) : l \in DOMAIN tiers
  BY TierFacts
<1>2. DOMAIN tiers = 1..Len(tiers) /\ Len(tiers) \in Nat
      /\ \A j \in DOMAIN tiers : tiers[j].upTo \in Int
  <2>1. tiers \in Seq(PriceTiers)
    BY ProfileFacts
  <2> HIDE DEF tiers
  <2>2. \A tier \in PriceTiers : tier.upTo \in Int
    BY DEF PriceTiers
  <2>3. DOMAIN tiers = 1..Len(tiers) /\ Len(tiers) \in Nat /\ \A j \in DOMAIN tiers : tiers[j] \in PriceTiers
    BY <2>1
  <2> QED BY <2>2, <2>3
<1> HIDE DEF tiers, k
<1>3. \A l \in 1..(k - 1) : Passes(l)
  BY <1>1
<1>4. \A j \in DOMAIN tiers : Takes(j) => ~ Passes(j)
  BY <1>2
<1> HIDE DEF Takes, Passes
<1>5. ASSUME NEW j \in DOMAIN tiers, Takes(j), \A l \in 1..(j - 1) : Passes(l)
      PROVE  j = k
  <2>1. j \in Int /\ k \in Int /\ 1 <= j /\ 1 <= k
    BY <1>1, <1>2
  <2>2. ~ (j < k)
    BY <1>1, <1>4, <1>5
  <2>3. ~ (k < j)
    <3>1. k < j => k \in 1..(j - 1)
      BY <2>1
    <3> QED BY <1>1, <1>5, <3>1
  <2> QED BY <2>1, <2>2, <2>3
<1>6. k = CHOOSE j \in DOMAIN tiers : Takes(j) /\ \A l \in 1..(j - 1) : Passes(l)
  BY <1>1, <1>3, <1>5
<1> QED BY <1>6 DEF Takes, Passes, tiers, k, FirstTier

(* A turn that has a price has it at the rates of its profile.               *)
LEMMA TurnFacts ==
    ASSUME NEW t, NEW s, \A f \in BillableKinds : t.billable[f].value \in Int,
           EstimateUsage(TurnModel(t, s), t.at, t.billable).status = "available"
    PROVE  LET e == EstimateUsage(TurnModel(t, s), t.at, t.billable)
           IN  /\ Billable(t.billable) /\ e.usage = BillableTokens(t.billable)
               /\ RatesOf(t, s) \in [RateKinds -> Nat]
               /\ \A part \in CostParts :
                    e.cost[part] = CostMicros(BillableTokens(t.billable)[part], Rate(RatesOf(t, s), part))
<1> DEFINE model == TurnModel(t, s)
<1> DEFINE b == t.billable
<1> DEFINE input == b.input.value
<1> DEFINE e == EstimateUsage(model, t.at, b)
<1> DEFINE profile == PriceFor(model, t.at)
<1>1. PriceMatches(model, t.at) # {} /\ Billable(b) /\ e.usage = BillableTokens(b)
  BY EstimateFacts
<1>2. TotalInput(BillableTokens(b)) = input /\ input \in Int
  BY DEF TotalInput, BillableTokens, BillableKinds
<1>3. /\ TiersFor(profile, input) # {}
      /\ e.cost = [part \in CostParts |->
            CostMicros(BillableTokens(b)[part], Rate(profile.tiers[Min(TiersFor(profile, input))].rates, part))]
  BY <1>2, EstimateFacts
<1>4. PICK i \in CatalogPlaces :
        profile = PriceCatalog[i] /\ i = BestOf(PriceMatches(model, t.at))
  BY <1>1, PriceForFacts DEF BestOf
<1> DEFINE k == Min(TiersFor(profile, input))
<1>5. profile.tiers[k].rates \in [RateKinds -> Nat] /\ k = FirstTier(profile.tiers, input)
  BY <1>2, <1>3, <1>4, TierFacts, TierIsFound
<1>6. RatesOf(t, s) = profile.tiers[k].rates
  <2> DEFINE best == BestOf(PriceMatches(model, t.at))
  <2>1. RatesOf(t, s) = PriceCatalog[best].tiers[FirstTier(PriceCatalog[best].tiers, input)].rates
    BY DEF RatesOf, BestOf, FirstTier
  <2> HIDE DEF best, k, profile, model, input
  <2> QED BY <1>4, <1>5, <2>1 DEF best
<1> HIDE DEF k
<1>7. \A part \in CostParts :
        e.cost[part] = CostMicros(BillableTokens(b)[part], Rate(RatesOf(t, s), part))
  BY <1>3, <1>6 DEF k
<1> QED BY <1>1, <1>5, <1>6, <1>7

(* A product of natural numbers is one.                                     *)
LEMMA ProductFacts ==
    ASSUME NEW a \in Nat, NEW b \in Nat
    PROVE  a * b \in Nat
  OBVIOUS

(* Where a product fits, it is divided and rounded down.                     *)
LEMMA MicrosRoundDown ==
    ASSUME NEW tokens \in Nat, NEW rate \in Nat, tokens * rate < Word
    PROVE  LET c == CostMicros(tokens, rate)
           IN  c \in Nat /\ Million * c <= tokens * rate /\ tokens * rate < Million * c + Million
<1> DEFINE x == tokens * rate
<1>1. Million \in Nat \ {0} /\ Word \in Nat \ {0}
  BY PriceAssumption DEF PriceAssumption
<1>2. x \in Nat
  BY ProductFacts
<1>3. CostMicros(tokens, rate)
        = LET product == ((x + Word) % (2 * Word)) - Word
          IN  IF product < 0 THEN -((-product) \div Million) ELSE product \div Million
  BY DEF CostMicros
<1>4. x < Word
  OBVIOUS
<1> HIDE DEF x
<1>5. (x + Word) % (2 * Word) = x + Word
  BY <1>1, <1>2, <1>4
<1>6. ((x + Word) % (2 * Word)) - Word = x
  BY <1>1, <1>2, <1>5
<1>7. CostMicros(tokens, rate) = x \div Million
  BY <1>2, <1>3, <1>6
<1> DEFINE c == x \div Million
<1>8. c \in Nat /\ Million * c <= x /\ x < Million * c + Million
  BY <1>1, <1>2
<1> HIDE DEF c
<1> QED BY <1>7, <1>8 DEF x, c


(* Fresh input, and what is written, are charged apart.                     *)
LEMMA ChargedApart ==
    ASSUME NEW f \in Int, NEW w \in Int, NEW rf \in Int, NEW rw \in Int
    PROVE  (f + w) * rf + w * (rw - rf) = f * rf + w * rw
<1>1. (f + w) * rf = f * rf + w * rf
  OBVIOUS
<1>2. w * (rw - rf) = w * rw - w * rf
  OBVIOUS
<1>3. w * rf \in Int /\ w * rw \in Int /\ f * rf \in Int
  OBVIOUS
<1> QED BY <1>1, <1>2, <1>3

(* The exact price of a turn is that of its parts, none of them negative.    *)
LEMMA ExactPriceFacts ==
    ASSUME NEW t, NEW s, \A f \in BillableKinds : t.billable[f].value \in Nat,
           Billable(t.billable), RatesOf(t, s) \in [RateKinds -> Nat]
    PROVE  LET tokens == BillableTokens(t.billable)
               price(part) == tokens[part] * Rate(RatesOf(t, s), part)
           IN  /\ \A part \in CostParts : /\ tokens[part] \in Nat /\ Rate(RatesOf(t, s), part) \in Nat
                                          /\ price(part) \in Nat
               /\ ExactPrice(t, s) = price("fresh") + price("read") + price("write") + price("output")
<1> DEFINE b == t.billable
<1> DEFINE tokens == BillableTokens(b)
<1> DEFINE r == RatesOf(t, s)
<1> DEFINE price(part) == tokens[part] * Rate(r, part)
<1>1. /\ tokens.fresh = b.input.value - b.cacheRead.value - b.cacheWrite.value
      /\ tokens.read = b.cacheRead.value /\ tokens.write = b.cacheWrite.value
      /\ tokens.output = b.output.value
  BY DEF BillableTokens
<1>2. /\ b.input.value \in Nat /\ b.cacheRead.value \in Nat /\ b.cacheWrite.value \in Nat
      /\ b.output.value \in Nat
  BY DEF BillableKinds
<1>3. tokens.fresh \in Nat
  BY <1>1, <1>2 DEF Billable
<1>4. \A part \in CostParts : tokens[part] \in Nat
  BY <1>1, <1>2, <1>3 DEF CostParts
<1>5. r.fresh \in Nat /\ r.read \in Nat /\ r.cached \in Nat /\ r.write \in Nat /\ r.output \in Nat
  BY DEF RateKinds
<1>6. ExactPrice(t, s) = (b.input.value - b.cacheRead.value) * r.fresh
                          + b.cacheWrite.value * (r.write - r.fresh)
                          + b.cacheRead.value * (IF r.read = 0 THEN r.cached ELSE r.read)
                          + b.output.value * r.output
  BY DEF ExactPrice
<1> HIDE DEF r, tokens
<1>7. /\ Rate(r, "fresh") = r.fresh /\ Rate(r, "write") = r.write /\ Rate(r, "output") = r.output
      /\ Rate(r, "read") = IF r.read = 0 THEN r.cached ELSE r.read
  BY DEF Rate
<1>8. \A part \in CostParts : Rate(r, part) \in Nat
  BY <1>5, <1>7 DEF CostParts
<1>9. \A part \in CostParts : price(part) \in Nat
  BY <1>4, <1>8, ProductFacts
<1>10. (b.input.value - b.cacheRead.value) * r.fresh + b.cacheWrite.value * (r.write - r.fresh)
         = price("fresh") + price("write")
  <2>1. b.input.value - b.cacheRead.value = tokens.fresh + tokens.write
    BY <1>1, <1>2
  <2>2. (tokens.fresh + tokens.write) * r.fresh + tokens.write * (r.write - r.fresh)
          = tokens.fresh * r.fresh + tokens.write * r.write
    BY <1>1, <1>2, <1>3, <1>5, ChargedApart
  <2>3. price("fresh") = tokens.fresh * r.fresh /\ price("write") = tokens.write * r.write
    BY <1>7
  <2>4. b.cacheWrite.value = tokens.write
    BY <1>1
  <2> QED BY <2>1, <2>2, <2>3, <2>4
<1>11. /\ price("read") = b.cacheRead.value * (IF r.read = 0 THEN r.cached ELSE r.read)
       /\ price("output") = b.output.value * r.output
  BY <1>1, <1>7
<1> HIDE DEF price
<1> DEFINE x == (b.input.value - b.cacheRead.value) * r.fresh + b.cacheWrite.value * (r.write - r.fresh)
<1> DEFINE y == b.cacheRead.value * (IF r.read = 0 THEN r.cached ELSE r.read)
<1> DEFINE z == b.output.value * r.output
<1>12. ExactPrice(t, s) = x + y + z
  BY <1>6
<1>13. x = price("fresh") + price("write") /\ y = price("read") /\ z = price("output")
  BY <1>10, <1>11
<1> HIDE DEF x, y, z
<1>14. /\ price("fresh") \in Nat /\ price("read") \in Nat /\ price("write") \in Nat
       /\ price("output") \in Nat
  BY <1>9 DEF CostParts
<1>15. ExactPrice(t, s) = price("fresh") + price("read") + price("write") + price("output")
  BY <1>12, <1>13, <1>14
<1> QED BY <1>4, <1>8, <1>9, <1>15 DEF price, tokens, r

(* Four roundings lose less than four micros.                               *)
LEMMA FourRoundings ==
    ASSUME NEW m \in Nat,
           NEW a \in Nat, NEW b \in Nat, NEW c \in Nat, NEW d \in Nat,
           NEW p \in Nat, NEW q \in Nat, NEW r \in Nat, NEW s \in Nat,
           m * a <= p, p < m * a + m, m * b <= q, q < m * b + m,
           m * c <= r, r < m * c + m, m * d <= s, s < m * d + m
    PROVE  /\ m * (a + b + c + d) <= p + q + r + s
           /\ p + q + r + s + 1 <= m * (a + b + c + d + 4)
<1>1. m * (a + b + c + d) = m * a + m * b + m * c + m * d
  OBVIOUS
<1>2. m * (a + b + c + d + 4) = m * (a + b + c + d) + m * 4
  OBVIOUS
<1>3. m * a \in Nat /\ m * b \in Nat /\ m * c \in Nat /\ m * d \in Nat
  BY ProductFacts
<1>4. m * 4 = m + m + m + m
  OBVIOUS
<1> DEFINE total == m * (a + b + c + d)
<1> DEFINE up == m * (a + b + c + d + 4)
<1> DEFINE ma == m * a
<1> DEFINE mb == m * b
<1> DEFINE mc == m * c
<1> DEFINE md == m * d
<1>5. total = ma + mb + mc + md /\ up = total + (m + m + m + m)
  BY <1>1, <1>2, <1>4
<1>6. /\ ma \in Nat /\ mb \in Nat /\ mc \in Nat /\ md \in Nat
      /\ ma <= p /\ p < ma + m /\ mb <= q /\ q < mb + m
      /\ mc <= r /\ r < mc + m /\ md <= s /\ s < md + m
  BY <1>3
<1> HIDE DEF total, up, ma, mb, mc, md
<1>7. total <= p + q + r + s /\ p + q + r + s + 1 <= up
  BY <1>5, <1>6
<1> QED BY <1>7 DEF total, up

(* What a turn is said to cost is its exact price, rounded down four times. *)
LEMMA TurnBounds ==
    ASSUME NEW t, NEW s, \A f \in BillableKinds : t.billable[f].value \in Nat,
           EstimateUsage(TurnModel(t, s), t.at, t.billable).status = "available",
           ExactPrice(t, s) < Word
    PROVE  LET cost == EstimateUsage(TurnModel(t, s), t.at, t.billable).cost
           IN  /\ Million * Total4(cost) <= ExactPrice(t, s)
               /\ ExactPrice(t, s) + 1 <= Million * (Total4(cost) + 4)
<1> DEFINE cost == EstimateUsage(TurnModel(t, s), t.at, t.billable).cost
<1> DEFINE tokens == BillableTokens(t.billable)
<1> DEFINE rates == RatesOf(t, s)
<1> DEFINE price(part) == tokens[part] * Rate(rates, part)
<1>1. \A f \in BillableKinds : t.billable[f].value \in Int
  OBVIOUS
<1>2. /\ Billable(t.billable) /\ rates \in [RateKinds -> Nat]
      /\ \A part \in CostParts : cost[part] = CostMicros(tokens[part], Rate(rates, part))
  BY <1>1, TurnFacts
<1>3. /\ \A part \in CostParts : tokens[part] \in Nat /\ Rate(rates, part) \in Nat /\ price(part) \in Nat
      /\ ExactPrice(t, s) = price("fresh") + price("read") + price("write") + price("output")
  BY <1>2, ExactPriceFacts
<1>4. Million \in Nat /\ Word \in Nat
  BY PriceAssumption DEF PriceAssumption
<1> DEFINE exact == ExactPrice(t, s)
<1>5. exact < Word
  OBVIOUS
<1> HIDE DEF cost, tokens, rates, exact
<1>6. \A part \in CostParts : price(part) < Word
  <2> DEFINE pf == price("fresh")
  <2> DEFINE pr == price("read")
  <2> DEFINE pw == price("write")
  <2> DEFINE po == price("output")
  <2>1. pf \in Nat /\ pr \in Nat /\ pw \in Nat /\ po \in Nat
    BY <1>3 DEF CostParts
  <2>2. exact = pf + pr + pw + po
    BY <1>3 DEF exact
  <2> HIDE DEF pf, pr, pw, po, price
  <2>3. pf < Word /\ pr < Word /\ pw < Word /\ po < Word
    BY <1>4, <1>5, <2>1, <2>2
  <2> QED BY <2>3 DEF CostParts, pf, pr, pw, po
<1>7. \A part \in CostParts :
        /\ cost[part] \in Nat /\ Million * cost[part] <= price(part)
        /\ price(part) < Million * cost[part] + Million
  BY <1>2, <1>3, <1>6, MicrosRoundDown
<1>8. \A part \in CostParts : price(part) \in Nat
  BY <1>3
<1> HIDE DEF price
<1> DEFINE sum == price("fresh") + price("read") + price("write") + price("output")
<1>9. /\ Million * (cost.fresh + cost.read + cost.write + cost.output) <= sum
      /\ sum + 1 <= Million * (cost.fresh + cost.read + cost.write + cost.output + 4)
  BY <1>4, <1>7, <1>8, FourRoundings DEF CostParts
<1> QED BY <1>3, <1>9 DEF Total4, exact, cost


(* Bounds of the numbers are bounds of their sums.                          *)
Within4(m, v, u, S) == \A x \in S : m * v[x] <= u[x] /\ u[x] + 1 <= m * (v[x] + 4)

(* So the sums are, however many there are.                                 *)
LEMMA SumsWithin ==
    ASSUME NEW S, IsFiniteSet(S), NEW m \in Nat, NEW v, Numbers(v, S), NEW u, Numbers(u, S),
           Within4(m, v, u, S)
    PROVE  /\ m * SumFunctionOnSet(v, S) <= SumFunctionOnSet(u, S)
           /\ SumFunctionOnSet(u, S) + Cardinality(S) <= m * (SumFunctionOnSet(v, S) + 4 * Cardinality(S))
<1> DEFINE Low(T) == m * SumFunctionOnSet(v, T) <= SumFunctionOnSet(u, T)
<1> DEFINE High(T) ==
      SumFunctionOnSet(u, T) + Cardinality(T) <= m * (SumFunctionOnSet(v, T) + 4 * Cardinality(T))
<1> DEFINE U == {T \in SUBSET S : Low(T) /\ High(T)}
<1>1. {} \in U
  <2>1. SumFunctionOnSet(v, {}) = 0 /\ SumFunctionOnSet(u, {}) = 0
    BY FS_EmptySet, SumFacts DEF Numbers
  <2>2. Cardinality({}) = 0
    BY FS_EmptySet
  <2> QED BY <2>1, <2>2
<1>2. ASSUME NEW T \in SUBSET S, NEW x \in S \ T, T \in U
      PROVE  T \cup {x} \in U
  <2> DEFINE R == T \cup {x}
  <2>1. IsFiniteSet(T) /\ IsFiniteSet(R) /\ R \ {x} = T /\ R \in SUBSET S
    BY FS_Subset, FS_AddElement
  <2>2. Cardinality(R) = Cardinality(T) + 1 /\ Cardinality(T) \in Nat
    BY <2>1, FS_AddElement, FS_CardinalityType
  <2>3. Numbers(v, R) /\ Numbers(u, R) /\ Numbers(v, T) /\ Numbers(u, T)
    BY DEF Numbers
  <2>4. /\ SumFunctionOnSet(v, R) = v[x] + SumFunctionOnSet(v, T)
        /\ SumFunctionOnSet(u, R) = u[x] + SumFunctionOnSet(u, T)
        /\ SumFunctionOnSet(v, T) \in Int /\ SumFunctionOnSet(u, T) \in Int
    BY <2>1, <2>3, SumFacts
  <2>5. v[x] \in Int /\ u[x] \in Int /\ m * v[x] <= u[x] /\ u[x] + 1 <= m * (v[x] + 4)
    BY DEF Numbers, Within4
  <2>6. Low(T) /\ High(T)
    BY <1>2
  <2> DEFINE a == SumFunctionOnSet(v, T)
  <2> DEFINE b == SumFunctionOnSet(u, T)
  <2> DEFINE n == Cardinality(T)
  <2>7. m * (v[x] + a) = m * v[x] + m * a
    BY <2>4, <2>5
  <2>8. m * ((v[x] + a) + 4 * (n + 1)) = m * (v[x] + 4) + m * (a + 4 * n)
    <3> DEFINE c == v[x] + 4
    <3> DEFINE d == a + 4 * n
    <3>1. c \in Int /\ d \in Int
      BY <2>2, <2>4, <2>5
    <3>2. (v[x] + a) + 4 * (n + 1) = c + d
      BY <2>2, <2>4, <2>5
    <3> HIDE DEF c, d
    <3>3. m * (c + d) = m * c + m * d
      BY <3>1
    <3> QED BY <3>2, <3>3 DEF c, d
  <2>9. /\ m * v[x] \in Int /\ m * a \in Int /\ m * (v[x] + 4) \in Int /\ m * (a + 4 * n) \in Int
    BY <2>2, <2>4, <2>5
  <2> DEFINE p == m * v[x]
  <2> DEFINE q == m * a
  <2> DEFINE r == m * (v[x] + 4)
  <2> DEFINE s == m * (a + 4 * n)
  <2>10. p <= u[x] /\ u[x] + 1 <= r /\ q <= b /\ b + n <= s
    BY <2>5, <2>6
  <2>11. p + q <= u[x] + b /\ (u[x] + b) + (n + 1) <= r + s
    <3> HIDE DEF p, q, r, s
    <3>1. p \in Int /\ q \in Int /\ r \in Int /\ s \in Int
      BY <2>9 DEF p, q, r, s
    <3>2. b \in Int /\ n \in Int
      BY <2>2, <2>4
    <3> HIDE DEF b, n
    <3> QED BY <2>5, <2>10, <3>1, <3>2
  <2>12. Low(R)
    BY <2>4, <2>7, <2>11
  <2>13. High(R)
    BY <2>2, <2>4, <2>8, <2>11
  <2> QED BY <2>1, <2>12, <2>13
<1> HIDE DEF U
<1>3. S \in U
  BY <1>1, <1>2, FiniteByInduction
<1> QED BY <1>3 DEF U

(* The sums of the parts are the sum of what the parts are together.         *)
LEMMA SumOfThree ==
    ASSUME NEW S, IsFiniteSet(S), NEW a, NEW b, NEW c, Numbers(a, S), Numbers(b, S), Numbers(c, S),
           NEW d, \A x \in S : d[x] = a[x] + b[x] + c[x]
    PROVE  SumFunctionOnSet(d, S)
             = SumFunctionOnSet(a, S) + SumFunctionOnSet(b, S) + SumFunctionOnSet(c, S)
<1> DEFINE e == [x \in S |-> a[x] + b[x]]
<1>1. Numbers(e, S) /\ \A x \in S : e[x] = a[x] + b[x] /\ d[x] = e[x] + c[x]
  BY DEF Numbers
<1> HIDE DEF e
<1>2. SumFunctionOnSet(d, S) = SumFunctionOnSet(e, S) + SumFunctionOnSet(c, S)
  BY <1>1, SumOfSums
<1>3. SumFunctionOnSet(e, S) = SumFunctionOnSet(a, S) + SumFunctionOnSet(b, S)
  BY <1>1, SumOfSums
<1> QED BY <1>2, <1>3

(* What turns sum up to, in all, is the sum of what each is in all.         *)
LEMMA TotalsAddUp ==
    ASSUME NEW costs, Estimates(costs), NEW P \in SUBSET DOMAIN costs
    PROVE  /\ \A part \in CostParts : SumOver(P, costs, "usage")[part] \in Int
           /\ \A part \in CostParts : SumOver(P, costs, "cost")[part] \in Int
           /\ TotalInput(SumOver(P, costs, "usage"))
                = SumFunctionOnSet([p \in P |-> TotalInput(costs[p].usage)], P)
           /\ Total4(SumOver(P, costs, "cost"))
                = SumFunctionOnSet([p \in P |-> Total4(costs[p].cost)], P)
<1> DEFINE U(part) == [p \in P |-> costs[p]["usage"][part]]
<1> DEFINE C(part) == [p \in P |-> costs[p]["cost"][part]]
<1> DEFINE input == [p \in P |-> TotalInput(costs[p].usage)]
<1> DEFINE total == [p \in P |-> Total4(costs[p].cost)]
<1> DEFINE three == [p \in P |-> costs[p].cost.fresh + costs[p].cost.read + costs[p].cost.write]
<1>1. IsFiniteSet(P)
  BY FS_Subset DEF Estimates
<1>2. \A part \in CostParts : Numbers(U(part), P) /\ Numbers(C(part), P)
  BY DEF Numbers, Estimates, IsEstimate
<1>3. \A part \in CostParts : /\ SumOver(P, costs, "usage")[part] = SumFunctionOnSet(U(part), P)
                              /\ SumOver(P, costs, "cost")[part] = SumFunctionOnSet(C(part), P)
  BY DEF SumOver
<1>4. /\ \A p \in P : input[p] = U("fresh")[p] + U("read")[p] + U("write")[p]
      /\ \A p \in P : three[p] = C("fresh")[p] + C("read")[p] + C("write")[p]
  BY DEF TotalInput
<1>5. Numbers(three, P)
  <2> SUFFICES ASSUME NEW p \in P PROVE three[p] \in Int
    BY DEF Numbers
  <2>1. \A part \in CostParts : costs[p].cost[part] \in Int
    BY DEF Estimates, IsEstimate
  <2>2. costs[p].cost.fresh \in Int /\ costs[p].cost.read \in Int /\ costs[p].cost.write \in Int
    BY <2>1 DEF CostParts
  <2>3. three[p] = costs[p].cost.fresh + costs[p].cost.read + costs[p].cost.write
    OBVIOUS
  <2> HIDE DEF three
  <2> QED BY <2>2, <2>3
<1>6. \A p \in P : total[p] = three[p] + C("output")[p]
  BY DEF Total4
<1> HIDE DEF U, C, input, total, three
<1>7. \A part \in CostParts : SumFunctionOnSet(U(part), P) \in Int /\ SumFunctionOnSet(C(part), P) \in Int
  BY <1>1, <1>2, SumFacts
<1>8. SumFunctionOnSet(input, P) = SumFunctionOnSet(U("fresh"), P) + SumFunctionOnSet(U("read"), P)
                                     + SumFunctionOnSet(U("write"), P)
  <2>1. Numbers(U("fresh"), P) /\ Numbers(U("read"), P) /\ Numbers(U("write"), P)
    BY <1>2 DEF CostParts
  <2> QED BY <1>1, <1>4, <2>1, SumOfThree
<1>9. SumFunctionOnSet(three, P) = SumFunctionOnSet(C("fresh"), P) + SumFunctionOnSet(C("read"), P)
                                     + SumFunctionOnSet(C("write"), P)
  <2>1. Numbers(C("fresh"), P) /\ Numbers(C("read"), P) /\ Numbers(C("write"), P)
    BY <1>2 DEF CostParts
  <2> QED BY <1>1, <1>4, <2>1, SumOfThree
<1>10. SumFunctionOnSet(total, P) = SumFunctionOnSet(three, P) + SumFunctionOnSet(C("output"), P)
  <2>1. Numbers(C("output"), P)
    BY <1>2 DEF CostParts
  <2> QED BY <1>1, <1>5, <1>6, <2>1, SumOfSums
<1>11. TotalInput(SumOver(P, costs, "usage")) = SumFunctionOnSet(input, P)
  BY <1>3, <1>8 DEF TotalInput, CostParts
<1>12. Total4(SumOver(P, costs, "cost")) = SumFunctionOnSet(total, P)
  BY <1>3, <1>9, <1>10 DEF Total4, CostParts
<1> QED BY <1>3, <1>7, <1>11, <1>12 DEF input, total


(* The costs of a session that has turns are those of its turns.            *)
LEMMA OwnCosts ==
    ASSUME CostType, NEW n \in DOMAIN billed, billed[n].turns # <<>>
    PROVE  LET turns == DOMAIN billed[n].turns
           IN  /\ SessionCosts(n) = AllCosts({n})
               /\ PlacesFor({n}) = {<<n, k>> : k \in turns}
               /\ \A k \in turns : /\ TurnFor(<<n, k>>) = billed[n].turns[k]
                                   /\ ModelFor(<<n, k>>) = TurnModel(billed[n].turns[k], billed[n])
                                   /\ \A f \in BillableKinds : billed[n].turns[k].billable[f].value \in Int
               /\ IsFiniteSet(turns) /\ Cardinality(turns) = Len(billed[n].turns)
               /\ Len(billed[n].turns) \in Nat \ {0} /\ turns # {}
<1> DEFINE s == billed[n]
<1>1. TurnsForCost(s) = s.turns
  BY DEF TurnsForCost
<1>2. PlacesFor({n}) = {<<n, k>> : k \in DOMAIN s.turns}
  BY <1>1 DEF PlacesFor
<1>3. \A k \in DOMAIN s.turns : TurnFor(<<n, k>>) = s.turns[k]
  BY <1>1 DEF TurnFor
<1>4. \A k \in DOMAIN s.turns : ModelFor(<<n, k>>) = TurnModel(s.turns[k], s)
  BY <1>3 DEF ModelFor
<1>5. SessionCosts(n) = AllCosts({n})
  BY DEF SessionCosts, AllCosts
<1>6. s.turns \in Seq(PricedTurns)
  BY BilledFacts
<1>7. \A k \in DOMAIN s.turns : \A f \in BillableKinds : s.turns[k].billable[f].value \in Int
  <2>1. \A k \in DOMAIN s.turns : s.turns[k] \in PricedTurns
    BY <1>6
  <2> QED BY <2>1, PriceAssumption DEF PriceAssumption
<1>8. /\ DOMAIN s.turns = 1..Len(s.turns) /\ Len(s.turns) \in Nat /\ Len(s.turns) # 0
  BY <1>6
<1>9. IsFiniteSet(1..Len(s.turns)) /\ Cardinality(1..Len(s.turns)) = Len(s.turns)
  BY <1>8, FS_Interval
<1>10. 1..Len(s.turns) # {}
  <2> DEFINE l == Len(s.turns)
  <2>1. l \in Nat /\ l # 0
    BY <1>8
  <2> HIDE DEF l
  <2>2. 1 \in 1..l
    BY <2>1
  <2> QED BY <2>2 DEF l
<1> QED BY <1>2, <1>3, <1>4, <1>5, <1>7, <1>8, <1>9, <1>10

(* A session's cost is said if all of its turns have a price, in one currency. *)
LEMMA SaidCost ==
    ASSUME CostType, NEW n \in DOMAIN billed, billed[n].turns # <<>>, EstimateSession(n).available
    PROVE  LET costs == AllCosts({n})
               cost == EstimateSession(n)
           IN  /\ Priced(costs) = DOMAIN costs
               /\ \A p, q \in DOMAIN costs : costs[p].currency = costs[q].currency
               /\ cost.usage = SumOver(DOMAIN costs, costs, "usage")
               /\ cost.cost = SumOver(DOMAIN costs, costs, "cost")
               /\ \A p \in DOMAIN costs : costs[p].currency = cost.currency
               /\ cost.missing = MissingFromTurns(DOMAIN costs, costs)
<1> DEFINE costs == AllCosts({n})
<1> DEFINE places == DOMAIN costs
<1> DEFINE ok == Priced(costs) = places /\ \A p, q \in places : costs[p].currency = costs[q].currency
<1> DEFINE cost == EstimateSession(n)
<1>1. cost = SessionCost(costs, Priced(costs))
  BY OwnCosts, StrictIsSame DEF EstimateSession
<1> HIDE DEF costs, cost
<1>2. /\ cost.available = ok
      /\ cost.usage = IF ok THEN SumOver(places, costs, "usage") ELSE Nothing64
      /\ cost.cost = IF ok THEN SumOver(places, costs, "cost") ELSE Nothing64
      /\ cost.currency = IF Priced(costs) = {} THEN "" ELSE costs[FirstOf(Priced(costs))].currency
      /\ cost.missing = MissingFromTurns(places, costs)
  BY <1>1 DEF SessionCost
<1>3. ok
  BY <1>2 DEF cost
<1>4. places # {}
  <2> DEFINE turns == DOMAIN billed[n].turns
  <2>1. places = PlacesFor({n})
    BY AllCostsFacts DEF costs
  <2>2. PlacesFor({n}) = {<<n, k>> : k \in turns} /\ turns # {}
    BY OwnCosts
  <2> HIDE DEF turns
  <2>3. {<<n, k>> : k \in turns} # {}
    BY <2>2
  <2> QED BY <2>1, <2>2, <2>3
<1>5. FirstOf(places) \in places
  <2>1. Estimates(costs)
    BY AllCostsFacts DEF costs
  <2> DEFINE P == places
  <2>2. P \in SUBSET DOMAIN costs /\ P # {}
    BY <1>4
  <2> HIDE DEF P
  <2>3. FirstOf(P) \in P
    BY <2>1, <2>2, FirstAndLast
  <2> QED BY <2>3 DEF P
<1>6. \A p \in places : costs[p].currency = cost.currency
  BY <1>2, <1>3, <1>4, <1>5
<1> QED BY <1>2, <1>3, <1>6 DEF costs, cost

(* No turn of it is missing a profile, and `tok cost --all` says the same.  *)
LEMMA SaidAlone ==
    ASSUME CostType, NEW n \in DOMAIN billed, billed[n].turns # <<>>, EstimateSession(n).available
    PROVE  LET cost == EstimateSession(n)
               alone == EstimateCollection({n}, "")
           IN  /\ cost.missing = {} /\ alone.missing = {}
               /\ \A g \in alone.groups : g.currency = cost.currency
               /\ cost.cost = TotalOf(alone.groups, "cost")
<1> DEFINE costs == AllCosts({n})
<1> DEFINE places == DOMAIN costs
<1> DEFINE cost == EstimateSession(n)
<1>1. /\ Priced(costs) = places
      /\ cost.cost = SumOver(places, costs, "cost")
      /\ \A p \in places : costs[p].currency = cost.currency
      /\ cost.missing = MissingFromTurns(places, costs)
  BY SaidCost
<1>2. /\ EstimateCollection({n}, "").groups = Groups(places, costs)
      /\ EstimateCollection({n}, "").missing = MissingFromTurns({}, costs)
  <2>1. /\ EstimateCollection({n}, "").groups = Groups(Priced(costs), costs)
        /\ EstimateCollection({n}, "").missing = MissingFromTurns(places \ Priced(costs), costs)
    BY WholeFacts
  <2>2. places \ places = {}
    OBVIOUS
  <2> QED BY <1>1, <2>1, <2>2
<1>3. Estimates(costs)
  BY AllCostsFacts
<1> HIDE DEF costs, cost
<1>4. WithoutProfile(places, costs) = {} /\ WithoutProfile({}, costs) = {}
  BY <1>1 DEF WithoutProfile, Priced
<1>5. MissingFromTurns(places, costs) = {} /\ MissingFromTurns({}, costs) = {}
  BY <1>4 DEF MissingFromTurns
<1>6. TotalOf(Groups(places, costs), "cost") = SumOver(places, costs, "cost")
  BY <1>3, GroupsAddUp DEF IsSumOf
<1>7. ASSUME NEW g \in Groups(places, costs) PROVE g.currency = cost.currency
  <2>1. PICK k \in {GroupOf(p, costs) : p \in places} :
          g = ProviderCost(k, {p \in places : GroupOf(p, costs) = k}, costs)
    BY <1>7 DEF Groups
  <2> DEFINE part == {p \in places : GroupOf(p, costs) = k}
  <2>2. part \in SUBSET DOMAIN costs /\ part # {}
    OBVIOUS
  <2>3. g.currency = costs[LastOf(part)].currency
    BY <2>1 DEF ProviderCost
  <2> HIDE DEF part
  <2>4. LastOf(part) \in part
    BY <1>3, <2>2, FirstAndLast
  <2> QED BY <1>1, <2>2, <2>3, <2>4
<1> QED BY <1>1, <1>2, <1>5, <1>6, <1>7 DEF cost

PlacesOfTurns(n, turns, places) == places = {<<n, k>> : k \in turns}

(* Sums over the places of a session are sums over its turns.               *)
LEMMA SumsOverTurns ==
    ASSUME NEW n, NEW turns, IsFiniteSet(turns), NEW places,
           PlacesOfTurns(n, turns, places),
           NEW w, Numbers(w, places), NEW v, \A k \in turns : v[k] = w[<<n, k>>]
    PROVE  SumFunctionOnSet(v, turns) = SumFunctionOnSet(w, places)
<1> DEFINE f == [k \in turns |-> <<n, k>>]
<1>1. \A j, k \in turns : f[j] = f[k] => j = k
  OBVIOUS
<1>2. places = {f[k] : k \in turns}
  BY DEF PlacesOfTurns
<1>3. \A k \in turns : v[k] = w[f[k]]
  OBVIOUS
<1> HIDE DEF f
<1>4. Carries(f, v, turns, w, places)
  BY <1>1, <1>2, <1>3 DEF Carries
<1> QED BY <1>4, SumOfImage

(* What is used is what the turns say.                                      *)
LEMMA UsageIsReported ==
    ASSUME CostType, NEW n \in DOMAIN billed, billed[n].turns # <<>>, EstimateSession(n).available
    PROVE  LET turns == DOMAIN billed[n].turns
               tokens(f) == SumFunctionOnSet([i \in turns |-> billed[n].turns[i].billable[f].value], turns)
               usage == EstimateSession(n).usage
           IN  TotalInput(usage) = tokens("input") /\ usage.output = tokens("output")
<1> DEFINE s == billed[n]
<1> DEFINE turns == DOMAIN s.turns
<1> DEFINE costs == AllCosts({n})
<1> DEFINE places == DOMAIN costs
<1> DEFINE usage == EstimateSession(n).usage
<1> DEFINE input == [i \in turns |-> s.turns[i].billable["input"].value]
<1> DEFINE output == [i \in turns |-> s.turns[i].billable["output"].value]
<1> DEFINE u == [p \in places |-> TotalInput(costs[p].usage)]
<1> DEFINE o == [p \in places |-> costs[p]["usage"]["output"]]
<1>1. /\ Priced(costs) = places /\ usage = SumOver(places, costs, "usage")
  BY SaidCost
<1>2. Estimates(costs) /\ places = PlacesFor({n})
  BY AllCostsFacts
<1>3. /\ places = {<<n, k>> : k \in turns} /\ IsFiniteSet(turns)
  BY <1>2, OwnCosts
<1>4. ASSUME NEW k \in turns
      PROVE  costs[<<n, k>>].usage = BillableTokens(s.turns[k].billable)
  <2>1. <<n, k>> \in places
    BY <1>3
  <2>2. costs[<<n, k>>] = EstimateUsage(TurnModel(s.turns[k], s), s.turns[k].at, s.turns[k].billable)
    <3>1. \A p \in PlacesFor({n}) :
            costs[p] = EstimateUsage(ModelFor(p), TurnFor(p).at, TurnFor(p).billable)
      BY AllCostsFacts
    <3>2. costs[<<n, k>>] = EstimateUsage(ModelFor(<<n, k>>), TurnFor(<<n, k>>).at,
                                            TurnFor(<<n, k>>).billable)
      BY <1>2, <2>1, <3>1
    <3>3. /\ TurnFor(<<n, k>>) = s.turns[k]
          /\ ModelFor(<<n, k>>) = TurnModel(s.turns[k], s)
      BY OwnCosts
    <3> HIDE DEF costs
    <3> QED BY <3>2, <3>3
  <2>3. costs[<<n, k>>].status = "available"
    BY <1>1, <2>1 DEF Priced
  <2>4. \A f \in BillableKinds : s.turns[k].billable[f].value \in Int
    BY OwnCosts
  <2> HIDE DEF costs
  <2> QED BY <2>2, <2>3, <2>4, TurnFacts
<1>5. \A k \in turns : \A f \in BillableKinds : s.turns[k].billable[f].value \in Int
  BY OwnCosts
<1>6. \A k \in turns : /\ TotalInput(costs[<<n, k>>].usage) = s.turns[k].billable.input.value
                       /\ costs[<<n, k>>].usage.output = s.turns[k].billable.output.value
  <2> SUFFICES ASSUME NEW k \in turns
               PROVE  /\ TotalInput(costs[<<n, k>>].usage) = s.turns[k].billable.input.value
                      /\ costs[<<n, k>>].usage.output = s.turns[k].billable.output.value
    OBVIOUS
  <2> DEFINE b == s.turns[k].billable
  <2>1. costs[<<n, k>>].usage = BillableTokens(b)
    BY <1>4
  <2>2. \A f \in BillableKinds : b[f].value \in Int
    BY <1>5
  <2> HIDE DEF b, costs
  <2>3. TotalInput(BillableTokens(b)) = b.input.value /\ BillableTokens(b).output = b.output.value
    BY <2>2 DEF TotalInput, BillableTokens, BillableKinds
  <2> QED BY <2>1, <2>3 DEF b
<1>7. \A p \in places : /\ TotalInput(costs[p].usage) \in Int
                        /\ costs[p].usage.output \in Int
  <2> HIDE DEF costs
  <2>1. \A p \in places : \A part \in CostParts : costs[p].usage[part] \in Int
    BY <1>2 DEF Estimates, IsEstimate
  <2>2. \A p \in places : /\ costs[p].usage.fresh \in Int /\ costs[p].usage.read \in Int
                          /\ costs[p].usage.write \in Int /\ costs[p].usage.output \in Int
    BY <2>1 DEF CostParts
  <2> QED BY <2>2 DEF TotalInput
<1>8. TotalInput(usage) = SumFunctionOnSet(u, places) /\ usage.output = SumFunctionOnSet(o, places)
  <2> HIDE DEF costs
  <2>1. TotalInput(SumOver(places, costs, "usage")) = SumFunctionOnSet(u, places)
    BY <1>2, TotalsAddUp
  <2>2. SumOver(places, costs, "usage").output = SumFunctionOnSet(o, places)
    BY DEF SumOver, CostParts
  <2> HIDE DEF u, o
  <2> QED BY <1>1, <2>1, <2>2
<1>9. Numbers(u, places) /\ Numbers(o, places)
  BY <1>7 DEF Numbers
<1>10. PlacesOfTurns(n, turns, places)
  BY <1>3 DEF PlacesOfTurns
<1>11. \A k \in turns : input[k] = u[<<n, k>>] /\ output[k] = o[<<n, k>>]
  BY <1>3, <1>6
<1> HIDE DEF u, o, input, output, turns, costs, places
<1>12. SumFunctionOnSet(input, turns) = SumFunctionOnSet(u, places)
  BY <1>3, <1>9, <1>10, <1>11, SumsOverTurns
<1>13. SumFunctionOnSet(output, turns) = SumFunctionOnSet(o, places)
  BY <1>3, <1>9, <1>10, <1>11, SumsOverTurns
<1> QED BY <1>8, <1>12, <1>13 DEF input, output, turns


(* What is said to be paid is the exact price, less than four micros a turn
   below.                                                                   *)
LEMMA PriceIsExact ==
    ASSUME CostType, NEW n \in DOMAIN billed, billed[n].turns # <<>>, EstimateSession(n).available
    PROVE  LET s == billed[n]
               turns == DOMAIN s.turns
               exact == SumFunctionOnSet([i \in turns |-> ExactPrice(s.turns[i], s)], turns)
               cost == EstimateSession(n).cost
           IN  (\A i \in turns : \A f \in BillableKinds : s.turns[i].billable[f].value >= 0) /\ exact < Word
                 => /\ Million * Total4(cost) <= exact
                    /\ exact < Million * (Total4(cost) + 4 * Len(s.turns))
<1> DEFINE s == billed[n]
<1> DEFINE turns == DOMAIN s.turns
<1> DEFINE price == [i \in turns |-> ExactPrice(s.turns[i], s)]
<1> DEFINE exact == SumFunctionOnSet(price, turns)
<1> DEFINE costs == AllCosts({n})
<1> DEFINE places == DOMAIN costs
<1> DEFINE cost == EstimateSession(n).cost
<1> DEFINE w == [p \in places |-> Total4(costs[p].cost)]
<1> DEFINE v == [i \in turns |-> Total4(costs[<<n, i>>].cost)]
<1> SUFFICES ASSUME \A i \in turns : \A f \in BillableKinds : s.turns[i].billable[f].value >= 0,
                    exact < Word
             PROVE  /\ Million * Total4(cost) <= exact
                    /\ exact < Million * (Total4(cost) + 4 * Len(s.turns))
  OBVIOUS
<1>1. Priced(costs) = places /\ cost = SumOver(places, costs, "cost")
  BY SaidCost
<1>2. Estimates(costs) /\ places = PlacesFor({n})
  BY AllCostsFacts
<1>3. /\ PlacesOfTurns(n, turns, places) /\ IsFiniteSet(turns)
      /\ Cardinality(turns) = Len(s.turns) /\ Len(s.turns) \in Nat \ {0}
  BY <1>2, OwnCosts DEF PlacesOfTurns
<1>4. \A k \in turns : \A f \in BillableKinds : s.turns[k].billable[f].value \in Nat
  <2>1. \A k \in turns : \A f \in BillableKinds : s.turns[k].billable[f].value \in Int
    BY OwnCosts
  <2> QED BY <2>1
<1>5. ASSUME NEW k \in turns
      PROVE  /\ costs[<<n, k>>] = EstimateUsage(TurnModel(s.turns[k], s), s.turns[k].at, s.turns[k].billable)
             /\ costs[<<n, k>>].status = "available" /\ <<n, k>> \in places
  <2>1. <<n, k>> \in places
    BY <1>3 DEF PlacesOfTurns
  <2>2. \A p \in PlacesFor({n}) :
          costs[p] = EstimateUsage(ModelFor(p), TurnFor(p).at, TurnFor(p).billable)
    BY AllCostsFacts
  <2>3. costs[<<n, k>>] = EstimateUsage(ModelFor(<<n, k>>), TurnFor(<<n, k>>).at,
                                          TurnFor(<<n, k>>).billable)
    BY <1>2, <2>1, <2>2
  <2>4. /\ TurnFor(<<n, k>>) = s.turns[k]
        /\ ModelFor(<<n, k>>) = TurnModel(s.turns[k], s)
    BY OwnCosts
  <2> HIDE DEF costs
  <2>5. costs[<<n, k>>].status = "available"
    BY <1>1, <2>1 DEF Priced
  <2> QED BY <2>1, <2>3, <2>4, <2>5
<1>6. ASSUME NEW k \in turns PROVE price[k] \in Nat
  <2> DEFINE t == s.turns[k]
  <2> DEFINE r == RatesOf(t, s)
  <2>1. \A f \in BillableKinds : t.billable[f].value \in Nat
    BY <1>4
  <2>2. \A f \in BillableKinds : t.billable[f].value \in Int
    BY <2>1
  <2>3. EstimateUsage(TurnModel(t, s), t.at, t.billable).status = "available"
    BY <1>5
  <2>4. price[k] = ExactPrice(t, s)
    OBVIOUS
  <2> HIDE DEF t, s, costs, price
  <2>5. Billable(t.billable) /\ r \in [RateKinds -> Nat]
    BY <2>2, <2>3, TurnFacts
  <2> DEFINE one(part) == BillableTokens(t.billable)[part] * Rate(r, part)
  <2>6. /\ \A part \in CostParts : one(part) \in Nat
        /\ ExactPrice(t, s) = one("fresh") + one("read") + one("write") + one("output")
    BY <2>1, <2>5, ExactPriceFacts
  <2> HIDE DEF one
  <2>7. one("fresh") \in Nat /\ one("read") \in Nat /\ one("write") \in Nat /\ one("output") \in Nat
    BY <2>6 DEF CostParts
  <2> QED BY <2>4, <2>6, <2>7
<1>7. Numbers(price, turns)
  <2> HIDE DEF price, turns
  <2>1. \A k \in turns : price[k] \in Nat
    BY <1>6
  <2> QED BY <2>1 DEF Numbers
<1>8. ASSUME NEW k \in turns PROVE price[k] <= exact
  <2> HIDE DEF price, turns
  <2>1. exact = price[k] + SumFunctionOnSet(price, turns \ {k})
    BY <1>3, <1>7, SumFacts
  <2>2. IsFiniteSet(turns \ {k}) /\ Numbers(price, turns \ {k}) /\ \A i \in turns \ {k} : price[i] >= 0
    BY <1>3, <1>6, <1>7, FS_RemoveElement DEF Numbers
  <2>3. SumFunctionOnSet(price, turns \ {k}) \in Int /\ SumFunctionOnSet(price, turns \ {k}) >= 0
    BY <2>2, SumFacts, SumNotNegative
  <2> QED BY <1>6, <2>1, <2>3
<1>9. exact \in Int
  <2> HIDE DEF price, turns
  <2> QED BY <1>3, <1>7, SumFacts
<1>10. Word \in Nat /\ Million \in Nat
  BY PriceAssumption DEF PriceAssumption
<1>11. \A p \in places : Total4(costs[p].cost) \in Int
  <2> HIDE DEF costs
  <2>1. \A p \in places : \A part \in CostParts : costs[p].cost[part] \in Int
    BY <1>2 DEF Estimates, IsEstimate
  <2>2. \A p \in places : /\ costs[p].cost.fresh \in Int /\ costs[p].cost.read \in Int
                          /\ costs[p].cost.write \in Int /\ costs[p].cost.output \in Int
    BY <2>1 DEF CostParts
  <2> QED BY <2>2 DEF Total4
<1>12. /\ Numbers(w, places) /\ Numbers(v, turns) /\ \A k \in turns : v[k] = w[<<n, k>>]
  BY <1>5, <1>11 DEF Numbers
<1>13. Total4(cost) = SumFunctionOnSet(w, places)
  <2> HIDE DEF costs
  <2>1. Total4(SumOver(places, costs, "cost")) = SumFunctionOnSet(w, places)
    BY <1>2, TotalsAddUp
  <2> QED BY <1>1, <2>1
<1>14. Within4(Million, v, price, turns)
  <2> SUFFICES ASSUME NEW k \in turns
               PROVE  Million * v[k] <= price[k] /\ price[k] + 1 <= Million * (v[k] + 4)
    BY DEF Within4
  <2> DEFINE t == s.turns[k]
  <2> DEFINE c == EstimateUsage(TurnModel(t, s), t.at, t.billable).cost
  <2>1. price[k] = ExactPrice(t, s)
    OBVIOUS
  <2>2. v[k] = Total4(c)
    BY <1>5
  <2>3. ExactPrice(t, s) < Word
    <3>1. price[k] \in Nat /\ price[k] <= exact
      BY <1>6, <1>8
    <3> HIDE DEF price, exact, t
    <3> QED BY <1>9, <1>10, <2>1, <3>1 DEF exact
  <2>4. \A f \in BillableKinds : t.billable[f].value \in Nat
    BY <1>4
  <2>5. EstimateUsage(TurnModel(t, s), t.at, t.billable).status = "available"
    BY <1>5
  <2> HIDE DEF t, s, v, price
  <2>6. Million * Total4(c) <= ExactPrice(t, s) /\ ExactPrice(t, s) + 1 <= Million * (Total4(c) + 4)
    BY <2>3, <2>4, <2>5, TurnBounds
  <2> QED BY <2>1, <2>2, <2>6
<1> DEFINE total == SumFunctionOnSet(v, turns)
<1> HIDE DEF w, v, price, turns, places, costs
<1>15. total = SumFunctionOnSet(w, places)
  BY <1>3, <1>12, SumsOverTurns
<1>16. /\ Million * total <= exact
       /\ exact + Cardinality(turns) <= Million * (total + 4 * Cardinality(turns))
  BY <1>3, <1>7, <1>10, <1>12, <1>14, SumsWithin
<1> DEFINE bound == Million * (total + 4 * Cardinality(turns))
<1>17. bound \in Int
  <2>1. total \in Int /\ Cardinality(turns) \in Nat
    BY <1>3, <1>12, SumFacts
  <2> HIDE DEF total
  <2> QED BY <1>10, <2>1
<1>18. exact < bound
  <2>1. exact + Cardinality(turns) <= bound /\ Cardinality(turns) \in Nat \ {0}
    BY <1>3, <1>16
  <2> HIDE DEF bound, exact
  <2> QED BY <1>9, <1>17, <2>1 DEF exact
<1> QED BY <1>3, <1>13, <1>15, <1>16, <1>18 DEF price, turns

(* A session's cost is the price of the tokens it reports, each at the rates  *)
(* of its profile and charged once, less than four micros a turn below, and   *)
(* `tok cost --all` says the same (EstimateSession, costMicros).              *)
THEOREM SessionIsPriced == CostSpec => []SessionCostIsItsPrice
<1>1. CostType => SessionCostIsItsPrice
  <2> SUFFICES ASSUME CostType, NEW n \in DOMAIN billed
               PROVE  LET s == billed[n]
                          cost == EstimateSession(n)
                          alone == EstimateCollection({n}, "")
                          turns == DOMAIN s.turns
                          exact == SumFunctionOnSet([i \in turns |-> ExactPrice(s.turns[i], s)], turns)
                          tokens(f) == SumFunctionOnSet([i \in turns |-> s.turns[i].billable[f].value], turns)
                          counts == \A i \in turns : \A f \in BillableKinds : s.turns[i].billable[f].value >= 0
                      IN  s.turns # <<>> /\ cost.available =>
                            /\ counts /\ exact < Word =>
                                 /\ Million * Total4(cost.cost) <= exact
                                 /\ exact < Million * (Total4(cost.cost) + 4 * Len(s.turns))
                            /\ TotalInput(cost.usage) = tokens("input")
                            /\ cost.usage.output = tokens("output")
                            /\ cost.missing = {} /\ alone.missing = {}
                            /\ \A g \in alone.groups : g.currency = cost.currency
                            /\ cost.cost = TotalOf(alone.groups, "cost")
    BY DEF SessionCostIsItsPrice
  <2> QED BY PriceIsExact, UsageIsReported, SaidAlone
<1> QED BY <1>1, CostTypeHolds, PTL
==============================================================================
