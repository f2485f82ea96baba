---------------------------- MODULE PricingStore ----------------------------
(***************************************************************************)
(* internal/pricing: the override file, the cached catalog and its         *)
(* metadata, and the processes that read and replace them without a lock:  *)
(*                                                                         *)
(*   pricing add      reads the override file, then renames a new one      *)
(*   pricing update   reads the metadata, asks the remote conditionally,   *)
(*                    renames the catalog, then the metadata               *)
(*   pricing list     (and show, status, cost) reads the cached catalog,   *)
(*                    then the override, and merges                        *)
(*                                                                         *)
(* Every file is replaced by renaming a temporary one, which is atomic.    *)
(* Names stand for the lower-cased strings that the code compares folded.  *)
(* Rates and tiers are left out: no step here looks at them.               *)
(*                                                                         *)
(* Environment: the remote never publishes an earlier catalog again, so    *)
(* that an entity tag names one catalog.  Published bounds what it         *)
(* publishes, Additions what users add.                                    *)
(***************************************************************************)
EXTENDS Integers, Sequences, FiniteSets

CONSTANTS
    Commands,       \* invocations of tok that may run at once
    Providers,
    Names,          \* SKUs, models and aliases, as numbers: SKUs are ordered
    Dates,          \* of effect; 0 stands for none
    Embedded,       \* the catalog compiled in
    Published,      \* what the remote publishes, one catalog after another
    Additions       \* the profiles of `pricing add`

(* A profile; "names" holds its model, its SKU and its aliases.             *)
Profiles == [provider : Providers, sku : Names, names : SUBSET Names, from : Dates]

Versions == 1 .. Len(Published)

(* "none" is version 0: no file, or a file without a tag.                   *)
None == 0

Keys(p) == {p.provider} \X p.names

(* Catalog.Validate: profiles that share an alias are of one SKU and of     *)
(* different dates.                                                         *)
Valid(catalog) ==
    \A p, q \in catalog :
        p # q /\ Keys(p) \cap Keys(q) # {} => p.sku = q.sku /\ p.from # q.from

ASSUME ProvidersAssumption == Providers \subseteq Int
ASSUME NamesAssumption == Names \subseteq Int
ASSUME DatesAssumption == Dates \subseteq Nat /\ 0 \in Dates
ASSUME EmbeddedAssumption == Embedded \subseteq Profiles /\ Valid(Embedded)
ASSUME PublishedAssumption == Published \in Seq(SUBSET Profiles)
ASSUME FiniteAssumption ==      \* a catalog is a file's array
    IsFiniteSet(Embedded) /\ \A v \in Versions : IsFiniteSet(Published[v])
ASSUME AdditionsAssumption ==
    Additions \subseteq [provider : Providers, sku : Names, model : Names]

Steps == {"idle", "rename", "asked", "catalog", "meta", "list", "merge", "listed"}

VARIABLES
    remote,         \* the version the remote serves
    catalogFile,    \* the version cached in catalog.json
    metaFile,       \* the tag in catalog.meta.json
    override,       \* the profiles of the override file; {} when absent
    step,           \* what each invocation does next
    readOverride,   \* the override file as an invocation has read it
    request,        \* the profile an invocation adds, if any
    version,        \* the tag asked with, the version answered or listed
    saved,          \* what `pricing add` has saved and nothing replaced since
    raced           \* the files that two invocations replaced at once

files == <<remote, catalogFile, metaFile, override>>
locals == <<step, readOverride, request, version>>
ghosts == <<saved, raced>>
vars == <<files, locals, ghosts>>

TypeOK ==
    /\ remote \in Versions \cup {None}
    /\ catalogFile \in Versions \cup {None}
    /\ metaFile \in Versions \cup {None}
    /\ override \subseteq Profiles
    /\ step \in [Commands -> Steps]
    /\ readOverride \in [Commands -> SUBSET Profiles]
    /\ request \in [Commands -> SUBSET Additions]
    /\ version \in [Commands -> Versions \cup {None}]
    /\ saved \subseteq Profiles
    /\ raced \subseteq {"override", "cache"}

Init ==
    /\ remote = None
    /\ catalogFile = None
    /\ metaFile = None
    /\ override = {}
    /\ step = [c \in Commands |-> "idle"]
    /\ readOverride = [c \in Commands |-> {}]
    /\ request = [c \in Commands |-> {}]
    /\ version = [c \in Commands |-> None]
    /\ saved = {}
    /\ raced = {}

(* The process keeps what it read.                                          *)
KeepsRequest(c) ==
    /\ step' = [step EXCEPT ![c] = "idle"]
    /\ readOverride' = [readOverride EXCEPT ![c] = request[c]]
    /\ request' = [request EXCEPT ![c] = {}]
    /\ version' = [version EXCEPT ![c] = None]

(* The process ends; what it held is gone.                                  *)
Return(c) ==
    /\ step' = [step EXCEPT ![c] = "idle"]
    /\ readOverride' = [readOverride EXCEPT ![c] = {}]
    /\ request' = [request EXCEPT ![c] = {}]
    /\ version' = [version EXCEPT ![c] = None]

-----------------------------------------------------------------------------
(* pricing add. *)

Saved(r) == [provider |-> r.provider, sku |-> r.sku, names |-> {r.sku, r.model}, from |-> 0]

(* Adding does not look at the models of what is there.                     *)
ComparesSkus(catalog, r) ==
    {q \in catalog : q.provider = r.provider /\ q.sku = r.sku}

(* Replacing forgets to compare the provider.                               *)
AnyProvider(catalog, r) ==
    {q \in catalog : q.sku = r.sku \/ r.model \in q.names}

(* What HasProviderProfile finds and replaceProviderModel drops.            *)
Displaced(catalog, r) ==
    {q \in catalog : q.provider = r.provider /\ (q.sku = r.sku \/ r.model \in q.names)}

(* A file that does not decode, or a profile that is there and not to be    *)
(* replaced, is an error and changes nothing.                               *)
ReadOverride(c, r, replace) ==
    /\ step[c] = "idle"
    /\ Valid(override)
    /\ replace \/ Displaced(override, r) = {}
    /\ step' = [step EXCEPT ![c] = "rename"]
    /\ readOverride' = [readOverride EXCEPT ![c] = override]
    /\ request' = [request EXCEPT ![c] = {r}]
    /\ UNCHANGED <<files, ghosts, version>>

RenameOverride(c) ==
    /\ step[c] = "rename"
    /\ \E r \in request[c] :
        /\ override' = (readOverride[c] \ Displaced(readOverride[c], r)) \cup {Saved(r)}
        /\ saved' = {p \in saved : Keys(p) \cap Keys(Saved(r)) = {}} \cup {Saved(r)}
    /\ raced' = IF override = readOverride[c] THEN raced ELSE raced \cup {"override"}
    /\ Return(c)
    /\ UNCHANGED <<remote, catalogFile, metaFile>>

-----------------------------------------------------------------------------
(* pricing update. *)

Publish ==
    /\ remote < Len(Published)
    /\ remote' = remote + 1
    /\ UNCHANGED <<catalogFile, metaFile, override, locals, ghosts>>

Updating(c) == step[c] \in {"asked", "catalog", "meta"}

(* Update reads the tag and sends it.                                       *)
Ask(c) ==
    /\ step[c] = "idle"
    /\ step' = [step EXCEPT ![c] = "asked"]
    /\ version' = [version EXCEPT ![c] = metaFile]
    /\ raced' = IF \E d \in Commands : Updating(d) THEN raced \cup {"cache"} ELSE raced
    /\ UNCHANGED <<files, readOverride, request, saved>>

(* 304: the active catalog is reported.                                     *)
NotModified(c) ==
    /\ step[c] = "asked"
    /\ remote # None
    /\ version[c] = remote
    /\ step' = [step EXCEPT ![c] = "list"]
    /\ UNCHANGED <<files, ghosts, readOverride, request, version>>

(* The body is written before it is decoded.                                *)
KeepsAnyBody(c) ==
    /\ step[c] = "asked"
    /\ remote # None
    /\ version[c] # remote
    /\ step' = [step EXCEPT ![c] = "catalog"]
    /\ version' = [version EXCEPT ![c] = remote]
    /\ UNCHANGED <<files, ghosts, readOverride, request>>

(* 200: the body is kept if it decodes; if not, updateFailed.               *)
Download(c) ==
    /\ step[c] = "asked"
    /\ remote # None
    /\ version[c] # remote
    /\ Valid(Published[remote])
    /\ step' = [step EXCEPT ![c] = "catalog"]
    /\ version' = [version EXCEPT ![c] = remote]
    /\ UNCHANGED <<files, ghosts, readOverride, request>>

(* The tag is written first.                                                *)
WritesMetaFirst(c) ==
    /\ step[c] = "catalog"
    /\ metaFile' = version[c]
    /\ step' = [step EXCEPT ![c] = "meta"]
    /\ UNCHANGED <<remote, catalogFile, override, ghosts, readOverride, request, version>>

WriteCatalog(c) ==
    /\ step[c] = "catalog"
    /\ catalogFile' = version[c]
    /\ step' = [step EXCEPT ![c] = "meta"]
    /\ UNCHANGED <<remote, metaFile, override, ghosts, readOverride, request, version>>

(* The answer carried a tag or none.                                        *)
WriteMeta(c) ==
    /\ step[c] = "meta"
    /\ metaFile' \in {version[c], None}
    /\ Return(c)
    /\ UNCHANGED <<remote, catalogFile, override, ghosts>>

-----------------------------------------------------------------------------
(* Store.Active, which every command that shows a price calls. *)

List(c) ==
    /\ step[c] = "idle"
    /\ step' = [step EXCEPT ![c] = "list"]
    /\ UNCHANGED <<files, ghosts, readOverride, request, version>>

ReadCache(c) ==
    /\ step[c] = "list"
    /\ step' = [step EXCEPT ![c] = "merge"]
    /\ version' = [version EXCEPT ![c] = catalogFile]
    /\ UNCHANGED <<files, ghosts, readOverride, request>>

(* An override that does not decode fails the command.                      *)
MergeOverride(c) ==
    /\ step[c] = "merge"
    /\ Valid(override)
    /\ step' = [step EXCEPT ![c] = "listed"]
    /\ readOverride' = [readOverride EXCEPT ![c] = override]
    /\ UNCHANGED <<files, ghosts, request, version>>

(* The invocation fails, is killed, or is done: a failed request, a failed  *)
(* write and an override that does not decode end it like a kill does.      *)
Stop(c) ==
    /\ step[c] # "idle"
    /\ Return(c)
    /\ UNCHANGED <<files, ghosts>>

-----------------------------------------------------------------------------
Next ==
    \/ Publish
    \/ \E c \in Commands :
        \/ \E r \in Additions, replace \in BOOLEAN : ReadOverride(c, r, replace)
        \/ RenameOverride(c)
        \/ Ask(c) \/ NotModified(c) \/ Download(c)
        \/ WriteCatalog(c) \/ WriteMeta(c)
        \/ List(c) \/ ReadCache(c) \/ MergeOverride(c)
        \/ Stop(c)

Spec == Init /\ [][Next]_vars

-----------------------------------------------------------------------------
(* What a command that lists sees. *)

Sources == {"override", "cache", "embedded"}

Rank == [s \in Sources |->
    CASE s = "override" -> 3 [] s = "cache" -> 2 [] s = "embedded" -> 1]

(* setCatalogSource.                                                        *)
From(catalog, source) == {[profile |-> p, source |-> source] : p \in catalog}

(* mergeCatalogs: a base profile that shares any alias goes.                *)
Merge(base, higher) ==
    higher \cup {e \in base : \A h \in higher : Keys(e.profile) \cap Keys(h.profile) = {}}

(* readCache: a cache that is missing or does not decode is passed over.    *)
Cached(v) == IF v = None \/ ~Valid(Published[v]) THEN {} ELSE Published[v]

Active(v, overrides) ==
    Merge(Merge(From(Embedded, "embedded"), From(Cached(v), "cache")),
          From(overrides, "override"))

(* A listing without a date takes every profile, as one at the last date    *)
(* does.                                                                    *)
InEffect(p, name, date) == name \in p.names /\ p.from <= date

(* Later dates come before higher sources.                                  *)
DateFirst(d, e) ==
    \/ d.profile.from > e.profile.from
    \/ /\ d.profile.from = e.profile.from
       /\ Rank[d.source] > Rank[e.source]

(* profileAfter, and the order in which sortProfiles leaves the rest.       *)
Before(d, e) ==
    \/ Rank[d.source] > Rank[e.source]
    \/ /\ d.source = e.source
       /\ \/ d.profile.from > e.profile.from
          \/ /\ d.profile.from = e.profile.from
             /\ \/ d.profile.sku < e.profile.sku
                \/ d.profile.sku = e.profile.sku /\ d.profile.provider < e.profile.provider

(* Catalog.Resolve: the entries that no other comes before.                 *)
Resolve(catalog, name, date) ==
    LET matches == {e \in catalog : InEffect(e.profile, name, date)}
    IN  {e \in matches : \A d \in matches : ~Before(d, e)}

-----------------------------------------------------------------------------
(* Properties. *)

(* No `pricing add` of some profile names, as its SKU, the model of another *)
(* SKU of the same provider.                                                *)
SkusNameThemselves ==
    \A r, s \in Additions :
        r.provider = s.provider /\ r.sku \in {s.sku, s.model} => r.sku = s.sku

(* Adds alone never leave an override file that the next command cannot     *)
(* read, even when they run at once (AddOverride does not validate what it  *)
(* writes).                                                                 *)
OverrideReadable == SkusNameThemselves => Valid(override)

(* Unless two adds run at once, the override file holds what they saved and *)
(* was not replaced since, and nothing else: HasProviderProfile and         *)
(* replaceProviderModel drop what shares an alias with the new profile and  *)
(* no more.                                                                 *)
AddedIsKept ==
    SkusNameThemselves /\ "override" \notin raced => override = saved

(* Unless two updates run at once, a remote that answers 304 is answered by *)
(* a cache that holds its catalog, whatever crashed before: writeCache      *)
(* writes the catalog before the tag that vouches for it.                   *)
NotModifiedIsCurrent ==
    "cache" \notin raced =>
        \A c \in Commands :
            step[c] = "asked" /\ remote # None /\ version[c] = remote
                => catalogFile = remote

(* The cache only ever holds a catalog that decodes, whatever is published  *)
(* and however updates overlap (README, "last-known-good").                 *)
LastKnownGood == catalogFile # None => Valid(Published[catalogFile])

(* Whatever a listing merges, a name resolves to one profile, and to one of *)
(* the override file's if any of these is in effect.                        *)
ResolvesByPrecedence ==
    \A c \in Commands : step[c] = "listed" =>
        \A name \in Names, date \in Dates :
            LET found == Resolve(Active(version[c], readOverride[c]), name, date)
            IN  /\ \A d, e \in found : d = e
                /\ (\E p \in readOverride[c] : InEffect(p, name, date))
                        => \E e \in found : e.source = "override"

(* TestPricingAddPersistsOverrideAndShowResolves: a profile that an add has *)
(* saved is in the override file, and a later command reads that file.      *)
AddPersistsAndResolves == saved \subseteq override /\ Valid(override)

=============================================================================
