--------------------------- MODULE MCPricingStore ---------------------------
(* PricingStore on small instances.  Names 1 and 2 are models without a    *)
(* profile, 3 and 4 are in the embedded catalog.                           *)
EXTENDS PricingStore, TLC

Interchangeable == Permutations(Commands)

Profile(provider, sku, names, from) ==
    [provider |-> provider, sku |-> sku, names |-> names, from |-> from]

Addition(provider, sku, model) == [provider |-> provider, sku |-> sku, model |-> model]

(* Two providers sell model 4.                                             *)
EmbeddedHere == {Profile(1, 3, {3, 4}, 0), Profile(2, 4, {4}, 0)}

(* A price that changes at date 1; a catalog that does not validate; one   *)
(* that names an embedded profile by another SKU.                          *)
PublishedHere ==
    << {Profile(1, 3, {3, 4}, 0), Profile(1, 3, {3, 4}, 1)},
       {Profile(1, 1, {1, 2}, 0), Profile(1, 2, {2}, 0)},
       {Profile(1, 1, {1, 4}, 0)} >>

(* Two models under one SKU, the second of them under another SKU too, and *)
(* the same SKU of another provider.                                       *)
PlainAdditions == {Addition(1, 1, 4), Addition(1, 1, 2), Addition(1, 3, 2), Addition(2, 1, 4)}

(* Model 1 under SKU 2, then model 4 under SKU 1.                          *)
CrossedAdditions == {Addition(1, 2, 1), Addition(1, 1, 4), Addition(1, 3, 3)}
=============================================================================
