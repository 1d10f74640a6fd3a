------------------------------ MODULE Catalogue ------------------------------
(***************************************************************************)
(* The variants of merchandise (merchandise): a product is created with all *)
(* of its variants or not at all, a variant is added at the end of its      *)
(* product, and SKUs are unique over all products.  The database decides:   *)
(* an insert waits while another transaction holds its SKU uncommitted, and *)
(* of two transactions that wait for each other one is aborted.             *)
(***************************************************************************)
EXTENDS Calls, Naturals, FiniteSets, Sequences
CONSTANTS Generated,           \* product -> the SKUs generated for it, in order: base, base-2, ...
          Typed,               \* the SKUs an administrator types
          Editors, MaxPlace    \* MaxPlace bounds the run
ASSUME CatalogueAssumption == Free \notin DOMAIN Generated \cup {"creating", "adding", "placing"} /\ MaxPlace \in Nat
VARIABLES product,             \* "absent", "there", "hidden" (soft delete)
          variant,             \* rows [of, sku, place]; the SKU stands for the id
          edit,                \* calls in progress
          given                \* history: how many variants the answers say each product has
catalogueVars == <<product, variant, edit, given>>

Products == DOMAIN Generated
NoEdit == [at |-> Free, of |-> Free, skus |-> <<>>, written |-> 0, place |-> 0]
CatalogueTypeOK ==
  /\ product \in [Products -> {"absent", "there", "hidden"}] /\ given \in [Products -> Nat]
  /\ \A v \in variant : v.of \in Products /\ v.place \in Nat
CatalogueInit ==
  /\ product = [p \in Products |-> "absent"] /\ variant = {}
  /\ edit = [e \in Editors |-> NoEdit] /\ given = [p \in Products |-> 0]

Submits(e, step) == edit[e].at = Free /\ edit' = [edit EXCEPT ![e] = step]
Answers(e) == edit' = [edit EXCEPT ![e] = NoEdit]
Of(p) == {v \in variant : v.of = p}
SkuTaken(s) == \E v \in variant : v.sku = s
\* Rows a transaction has written are seen by the unique index before they are committed.
Held(s) == {e \in Editors : \E i \in 1..edit[e].written : edit[e].skus[i] = s}

\* resolveVariants: the name typed, which is refused if it is taken, or the first generated one that is not.
ResolveVariant(p, taken) == (Typed \ taken) \cup
  {Generated[p][i] : i \in {j \in DOMAIN Generated[p] : /\ Generated[p][j] \notin taken
                                                        /\ \A k \in 1..(j - 1) : Generated[p][k] \in taken}}

-----------------------------------------------------------------------------
(* A new product and its variants, inserted one by one in one transaction. *)
CreateProduct(e) == \E p \in Products :
  /\ product[p] = "absent" /\ \A f \in Editors : edit[f].of # p
  /\ \E s1 \in ResolveVariant(p, {}) : \E s2 \in ResolveVariant(p, {s1}) :
       Submits(e, [NoEdit EXCEPT !.at = "creating", !.of = p, !.skus = <<s1, s2>>])
  /\ UNCHANGED <<product, variant, given>>
Unwritten(e) == edit[e].at = "creating" /\ edit[e].written < Len(edit[e].skus)
NextSku(e) == edit[e].skus[edit[e].written + 1]
InsertVariant(e) ==
  /\ Unwritten(e) /\ Held(NextSku(e)) = {} /\ ~SkuTaken(NextSku(e))
  /\ edit' = [edit EXCEPT ![e].written = @ + 1]
  /\ UNCHANGED <<product, variant, given>>
Written(e) == {[of |-> edit[e].of, sku |-> edit[e].skus[i], place |-> i - 1] : i \in 1..edit[e].written}
CommitProduct(e) == LET p == edit[e].of IN
  /\ edit[e].at = "creating" /\ ~Unwritten(e)
  /\ product' = [product EXCEPT ![p] = "there"] /\ variant' = variant \cup Written(e)
  /\ given' = [given EXCEPT ![p] = edit[e].written] /\ Answers(e)
RollsBack(e) == Answers(e) /\ UNCHANGED <<product, variant, given>>
SkuConflict(e) == Unwritten(e) /\ SkuTaken(NextSku(e)) /\ RollsBack(e)
WaitsFor(e) == IF Unwritten(e) THEN Held(NextSku(e)) ELSE {}
DeadlockAborts(e) == (\E f \in WaitsFor(e) : e \in WaitsFor(f)) /\ RollsBack(e)

-----------------------------------------------------------------------------
(* Single variants.  Generated names avoid those read before the transaction. *)
AddVariant(e) == \E p \in Products : \E s \in ResolveVariant(p, {v.sku : v \in Of(p)}) :
  /\ product[p] = "there"
  /\ Submits(e, [NoEdit EXCEPT !.at = "adding", !.of = p, !.skus = <<s>>])
  /\ UNCHANGED <<product, variant, given>>
AnyTime(p) == TRUE
RowLockFree(p) == \A f \in Editors : edit[f].at = "placing" => edit[f].of # p
NextPlace(p) == IF Of(p) = {} THEN 0 ELSE 1 + (CHOOSE n \in {v.place : v \in Of(p)} : \A v \in Of(p) : v.place <= n)
\* createVariant: lock the product's row and read the last position; insert, unless the SKU is taken.
LockProduct(e) == LET p == edit[e].of IN
  /\ edit[e].at = "adding" /\ RowLockFree(p) /\ NextPlace(p) <= MaxPlace
  /\ edit' = [edit EXCEPT ![e].at = "placing", ![e].place = NextPlace(p)]
  /\ UNCHANGED <<product, variant, given>>
CreateVariant(e) == LET p == edit[e].of  s == edit[e].skus[1] IN
  /\ edit[e].at = "placing" /\ Held(s) = {} /\ Answers(e) /\ UNCHANGED product
  /\ IF SkuTaken(s) THEN UNCHANGED <<variant, given>>
     ELSE /\ variant' = variant \cup {[of |-> p, sku |-> s, place |-> edit[e].place]}
          /\ given' = [given EXCEPT ![p] = @ + 1]
\* Size, colour and stock are edited in place too; only the name can clash.
UpdateVariant == \E v \in variant, s \in Typed :
  /\ product[v.of] = "there" /\ ~SkuTaken(s) /\ Held(s) = {}
  /\ variant' = (variant \ {v}) \cup {[v EXCEPT !.sku = s]}
  /\ UNCHANGED <<product, edit, given>>
\* A hard delete; order rows keep the text they copied.
RemoveVariant == \E v \in variant :
  /\ product[v.of] = "there" /\ variant' = variant \ {v}
  /\ given' = [given EXCEPT ![v.of] = @ - 1] /\ UNCHANGED <<product, edit>>
\* A soft delete: the variants stay.
RemoveProduct == \E p \in Products :
  /\ product[p] = "there" /\ RowLockFree(p) /\ product' = [product EXCEPT ![p] = "hidden"]
  /\ UNCHANGED <<variant, edit, given>>

EditStep(e) == CreateProduct(e) \/ InsertVariant(e) \/ CommitProduct(e) \/ SkuConflict(e) \/ DeadlockAborts(e)
               \/ AddVariant(e) \/ LockProduct(e) \/ CreateVariant(e)
CatalogueNext == UpdateVariant \/ RemoveVariant \/ RemoveProduct \/ \E e \in Editors : EditStep(e)
CatalogueSpec == CatalogueInit /\ [][CatalogueNext]_catalogueVars

-----------------------------------------------------------------------------
(* Properties. *)

\* "A partially written variant set is a silent data-integrity failure": a product has exactly the variants
\* that were answered for, each at a place of its own, and no two variants of the catalogue share a SKU,
\* whatever creations, additions and refusals overlap.
VariantsComplete ==
  /\ CatalogueTypeOK
  /\ \A p \in Products : Cardinality({v.place : v \in Of(p)}) = given[p]
  /\ Cardinality({v.sku : v \in variant}) = Cardinality(variant)
=============================================================================
