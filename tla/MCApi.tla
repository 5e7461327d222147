-------------------------------- MODULE MCApi --------------------------------
(***************************************************************************)
(* Four parts of the API share no variable: the indexing of concluded      *)
(* cases, the store of datasets with its handoffs and purges, trusted      *)
(* conversions, and the cache of inspections.  The run explores each of    *)
(* them, the others at rest: the sum of their state spaces, not the        *)
(* product.                                                                *)
(***************************************************************************)
EXTENDS CaseIndexing, DatasetStore, TrustedConversion, InspectionCache

VARIABLE part

all == <<part, vars, storeVars, conversionVars, cacheVars>>

ApiInit ==
  /\ part \in {"indexing", "store", "conversion", "inspections"}
  /\ Init
  /\ StoreInit
  /\ ConversionInit
  /\ CacheInit
  /\ part # "indexing" => state = "draft"

ApiNext ==
  /\ \/ /\ part = "indexing"
        /\ Next
        /\ UNCHANGED <<storeVars, conversionVars, cacheVars>>
     \/ /\ part = "store"
        /\ StoreNext
        /\ UNCHANGED <<vars, conversionVars, cacheVars>>
     \/ /\ part = "conversion"
        /\ ConversionNext
        /\ UNCHANGED <<vars, storeVars, cacheVars>>
     \/ /\ part = "inspections"
        /\ CacheNext
        /\ UNCHANGED <<vars, storeVars, conversionVars>>
  /\ UNCHANGED part

ApiSpec ==
  /\ ApiInit /\ [][ApiNext]_all
  /\ Fairness
  /\ ConversionFairness

(* Every variable of the parts holds what the code may put there.          *)
ApiTypesOK == TypeOK /\ StoreTypeOK /\ ConversionTypeOK /\ CacheTypeOK

=============================================================================
