------------------------------ MODULE MC_AMTree ------------------------------
(* One AMT of four leaves, and the parameters of an AMT of eight: the tree takes
   from them what Params!IdentProve says. *)
EXTENDS AMTree

CONSTANTS Prime, RootOfUnity, Taus, Scalars, ScalarBits, SlotBits, SlotCount, CachedIndex,
          MaxCalls, Missing, Partial, Unloaded, ParamsDepths

ASSUME ParamsConstants ==
  /\ ParamsDepths \in Nat \ {0} /\ Prime \in Nat \ {0, 1} /\ RootOfUnity \in Nat
  /\ ScalarBits \in Nat /\ SlotBits \in Nat /\ SlotCount \in Nat
  /\ Taus \subseteq Nat /\ CachedIndex \subseteq 0..(2^ParamsDepths - 1)
  /\ \A i \in 2..(Prime - 1) : Prime % i # 0
  /\ \A s \in Scalars : s \in 0..(2^ScalarBits - 1)
  \* a field: the root and the size of the domain have inverses
  /\ \E y \in 0..(Prime - 1) : (RootOfUnity * y) % Prime = 1
  /\ \E y \in 0..(Prime - 1) : ((2^ParamsDepths % Prime) * y) % Prime = 1

VARIABLES power_tau, amt_params, pp, params, indents_cache, quotients_cache, stage, calls,
          checked   \* what this behaviour is about

paramVars == <<power_tau, amt_params, pp, params, indents_cache, quotients_cache, stage, calls>>

Params == INSTANCE AMTParams WITH Depths <- ParamsDepths

(* RootOfUnity is of order 2^ParamsDepths. *)
ASSUME RootConstants ==
  /\ \A i \in 1..(2^ParamsDepths - 1) : Params!Pow(RootOfUnity, i) # 1
  /\ Params!Pow(RootOfUnity, 2^ParamsDepths) = 1

(* A file with powers is told from one that is missing or incomplete. *)
ASSUME FileConstants == \A tau \in Taus : Params!Setup(tau) \notin {Missing, Partial}

(* The full tree, and the first shard of two (lvmt.rs passes shard index 0).  The
   trees of other shards have no inner nodes and nothing to prove. *)
FullAndHalfTree == {RootNode, NodeAt(1, 0)}

MCInit ==
  /\ Init
  /\ \/ /\ checked = "tree"
        /\ power_tau = Unloaded /\ amt_params = Unloaded /\ pp = Unloaded /\ params = Unloaded
        /\ indents_cache = Unloaded /\ quotients_cache = Unloaded
        /\ stage = Unloaded /\ calls = Unloaded
     \/ /\ checked = "params"
        /\ Params!Init
        /\ shard_root = RootNode

MCNext ==
  /\ UNCHANGED checked
  /\ \/ checked = "tree" /\ Next /\ UNCHANGED paramVars
     \/ checked = "params" /\ Params!Next /\ UNCHANGED vars

MCSpec == MCInit /\ [][MCNext]_<<vars, paramVars, checked>>

(* See AMTParams: the quotients divide the commitments at every depth. *)
IdentProve == Params!IdentProve

(* See AMTParams: cached multiples give the same products. *)
PowersExact == Params!PowersExact

(* See AMTParams: the two files give the same parameters. *)
AgreesWithPowers == Params!AgreesWithPowers
==============================================================================
