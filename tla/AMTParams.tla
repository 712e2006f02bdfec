------------------------------ MODULE AMTParams ------------------------------
(***************************************************************************)
(* The public parameters of the AMTs (lvmt-db/src/crypto): how they are    *)
(* computed from the powers of a secret tau, kept in two files, and raised *)
(* to scalars with caches of their multiples.                              *)
(*                                                                         *)
(* A group element is modelled by its logarithm with respect to the        *)
(* generator, an element of the scalar field of order Prime: points add as *)
(* their logarithms do, and the pairing of two points multiplies them.     *)
(***************************************************************************)
EXTENDS Integers

Sets == INSTANCE FiniteSetsExt

CONSTANTS
  Depths,        \* expected_depth
  Prime,         \* order of the scalar field
  RootOfUnity,   \* of order 2^Depths
  Taus,          \* the secrets a setup may have drawn
  Scalars,       \* what points are multiplied with
  ScalarBits,    \* width of a scalar
  SlotBits,      \* width of the fields of a scalar that warm_quotient prepares,
  SlotCount,     \*   and their number: 40 and 6
  CachedIndex,   \* bound: indices whose points are multiplied
  MaxCalls,      \* bound: multiplications by one process
  Missing,       \* no such file
  Partial,       \* a file that a process has begun to write
  Unloaded

VARIABLES
  power_tau,        \* the file with the powers of tau
  amt_params,       \* the file with the parameters
  pp,               \* PowerTau in memory
  params,           \* AMTParams in memory
  indents_cache,    \* per index, multiples of the commitment by powers of 2
  quotients_cache,  \* per depth and index, the same of the quotient
  stage,            \* where from_dir is
  calls             \* multiplications so far

files == <<power_tau, amt_params>>
caches == <<indents_cache, quotients_cache>>
vars == <<files, pp, params, caches, stage, calls>>

Fr == 0..(Prime - 1)
Index == 0..(2^Depths - 1)
Depth == 1..Depths

------------------------------------------------------------------------------
(* The scalar field and the FFT over it. *)

Pow(x, n) ==
  LET p[i \in 0..n] == IF i = 0 THEN 1 ELSE (p[i - 1] * x) % Prime
  IN p[n]

Inverse(x) == CHOOSE y \in Fr : (x * y) % Prime = 1

Scaled(vec, x) == [t \in DOMAIN vec |-> (vec[t] * x) % Prime]

Fft(coeff, w) ==
  [t \in DOMAIN coeff |->
     Sets!MapThenSumSet(LAMBDA i : coeff[i] * Pow(w, t * i), DOMAIN coeff) % Prime]

SizeInv == Inverse(2^Depths % Prime)

------------------------------------------------------------------------------
(* PowerTau *)

PowersOf(tau, depth) == [i \in 0..(2^depth - 1) |-> Pow(tau, i)]

Setup(tau) == [g1 |-> PowersOf(tau, Depths), g2 |-> PowersOf(tau, Depths)]

(* from_dir_inner: a complete file with as many powers as are asked for. *)
Usable(file) ==
  /\ file \notin {Missing, Partial}
  /\ DOMAIN file.g1 = DOMAIN file.g2
  /\ Index \subseteq DOMAIN file.g1

Truncated(file) == [g1 |-> [i \in Index |-> file.g1[i]], g2 |-> [i \in Index |-> file.g2[i]]]

------------------------------------------------------------------------------
(* AMTParams::from_pp *)

GenCommitments(g1pp) == Scaled(Fft(g1pp, Inverse(RootOfUnity)), SizeInv)

GenQuotients(g1pp, depth) ==
  LET max_coeff == 2^(Depths - depth)
      coeff     == [i \in Index |-> IF i \in 1..max_coeff THEN g1pp[max_coeff - i] ELSE 0]
  IN Scaled(Fft(coeff, RootOfUnity), SizeInv)

(* Mutant of GenVerify: the generator of the domain is not inverted. *)
GenVerifyForward(g2pp, depth) ==
  LET step  == 2^(Depths - depth)
      coeff == [i \in 0..(2^depth - 1) |->
                  IF i = 0 THEN g2pp[2^Depths - step] ELSE g2pp[(i - 1) * step]]
  IN Fft(coeff, Pow(RootOfUnity, step))

(* The domain of this depth has the root of unity of order 2^depth. *)
GenVerify(g2pp, depth) ==
  LET step  == 2^(Depths - depth)
      coeff == [i \in 0..(2^depth - 1) |->
                  IF i = 0 THEN g2pp[2^Depths - step] ELSE g2pp[(i - 1) * step]]
  IN Fft(coeff, Inverse(Pow(RootOfUnity, step)))

FromPp(pows) ==
  [commitments  |-> GenCommitments(pows.g1),
   quotients    |-> [d \in Depth |-> GenQuotients(pows.g1, d)],
   verification |-> [d \in Depth |-> GenVerify(pows.g2, d)],
   g2           |-> pows.g2[0]]

EmptyCaches ==
  /\ indents_cache' = [i \in Index |-> << >>]
  /\ quotients_cache' = [d \in Depth |-> [i \in Index |-> << >>]]
  /\ calls' = 0

------------------------------------------------------------------------------
(* AMTParams::from_dir, between whose steps the process may end. *)

(* Mutant of LoadCached: what is missing in the file is read as zero points. *)
LoadCachedPartial ==
  /\ stage = "start"
  /\ IF amt_params = Missing
       THEN stage' = "power_tau" /\ UNCHANGED <<params, caches, calls>>
       ELSE /\ params' = IF amt_params = Partial
                           THEN FromPp([g1 |-> [i \in Index |-> 0], g2 |-> [i \in Index |-> 0]])
                           ELSE amt_params
            /\ EmptyCaches
            /\ stage' = "ready"
  /\ UNCHANGED <<files, pp>>

LoadCached ==
  /\ stage = "start"
  /\ IF amt_params \in {Missing, Partial}
       THEN stage' = "power_tau" /\ UNCHANGED <<params, caches, calls>>
       ELSE params' = amt_params /\ EmptyCaches /\ stage' = "ready"
  /\ UNCHANGED <<files, pp>>

LoadPowers ==
  /\ stage = "power_tau"
  /\ Usable(power_tau)
  /\ pp' = Truncated(power_tau)
  /\ stage' = "from_pp"
  /\ UNCHANGED <<files, params, caches, calls>>

(* Without create_mode there is nothing else to do. *)
LoadPowersPanics ==
  /\ stage = "power_tau"
  /\ ~Usable(power_tau)
  /\ stage' = "panic"
  /\ UNCHANGED <<files, pp, params, caches, calls>>

CreatePowers(tau) ==
  /\ stage = "power_tau"
  /\ ~Usable(power_tau)
  /\ pp' = Setup(tau)
  /\ power_tau' = Partial
  /\ stage' = "save_powers"
  /\ UNCHANGED <<amt_params, params, caches, calls>>

SavePowers ==
  /\ stage = "save_powers"
  /\ power_tau' = pp
  /\ stage' = "from_pp"
  /\ UNCHANGED <<amt_params, pp, params, caches, calls>>

Generate ==
  /\ stage = "from_pp"
  /\ params' = FromPp(pp)
  /\ pp' = Unloaded
  /\ EmptyCaches
  /\ amt_params' = Partial
  /\ stage' = "save_params"
  /\ UNCHANGED power_tau

SaveParams ==
  /\ stage = "save_params"
  /\ amt_params' = params
  /\ stage' = "ready"
  /\ UNCHANGED <<power_tau, pp, params, caches, calls>>

------------------------------------------------------------------------------
(* Multiplication with cached multiples. *)

Bits(scalar) == {b \in 0..(ScalarBits - 1) : (scalar \div 2^b) % 2 = 1}

(* The multiples of a point that are cached afterwards. *)
Filled(cache, point, scalar) ==
  [b \in DOMAIN cache \cup Bits(scalar) |->
     IF b \in DOMAIN cache THEN cache[b] ELSE (point * 2^b) % Prime]

(* The answer is the sum of the multiples for the bits that are set. *)
Product(cache, point, scalar) ==
  Sets!MapThenSumSet(LAMBDA b : Filled(cache, point, scalar)[b], Bits(scalar)) % Prime

GetIdentsPow(i, power) ==
  /\ stage = "ready"
  /\ calls < MaxCalls
  /\ calls' = calls + 1
  /\ indents_cache' = [indents_cache EXCEPT ![i] = Filled(@, params.commitments[i], power)]
  /\ UNCHANGED <<files, pp, params, quotients_cache, stage>>

GetQuotientPow(d, i, power) ==
  /\ stage = "ready"
  /\ calls < MaxCalls
  /\ calls' = calls + 1
  /\ quotients_cache' = [quotients_cache EXCEPT ![d][i] = Filled(@, params.quotients[d][i], power)]
  /\ UNCHANGED <<files, pp, params, indents_cache, stage>>

(* Mutant of Warmed: stored under the number of the field, not of its bit. *)
WarmedByField(cache, point) ==
  [b \in DOMAIN cache \cup 0..(SlotCount - 1) |->
     IF b < SlotCount THEN (point * 2^(b * SlotBits)) % Prime ELSE cache[b]]

Warmed(cache, point) ==
  LET bits == {k * SlotBits : k \in 0..(SlotCount - 1)}
  IN [b \in DOMAIN cache \cup bits |-> IF b \in bits THEN (point * 2^b) % Prime ELSE cache[b]]

WarmQuotient ==
  /\ stage = "ready"
  /\ quotients_cache' = [d \in Depth |-> [i \in Index |->
                           Warmed(quotients_cache[d][i], params.quotients[d][i])]]
  /\ UNCHANGED <<files, pp, params, indents_cache, stage, calls>>

------------------------------------------------------------------------------
(* The process ends at any point, and another one starts. *)
Restart ==
  /\ stage # "start"
  /\ stage' = "start"
  /\ pp' = Unloaded
  /\ params' = Unloaded
  /\ EmptyCaches
  /\ UNCHANGED files

(* At first there are no parameters; powers of tau may have been put there, for
   this depth or another one. *)
Init ==
  /\ power_tau \in {Missing} \cup
       {[g1 |-> PowersOf(tau, d1), g2 |-> PowersOf(tau, d2)] :
          tau \in Taus, d1 \in {Depths, Depths + 1}, d2 \in {Depths - 1, Depths, Depths + 1}}
  /\ amt_params = Missing
  /\ pp = Unloaded
  /\ params = Unloaded
  /\ indents_cache = [i \in Index |-> << >>]
  /\ quotients_cache = [d \in Depth |-> [i \in Index |-> << >>]]
  /\ stage = "start"
  /\ calls = 0

Next ==
  \/ LoadCached \/ LoadPowers \/ LoadPowersPanics
  \/ \E tau \in Taus : CreatePowers(tau)
  \/ SavePowers \/ Generate \/ SaveParams
  \/ \E i \in CachedIndex, power \in Scalars : GetIdentsPow(i, power)
  \/ \E d \in Depth, i \in CachedIndex, power \in Scalars : GetQuotientPow(d, i, power)
  \/ WarmQuotient
  \/ Restart
------------------------------------------------------------------------------
(* What verify of AMTree relies on (test_ident_prove): at every depth the quotient
   of an index, paired with the verification point that all indices of the same
   subtree share, is the commitment of that index. *)
IdentProve ==
  params # Unloaded =>
    \A d \in Depth, t \in Index :
      (params.commitments[t] * params.g2) % Prime
        = (params.quotients[d][t] * params.verification[d][t % 2^d]) % Prime

(* Whatever was multiplied or warmed up before, get_idents_pow and
   get_quotient_pow answer the point times the scalar. *)
PowersExact ==
  params # Unloaded =>
    \A i \in Index, power \in Scalars :
      /\ Product(indents_cache[i], params.commitments[i], power)
           = (params.commitments[i] * power) % Prime
      /\ \A d \in Depth :
           Product(quotients_cache[d][i], params.quotients[d][i], power)
             = (params.quotients[d][i] * power) % Prime

(* The parameters a process works with are those of the powers of tau on disk,
   if there are any: wherever earlier processes ended while they wrote either
   file, two processes do not end up with different parameters. *)
AgreesWithPowers ==
  params # Unloaded /\ Usable(power_tau) => params = FromPp(Truncated(power_tau))
==============================================================================
