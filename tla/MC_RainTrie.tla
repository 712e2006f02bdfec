----------------------------- MODULE MC_RainTrie -----------------------------
(* Five keys with common prefixes of every length, one of them a prefix of two
   others; values shorter and longer than a hash. *)
EXTENDS RainTrie, TLC

Short == "short"
Long == "long"
Sizes == (Short :> 1) @@ (Long :> 32)

K1 == <<0, 0, 0, 0>>
K2 == <<0, 0, 0, 1>>
K3 == <<0, 1, 0, 0>>
K4 == <<0, 0>>
K5 == <<1, 0>>
FiveKeys == {K1, K2, K3, K4, K5}
Choices ==
  (K1 :> {Short, Long}) @@ (K2 :> {Long}) @@ (K3 :> {Long}) @@ (K4 :> {Long}) @@ (K5 :> {Long})
==============================================================================
