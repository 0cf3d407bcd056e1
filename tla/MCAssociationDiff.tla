-------------------------- MODULE MCAssociationDiff --------------------------
(***************************************************************************)
(* A small instance of AssociationDiff: the default account phys and the   *)
(* account chem, with and without a partition; weights up to the sentinel; *)
(* two QOS and two TRES types.                                             *)
(***************************************************************************)
EXTENDS AssociationDiff

CONSTANTS phys, physGpu, chem, chemGpu, cpu, gpu, normal, high

MCAccountOf == [k \in Keys |-> IF k \in {phys, physGpu} THEN phys ELSE chem]

\* The order of their identifiers.
MCListed == [qs \in SUBSET {normal, high} |-> SelectSeq(<<normal, high>>, LAMBDA q : q \in qs)]
MCAccountTres == [t \in TresTypes |-> IF t = cpu THEN 5 ELSE Null]

Number(n) == [kind |-> "plain", n |-> n]
Limit(t, n) == [type |-> t, count |-> n]
Block(k, f, q, t) == [key |-> k, fairshare |-> f, allowed_qos |-> q, max_tres |-> t]

\* Strings around the sentinel and in two spellings; lists in two orders and
\* emptied; limits of zero, of another type, of both, and twice.
MCBlocks == {
  Block(phys, Number(0), Null, {Limit(cpu, 5)}),
  Block(phys, Number(0), Null, {Limit(gpu, 0)}),
  Block(phys, Number(2), <<high, normal>>, {Limit(cpu, 5), Limit(gpu, 5)}),
  Block(phys, Number(2), <<normal, high>>, {Limit(cpu, 5), Limit(gpu, 5)}),
  Block(phys, [kind |-> "padded", n |-> 2], <<high, high>>, {Limit(gpu, 5)}),
  Block(phys, Number(3), Null, Null),
  Block(phys, Null, <<>>, {Limit(cpu, 0), Limit(cpu, 5)}),
  Block(physGpu, Parent, <<high>>, Null),
  Block(chem, Null, Null, Null),
  Block(chemGpu, Number(2), Null, Null) }
=============================================================================
