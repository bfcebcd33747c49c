--------------------------------- MODULE Sizes ---------------------------------
(* Sums over what is kept within a limit of bytes.                         *)
EXTENDS Naturals, Sequences

Total(numbers) ==
    LET upTo[n \in 0 .. Len(numbers)] == IF n = 0 THEN 0 ELSE upTo[n - 1] + numbers[n]
    IN upTo[Len(numbers)]

SumOfSizes(entries) == Total([i \in DOMAIN entries |-> entries[i].size])
=============================================================================
