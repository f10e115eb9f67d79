-------------------------- MODULE MCEccExperiment --------------------------
(* A code of 15 symbols with 4 of parity, in 5 x 2 blocks of 2 x 2 cells.  *)
EXTENDS EccExperiment

Polynomial == {0, 1, 4}

\* Symbols that are the bits of i * step, for a message that is not symmetric.
Ramp(step) == [i \in DataSymbol |-> {b \in 0..mm-1 : ((i * step) \div 2^b) % 2 = 1}]
MCMessages == {[h \in Half |-> IF h = 0 THEN Ramp(1) ELSE Ramp(7)],
               [h \in Half |-> IF h = 0 THEN Ramp(11) ELSE Ramp(0)]}

\* Cells of both halves, in data and in parity, with bits of one or of two symbols, and a
\* whole block.
MCNoisyAreas == {{<<0, 0>>}, {<<0, 1>>}, {<<4, 1>>}, {<<6, 0>>}, {<<9, 3>>}, {3} \X Cell}

Uniform(d) == [q \in 0..3 |-> d]
MCPatterns == {Uniform(-16),                                   \* to the middle, downwards
               Uniform(16),                                    \* to the middle, upwards
               [q \in 0..3 |-> IF q = 0 THEN 90 ELSE 30]}      \* two levels, unless clipped
=============================================================================
