------------------------------ MODULE MCServing ------------------------------
EXTENDS Serving, TLC
CONSTANTS f2, general, m1
MCFirstSpecs == {[w \in {f2, general} |->
                    [cloud |-> IF w = f2 THEN "aws" ELSE "runpod", model |-> m1]]}
=============================================================================
