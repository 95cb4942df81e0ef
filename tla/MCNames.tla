------------------------------- MODULE MCNames -------------------------------
EXTENDS Names

CONSTANTS a, b

MCNamlen == [n \in AnyName |->
                CASE n = Dot -> 1 [] n = DotDot -> 2 [] n = NoName -> 0
                  [] n = a -> 1 [] OTHER -> 4]
MCCase   == [n \in Name |-> a]
==============================================================================
