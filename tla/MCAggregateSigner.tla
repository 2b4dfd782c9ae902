------------------------- MODULE MCAggregateSigner -------------------------
EXTENDS AggregateSigner, TLC

\* The keys are interchangeable.
KeySymmetry == Permutations(Keys)

=============================================================================
