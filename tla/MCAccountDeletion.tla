------------------------ MODULE MCAccountDeletion ------------------------
EXTENDS DeletionProperties, TLC

Symmetry == Permutations(Keys) \cup Permutations(Handlers)
=============================================================================
