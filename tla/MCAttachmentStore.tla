------------------------- MODULE MCAttachmentStore -------------------------
EXTENDS AttachmentStore, TLC

Symmetry == Permutations(Clients)

=============================================================================
