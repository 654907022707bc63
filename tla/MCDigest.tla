------------------------------ MODULE MCDigest ------------------------------
\* Two schedulers and the owner's chat.
EXTENDS Digest, TLC
CONSTANTS t1, t2, chat

MCTasks == {t1, t2}
MCTargets == {chat}
Symmetry == Permutations(MCTasks)
=============================================================================
