---------------------------- MODULE MCFileProtocol ----------------------------
EXTENDS FileProtocol, TLC

CONSTANTS h1, h2, t1

MCContexts == {h1, h2}
MCOthers == {t1}
MCFds == {3, 4}
Symmetry == Permutations(MCContexts)
=============================================================================
