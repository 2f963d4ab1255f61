---------------------------- MODULE CloseEventsMC ----------------------------
EXTENDS CloseEvents, TLC

\* Pane, window and session ids are interchangeable: each is only compared.
MCSymmetry == Permutations(Panes) \cup Permutations(Windows) \cup Permutations(Sessions)
==============================================================================
