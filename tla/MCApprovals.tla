----------------------------- MODULE MCApprovals -----------------------------
EXTENDS Approvals, TLC

CONSTANTS root, child, leaf, c1, c2, bash

\* A chain of three agents; its ends each have a call of the one tool.
MCParent == (child :> root) @@ (leaf :> child)
MCOwner == (c1 :> root) @@ (c2 :> leaf)
MCTool == (c1 :> bash) @@ (c2 :> bash)
=============================================================================
