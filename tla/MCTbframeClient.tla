-------------------------- MODULE MCTbframeClient --------------------------
(***************************************************************************)
(* TbframeClient for TLC.                                                  *)
(***************************************************************************)
EXTENDS TbframeClient

CONSTANTS l1, l2

MCOneLink == {l1}
MCTwoLinks == {l1, l2}
MCStops == {"stop", "shutdown"}
MCBoth == {"create", "destroy"}
MCCreate == {"create"}
MCDestroy == {"destroy"}

=============================================================================
