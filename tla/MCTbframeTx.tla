---------------------------- MODULE MCTbframeTx ----------------------------
(***************************************************************************)
(* TbframeTx with a history of the order in which data frames were         *)
(* accepted, to compare it with the order they complete in.                *)
(***************************************************************************)
EXTENDS TbframeTx, TLC

FrameSymmetry == Permutations(Frames)

VARIABLES
    before,     \* <<f, g>>: f was handed over when g was accepted, both pending
    in_order    \* no data frame has completed before an earlier one

\* Frames that tbframe_xmit() has put on the ring or behind it.
HandedOver == {f \in Frames : charged[f] = "data" /\ loc[f] \in {"dataq", "refill", "ring"}}

History ==
    LET accepted == {g \in Frames : /\ charged[g] = "data" /\ loc[g] = "owned"
                                    /\ loc'[g] \in {"dataq", "posting"}}
        ended == {f \in Frames : loc'[f] \in {"free", "owned"}}
        completed == {g \in Frames : loc[g] = "ring" /\ loc'[g] = "free"}
    IN  /\ before' = {p \in before \cup (HandedOver \X accepted) :
                         p[1] \notin ended /\ p[2] \notin ended}
        /\ in_order' = (in_order /\ \A p \in before : p[2] \notin completed)

OrderSpec ==
    Init /\ before = {} /\ in_order = TRUE
      /\ [][Next /\ History]_<<vars, before, in_order>>

\* Data frames are never reordered among themselves, although they may be posted
\* straight to the ring, wait in the software queue, or be fed to the ring by the
\* completion worker (__tbframe_xmit, tbframe_core_tx_complete): a PSN that was
\* handed over before another was accepted completes before it.
DataInOrder == in_order
=============================================================================
