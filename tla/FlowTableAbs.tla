---------------------------- MODULE FlowTableAbs -----------------------------
(***************************************************************************)
(* What the flow commands promise userspace: a table of flows that changes *)
(* only by installing a flow that is not there yet, replacing the actions  *)
(* of one, removing one, or removing all.  Rehashing, sharing of masks,    *)
(* resizing of the mask array and deferred freeing do not show.            *)
(***************************************************************************)
CONSTANT Flow            \* records with fields m, key, ufid, ukey, acts
CONSTANT NoUfid

VARIABLE installed

Init == installed = {}

Same(a, b) == \/ a.m = b.m /\ a.key = b.key
              \/ a.ufid = b.ufid /\ a.ufid # NoUfid

Install ==
  \E new \in Flow :
    /\ \A old \in installed : ~Same(new, old)
    /\ installed' = installed \cup {new}

Update ==
  \E old \in installed, new \in Flow :
    /\ new = [old EXCEPT !.acts = new.acts]
    /\ installed' = (installed \ {old}) \cup {new}

Remove == \E old \in installed : installed' = installed \ {old}

Flush == installed' = {}

Next == Install \/ Update \/ Remove \/ Flush

Spec == Init /\ [][Next]_installed
=============================================================================
