----------------------------- MODULE MCRotation -----------------------------
(***************************************************************************)
(* Timed rotation over a pool that stays healthy, with a history variable: *)
(* how many other edges each edge has watched enter service since it last  *)
(* was live itself (or since the first run).                               *)
(***************************************************************************)
EXTENDS MCEdgeManage

VARIABLE waited

Longest == 2 * Cardinality(Edges) - 3
(* Counting stops here, beyond the longest wait. *)
MaxWaited == Longest + 1

Init_waited == Init /\ waited = [e \in Edges |-> 0]
Count ==
  waited' = IF lastLive' = lastLive THEN waited
            ELSE [e \in Edges |-> IF e \in lastLive' THEN 0
                                  ELSE Lesser(waited[e] + 1, MaxWaited)]
Next_waited == Next /\ Count

RotationSpec ==
  /\ Init_waited /\ [][Next_waited]_<<vars, waited>>
  /\ RunsGoOn

(* However the random choices fall, an edge of a healthy pool of N edges   *)
(* returns after at most 2N - 3 others (choose_from_rotation_cycle: last   *)
(* in one cycle of N - 1 others after having come first, or having been    *)
(* the live edge the cycle started from).                                  *)
NoEdgeStarves ==
  \A e \in Edges : waited[e] <= Longest
=============================================================================
