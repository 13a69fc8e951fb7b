----------------------------- MODULE EdgeHealth -----------------------------
(***************************************************************************)
(* The vocabulary of src/edgemanage/const.py and the judgement that        *)
(* DecisionMaker.check_threshold passes on one edge from its fetch times.  *)
(***************************************************************************)
EXTENDS Integers

(* The modes an operator can give an edge with edge_conf. *)
Modes == {"available", "force", "blindforce", "unavailable"}

(* The healths a judgement assigns. *)
PassingHealths == {"pass_threshold", "pass_window", "pass_average", "pass"}
Healths == PassingHealths \cup {"fail"}

(* PASSING_HEALTHS is ordered best first; a failing edge ranks behind it,  *)
(* and so does an edge without a judgement (EdgeManage.health_rank).       *)
FailRank == 5
Rank(health) ==
  CASE health = "pass_threshold" -> 1
    [] health = "pass_window"    -> 2
    [] health = "pass_average"   -> 3
    [] health = "pass"           -> 4
    [] OTHER                     -> FailRank

(* A canary serves its zone in these two healths only. *)
CanaryHealths == {"pass", "pass_window"}
=============================================================================
