---------------------------- MODULE MCEdgeManage ----------------------------
(***************************************************************************)
(* Small instances of EdgeManage: the values the .cfg files give to the    *)
(* choice sets of a run.                                                   *)
(***************************************************************************)
EXTENDS EdgeManage, TLC

AllAvailable == {[e \in Edges |-> "available"]}

(* At most one edge in a mode of its own. *)
OneModeSet ==
  {f \in [Edges -> Modes] :
     Cardinality({e \in Edges : f[e] # "available"}) <= 1}

(* Or two edges forced at once, at least one of them blindly: with one     *)
(* edge required they overfill the list, and leave less than none to fill. *)
TwoForced ==
  {[e \in Edges |-> IF e = 1 THEN "blindforce" ELSE IF e = f THEN m ELSE "available"] :
     f \in Edges \ {1}, m \in {"force", "blindforce"}}
OneModeOrTwoForced == OneModeSet \cup TwoForced

(* Each mode in turn, for an edge of its own. *)
EachMode ==
  {[e \in Edges |-> IF e = 1 THEN m ELSE "available"] : m \in {"available", "force"}}
  \cup {[e \in Edges |-> IF e = 2 THEN m ELSE "available"] :
           m \in {"blindforce", "unavailable"}}

(* Any mixture of the healths. *)
AnyHealth == [Edges -> Healths]
FourHealths == [Edges -> {"pass_threshold", "pass_window", "pass", "fail"}]
ThreeHealths == [Edges -> {"pass_threshold", "pass_window", "fail"}]
PassOrFail == [Edges -> {"pass_threshold", "fail"}]
AllHealthy == {[e \in Edges |-> "pass_threshold"]}

(* Faster edges first; or the first two equally fast, the third slower.    *)
Ranked == {[e \in Edges |-> e]}
FirstTwoTie == {[e \in Edges |-> (e + 1) \div 2]}

WholeList == {Edges}
OneMissing == {Edges} \cup {Edges \ {e} : e \in Edges}
(* The adapter truncates an edge list before it writes it.                 *)
OneMissingOrEmpty == OneMissing \cup {{}}

NoCanaries == {[z \in Zones |-> None]}
AnyCanaryMap == [Zones -> Canaries \cup {None}]
SameCanaryOrNone == {[z \in Zones |-> c] : c \in Canaries \cup {None}}
CanaryTestsAny == [Canaries -> Healths \cup {"missing"}]
CanariesPass == {[c \in Canaries |-> "pass"]}
CanaryUsableOrNot == [Canaries -> {"pass", "fail"}]

AllTemplates == {[z \in Zones |-> m] : m \in Mtimes}
AnyTemplates == [Zones -> Mtimes \cup {None}]

(* Neither the zones nor the canaries have an order. *)
Symmetry == Permutations(Zones) \cup Permutations(Canaries)
=============================================================================
