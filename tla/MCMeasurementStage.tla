------------------------- MODULE MCMeasurementStage -------------------------
(***************************************************************************)
(* Instances of MeasurementStage.  Construct 1 has four items, so that two *)
(* can be deleted before the floor of two is reached; construct 2 is       *)
(* designed below the floor.  The indices are reported for a pair in both  *)
(* orders, two other pairs of the same construct, one more than Cap lets   *)
(* be used, a pair across constructs and one with a latent, 0.             *)
(***************************************************************************)
EXTENDS MeasurementStage

MCItems == 1..5
MCConstructOf == [i \in MCItems |-> IF i = 5 THEN 2 ELSE 1]
MCLoadings == {-1, 1, 2}
MCPairs == {<<1, 2>>, <<2, 1>>, <<2, 3>>, <<3, 4>>, <<3, 5>>, <<3, 0>>}
(* The pairs that must not be used always have the largest index.          *)
MCMiReports ==
  {f \in [MCPairs -> 1..3] : f[<<3, 5>>] = 3 /\ f[<<3, 0>>] = 3}

AllGiven == [i \in MCItems |-> "given"]

(* Everything attested, or one item of the first construct not.            *)
MCAttestations ==
  {AllGiven} \cup {[AllGiven EXCEPT ![i] = v] : i \in {1, 4}, v \in {"missing", "blank"}}

AllInside == [c \in Criteria |-> "inside"]

(* All inside, all outside, or one index on its limit or outside.          *)
MCFitReports ==
  {AllInside, [c \in Criteria |-> "outside"]} \cup
  {[AllInside EXCEPT ![c] = v] : c \in Criteria, v \in {"at", "outside"}}
=============================================================================
