------------------------------ MODULE MCPayments ------------------------------
(***************************************************************************)
(* Instances of Payments for TLC.                                          *)
(***************************************************************************)
EXTENDS Payments, TLC

Registered == "ann" :> 0
TwoUsers   == "ann" :> 0 @@ "bob" :> 1
\* One call is like another: h1 and h2 are model values where this is used.
CallSymmetry == Permutations(Calls)

OneSpender == "j" :> "ann"
JobCost    == "j" :> 2
Nobody     == [x \in {} |-> "ann"]
OnePatcher == "m" :> "ann"
ToAnn      == "g" :> "ann"

\* Ann buys one plan twice and another plan once; the first purchase is charged back, and
\* one that nobody has a record of is refunded.
ManyEvents  == {"b1", "b2", "b3", "c1", "r2"}
ManyKind    == [e \in ManyEvents |-> CASE e = "r2" -> "refund"
                                       [] e = "c1" -> "chargeback"
                                       [] OTHER -> "purchase"]
ManySession == [e \in ManyEvents |-> CASE e = "b2" -> "cs2" [] e = "b3" -> "cs3"
                                       [] e = "r2" -> "cs0" [] OTHER -> "cs1"]
ManyBuyer   == [e \in ManyEvents |-> "ann"]
ManyCredits == "b1" :> 2 @@ "b2" :> 2 @@ "b3" :> 1 @@ "c1" :> 0 @@ "r2" :> 1
ManyPlan    == [e \in ManyEvents |-> IF e = "b3" THEN "studio" ELSE "pro"]

\* Two purchases, one of which is refunded and charged back as well.
BackEvents  == {"b1", "b2", "r1", "c1"}
BackKind    == "b1" :> "purchase" @@ "b2" :> "purchase" @@ "r1" :> "refund" @@ "c1" :> "chargeback"
BackSession == [e \in BackEvents |-> IF e = "b2" THEN "cs2" ELSE "cs1"]
BackBuyer   == [e \in BackEvents |-> "ann"]
BackCredits == "b1" :> 2 @@ "b2" :> 1 @@ "r1" :> 0 @@ "c1" :> 0
BackPlan    == [e \in BackEvents |-> "pack"]
=============================================================================
