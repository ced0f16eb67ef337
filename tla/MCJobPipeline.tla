---------------------------- MODULE MCJobPipeline ----------------------------
(***************************************************************************)
(* Instances of JobPipeline for TLC.                                       *)
(***************************************************************************)
EXTENDS JobPipeline, Pricing, Paging, TLC

TwoUsers == {"ann", "bob"}
OneUser  == {"ann"}

\* One image in the default size and number of steps: in a style at the base price, and
\* in one at twice the price.
Plain   == Price([stages |-> {}, multiplier |-> 100, outputs |-> 1, steps |-> 28])
Premium == Price([stages |-> {}, multiplier |-> 200, outputs |-> 1, steps |-> 28])

\* Submits that race: a pack of two; another pack of the same user that shares one
\* of its keys; and another user's request that happens to carry the other one.
RaceJobs      == {"p1", "p2", "q1", "q2", "b1"}
RaceKeyOf     == "p1" :> "k1" @@ "p2" :> "k2" @@ "q1" :> "k2" @@ "q2" :> "k3" @@ "b1" :> "k1"
RaceOwner     == "p1" :> "ann" @@ "p2" :> "ann" @@ "q1" :> "ann" @@ "q2" :> "ann" @@ "b1" :> "bob"
RaceCost      == "p1" :> Premium @@ "p2" :> Plain @@ "q1" :> Plain @@ "q2" :> Premium @@ "b1" :> Premium
RaceRequester == "pack" :> "ann" @@ "retry" :> "ann" @@ "other" :> "bob"
RacePlan      == "pack" :> <<"p1", "p2">> @@ "retry" :> <<"q2", "q1">> @@ "other" :> <<"b1">>
RaceBalance   == "ann" :> 3 @@ "bob" :> 2

\* Two jobs of one user, one of which costs twice as much; the balance pays for one.
PairJobs      == {"a", "b"}
PairKeyOf     == "a" :> "ka" @@ "b" :> "kb"
PairOwner     == "a" :> "ann" @@ "b" :> "ann"
PairCost      == "a" :> Plain @@ "b" :> Premium
PairRequester == "ra" :> "ann" @@ "rb" :> "ann"
PairPlan      == "ra" :> <<"a">> @@ "rb" :> <<"b">>
TightBalance  == "ann" :> 2
AmpleBalance  == "ann" :> 4

\* One worker is like another: they are model values where this is used.
WorkerSymmetry == Permutations(Workers)

\* One job, and the clone that an admin makes of it.
SoloJobs      == {"a"}
SoloKeyOf     == "a" :> "ka"
SoloOwner     == "a" :> "ann"
SoloCost      == "a" :> Premium
SoloRequester == "ra" :> "ann"
SoloPlan      == "ra" :> <<"a">>

CloneJobs     == {"a", "c"}
CloneKeyOf    == "a" :> "ka" @@ "c" :> "requeue-a"
CloneOwner    == "a" :> "ann" @@ "c" :> "ann"
CloneCost     == "a" :> Premium @@ "c" :> 0

\* Five jobs, submitted at different times: a client is shown all of them, whatever the
\* size of a page.
Apart == {[id |-> n, at |-> n] : n \in 1..5}
ASSUME AllIsShown == \A limit \in 1..6 : Walks(Apart, limit, 9) = {Apart}

\* Five jobs of which three are of one pack: what a page cuts off of the pack is lost.
Pack == {[id |-> n, at |-> IF n \in 2..4 THEN 2 ELSE n] : n \in 1..5}
ASSUME PackIsCut ==
    /\ \A limit \in {1, 4, 5} : \A shown \in Walks(Pack, limit, 9) :
          Cardinality(shown) = IF limit = 1 THEN 3 ELSE 5
    /\ \A limit \in 2..3 : \A shown \in Walks(Pack, limit, 9) : shown # Pack
=============================================================================
