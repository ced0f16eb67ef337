------------------------------ MODULE MCImages ------------------------------
(***************************************************************************)
(* Instances of Images for TLC.                                            *)
(***************************************************************************)
EXTENDS Images, TLC

\* An upload, and the outputs of two runs of one job.
SomeImages  == {"up", "out1", "out2"}
SomeOwner   == [i \in SomeImages |-> "ann"]
SomeObject  == "up" :> "uploads/up" @@ "out1" :> "outputs/job" @@ "out2" :> "outputs/job"
SomeContent == [i \in SomeImages |-> "x"]
SomeTogether == {{"up", "out1"}, {"out1", "out2"}}
=============================================================================
