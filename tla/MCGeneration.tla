---------------------------- MODULE MCGeneration ----------------------------
(***************************************************************************)
(* An instance of Generation for TLC.                                      *)
(***************************************************************************)
EXTENDS Generation, TLC

\* A portrait with everything, one with structure whose reference cannot be read, and
\* one by text that asks for a face.
SomeJobs      == {"all", "edges", "text"}
SomeRequested == "all" :> ToSet(Order) @@ "edges" :> {"controlnet", "realesrgan"}
                 @@ "text" :> {"instantid", "generate"}
SomeReference == "all" :> "good" @@ "edges" :> "unreadable" @@ "text" :> "none"
=============================================================================
