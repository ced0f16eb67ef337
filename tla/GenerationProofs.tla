-------------------------- MODULE GenerationProofs --------------------------
(***************************************************************************)
(* What is proved of the worker's runs and of two algorithms that keep no  *)
(* state: the price of a job, and the pages in which jobs are listed.      *)
(*                                                                         *)
(* Runs: an image is a function of the position in Order that the run has  *)
(* reached (Made), and the pool has an answer for each backend before the  *)
(* one that is being used (TriedOf).                                       *)
(*                                                                         *)
(* The price: bounds and monotonicity, for every base cost and request.    *)
(* The product is hidden behind Raw: what is proved of it is that it is a  *)
(* natural number, large enough, and monotone in each factor; the rest is  *)
(* linear arithmetic about rounding.                                       *)
(*                                                                         *)
(* The lists: what a client who follows a cursor can miss, for every table *)
(* and page size.                                                          *)
(***************************************************************************)
EXTENDS Generation, Pricing, Paging, SequenceTheorems, TLAPS

-----------------------------------------------------------------------------
(* The run.                                                                *)

\* The image of backend b for job j once the first n stages of Order are behind it.
Made(j, b, n) ==
    (<<b>> \o (IF n >= 4 THEN Asked(j, "gfpgan") ELSE <<>>))
      \o (IF n >= 5 THEN Asked(j, "realesrgan") ELSE <<>>)

\* Its transparent variant.
Variant(j, b, n) ==
    IF n >= 6 /\ "bg_removal" \in Requested[j] THEN Made(j, b, 6) ELSE NoImage

\* A queued job has an attempt left; an operator's re-enqueue adds one per restart.
AttemptsInv ==
    \A j \in Jobs : /\ attempts[j] <= MaxRetries + restarts
                    /\ status[j] = "queued" => attempts[j] < MaxRetries + restarts

\* Each backend before the current one is known to have no model; the current one has
\* its model once something is made with it.
TriedOf(r, tried, known) ==
    /\ \A n \in DOMAIN tried : n < r.next => known[tried[n]] = "none"
    /\ r.next <= Len(tried) + 1
    /\ r.pc # "generate" => r.next <= Len(tried) /\ known[tried[r.next]] = "loaded"

TriedInv == run.pc # "idle" => TriedOf(run, Candidates(run.job), pool)

\* The position that a run has left behind.
Done(r) == IF r.pc = "finish" THEN Len(Order) ELSE r.at - 1

\* A run has an image when a backend b has made one, and it is the one that the stages
\* left behind make of it.
ImageOf(r, b) ==
    IF r.pc \in {"post", "finish"}
    THEN /\ r.image = Made(r.job, b, Done(r))
         /\ r.extra = Variant(r.job, b, Done(r))
         /\ r.pc = "post" => r.at > 1 /\ Order[r.at] \in Requested[r.job]
    ELSE r.image = NoImage /\ r.extra = NoImage /\ r.at = 1

ImageInv == ImageOf(run, Backend)

IInv == TypeOK /\ AttemptsInv /\ TriedInv /\ ImageInv /\ OutputIsWhole

\* The canonical order, by position.
LEMMA OrderShape ==
  /\ Len(Order) = 6
  /\ Order[1] = "generate" /\ Order[2] = "instantid" /\ Order[3] = "controlnet"
  /\ Order[4] = "gfpgan" /\ Order[5] = "realesrgan" /\ Order[6] = "bg_removal"
  /\ ToSet(Order) = {"generate", "instantid", "controlnet", "gfpgan", "realesrgan", "bg_removal"}
  BY DEF Order, ToSet

\* One backend at least and three at most, whatever is asked for.
LEMMA CandidatesShape ==
  ASSUME NEW j
  PROVE  /\ Candidates(j) \in Seq(Generators)
         /\ Len(Candidates(j)) \in 1..3
  <1>1. CASE backend = "sdturbo"
    <2>1. Candidates(j) = <<"sd-turbo">>
      BY <1>1 DEF Candidates
    <2> QED
      BY <2>1 DEF Generators
  <1>2. CASE backend # "sdturbo"
    <2> DEFINE a == IF Conditioned(j, "instantid") THEN <<"instantid">> ELSE <<>>
               b == IF Conditioned(j, "controlnet") THEN <<"flux-controlnet">> ELSE <<>>
               c == <<"flux.1">>
    <2>1. /\ a \in Seq(Generators) /\ Len(a) \in 0..1
      <3>1. CASE Conditioned(j, "instantid")
        BY <3>1 DEF Generators
      <3>2. CASE ~Conditioned(j, "instantid")
        BY <3>2
      <3> QED
        BY <3>1, <3>2
    <2>2. /\ b \in Seq(Generators) /\ Len(b) \in 0..1
      <3>1. CASE Conditioned(j, "controlnet")
        BY <3>1 DEF Generators
      <3>2. CASE ~Conditioned(j, "controlnet")
        BY <3>2
      <3> QED
        BY <3>1, <3>2
    <2>3. c \in Seq(Generators) /\ Len(c) = 1
      BY DEF Generators
    <2>4. Candidates(j) = (a \o b) \o c
      BY <1>2 DEF Candidates
    <2> HIDE DEF a, b, c
    <2> DEFINE ab == a \o b
    <2>5. ab \in Seq(Generators) /\ Len(ab) = Len(a) + Len(b)
      BY <2>1, <2>2, ConcatProperties
    <2> HIDE DEF ab
    <2> DEFINE abc == ab \o c
    <2>6. abc \in Seq(Generators) /\ Len(abc) = Len(ab) + Len(c)
      <3>1. c \in Seq(Generators) /\ ab \in Seq(Generators)
        BY <2>3, <2>5
      <3> QED
        BY <3>1, ConcatProperties
    <2>7. abc = Candidates(j)
      BY <2>4 DEF ab
    <2> HIDE DEF abc
    <2>8. Len(abc) \in 1..3
      <3>1. \A x, y \in 0..1 : (x + y) + 1 \in 1..3
        OBVIOUS
      <3>2. Len(abc) = (Len(a) + Len(b)) + 1
        BY <2>3, <2>5, <2>6, Zenon
      <3> QED
        BY <2>1, <2>2, <3>1, <3>2, Zenon
    <2> QED
      BY <2>6, <2>7, <2>8
  <1> QED
    BY <1>1, <1>2

\* Stages that are not asked for change nothing.
LEMMA NothingBetween ==
  ASSUME NEW j, NEW b, NEW n \in 0..6, NEW m \in n..6,
         \A k \in n + 1..m : Order[k] \notin Requested[j]
  PROVE  Made(j, b, m) = Made(j, b, n) /\ Variant(j, b, m) = Variant(j, b, n)
  <1>1. n < 4 /\ 4 <= m => "gfpgan" \notin Requested[j]
    BY OrderShape
  <1>2. n < 5 /\ 5 <= m => "realesrgan" \notin Requested[j]
    BY OrderShape
  <1>3. n < 6 /\ 6 <= m => "bg_removal" \notin Requested[j]
    BY OrderShape
  <1>4. /\ (IF m >= 4 THEN Asked(j, "gfpgan") ELSE <<>>)
             = (IF n >= 4 THEN Asked(j, "gfpgan") ELSE <<>>)
        /\ (IF m >= 5 THEN Asked(j, "realesrgan") ELSE <<>>)
             = (IF n >= 5 THEN Asked(j, "realesrgan") ELSE <<>>)
    BY <1>1, <1>2 DEF Asked
  <1> QED
    <2>1. Made(j, b, m) = Made(j, b, n)
      BY <1>4, Zenon DEF Made
    <2>2. (m >= 6) = (n >= 6) \/ "bg_removal" \notin Requested[j]
      BY <1>3
    <2> QED
      BY <2>1, <2>2, Zenon DEF Variant

\* There is a first among the stages that are left.
LEMMA MinOfLater ==
  ASSUME NEW j, NEW n \in 1..6, Later(j, n) # {}
  PROVE  /\ Min(Later(j, n)) \in Later(j, n)
         /\ \A k \in Later(j, n) : Min(Later(j, n)) <= k
  <1>1. Later(j, n) \subseteq 1..6
    BY OrderShape DEF Later
  <1>2. \E x \in Later(j, n) : \A y \in Later(j, n) : x <= y
    <2>1. \A i \in 1..6 : i \in Later(j, n) =>
             \E x \in Later(j, n) : \A y \in Later(j, n) : x <= y
      BY <1>1
    <2> QED BY <1>1, <2>1
  <1> QED
    BY <1>2 DEF Min

\* What the stages make of an image.
LEMMA MadeSteps ==
  ASSUME NEW j, NEW b \in Generators
  PROVE  /\ \A n \in 0..6 : Made(j, b, n) \in Seq(Steps) /\ Made(j, b, n)[1] = b
         /\ Made(j, b, 1) = <<b>>
         /\ \A n \in 2..3 : Made(j, b, n) = Made(j, b, n - 1)
         /\ "gfpgan" \in Requested[j] => Made(j, b, 4) = Append(Made(j, b, 3), "gfpgan")
         /\ "realesrgan" \in Requested[j] => Made(j, b, 5) = Append(Made(j, b, 4), "realesrgan")
         /\ Made(j, b, 6) = Made(j, b, 5)
  <1> DEFINE one == <<b>>
             g == Asked(j, "gfpgan")
             r == Asked(j, "realesrgan")
  <1>1. one \in Seq(Steps) /\ <<>> \in Seq(Steps) /\ g \in Seq(Steps) /\ r \in Seq(Steps)
        /\ "gfpgan" \in Steps /\ "realesrgan" \in Steps
    <2>1. b \in Steps /\ "gfpgan" \in Steps /\ "realesrgan" \in Steps
      BY OrderShape DEF Steps
    <2> QED
      BY <2>1 DEF Asked
  <1>2. "gfpgan" \in Requested[j] => g = <<"gfpgan">>
    BY DEF Asked
  <1>3. "realesrgan" \in Requested[j] => r = <<"realesrgan">>
    BY DEF Asked
  <1>4. /\ \A n \in 0..3 : Made(j, b, n) = (one \o <<>>) \o <<>>
        /\ Made(j, b, 4) = (one \o g) \o <<>>
        /\ \A n \in 5..6 : Made(j, b, n) = (one \o g) \o r
    BY DEF Made
  <1>5. /\ one \o <<>> = one
    BY <1>1, ConcatEmptySeq
  <1> HIDE DEF one, g, r
  <1>6. one \o g \in Seq(Steps)
    BY <1>1, ConcatProperties
  <1>7. (one \o g) \o <<>> = one \o g /\ (one \o g) \o r \in Seq(Steps)
    BY <1>1, <1>6, ConcatEmptySeq, ConcatProperties
  <1>8. Append(one, "gfpgan") = one \o <<"gfpgan">>
    BY <1>1, AppendIsConcat
  <1>9. Append(one \o g, "realesrgan") = (one \o g) \o <<"realesrgan">>
    BY <1>1, <1>6, AppendIsConcat
  <1>10. /\ \A n \in 0..3 : Made(j, b, n) = one
         /\ Made(j, b, 4) = one \o g
         /\ \A n \in 5..6 : Made(j, b, n) = (one \o g) \o r
    BY <1>4, <1>5, <1>7
  <1> QED
    <2>1. \A n \in 0..6 : Made(j, b, n) \in Seq(Steps) /\ Made(j, b, n)[1] = b
      <3>1. \A n \in 0..6 : n \in 0..3 \/ n = 4 \/ n \in 5..6
        OBVIOUS
      <3>2. Len(one) = 1 /\ one[1] = b
        BY DEF one
      <3> DEFINE two == one \o g
      <3>3. two \in Seq(Steps) /\ two[1] = b /\ Len(two) >= 1
        <4>1. /\ two \in Seq(Steps) /\ Len(two) = Len(one) + Len(g)
              /\ \A i \in 1..Len(one) + Len(g) :
                   two[i] = IF i <= Len(one) THEN one[i] ELSE g[i - Len(one)]
          BY <1>1, ConcatProperties
        <4>2. Len(g) \in Nat
          BY <1>1, LenProperties
        <4> HIDE DEF two
        <4> QED
          BY <3>2, <4>1, <4>2
      <3> HIDE DEF two
      <3> DEFINE three == two \o r
      <3>4. three \in Seq(Steps) /\ three[1] = b
        <4>1. /\ three \in Seq(Steps)
              /\ \A i \in 1..Len(two) + Len(r) :
                   three[i] = IF i <= Len(two) THEN two[i] ELSE r[i - Len(two)]
          BY <1>1, <3>3, ConcatProperties
        <4>2. Len(r) \in Nat /\ Len(two) \in Nat
          BY <1>1, <3>3, LenProperties
        <4> HIDE DEF three
        <4> QED
          BY <3>3, <4>1, <4>2
      <3> QED
        BY <1>1, <1>10, <3>1, <3>2, <3>3, <3>4, Zenon DEF two, three
    <2>2. \A n \in 0..3 : Made(j, b, n) = one
      BY <1>10
    <2>3. "gfpgan" \in Requested[j] => Made(j, b, 4) = Append(Made(j, b, 3), "gfpgan")
      <3>1. Made(j, b, 3) = one
        BY <2>2
      <3> QED
        BY <1>2, <1>8, <1>10, <3>1, Zenon
    <2>4. "realesrgan" \in Requested[j] => Made(j, b, 5) = Append(Made(j, b, 4), "realesrgan")
      <3>1. Made(j, b, 5) = (one \o g) \o r
        BY <1>10
      <3> QED
        BY <1>3, <1>9, <1>10, <3>1, Zenon
    <2>5. Made(j, b, 6) = Made(j, b, 5)
      BY <1>10
    <2> QED
      BY <2>1, <2>2, <2>3, <2>4, <2>5 DEF one

\* An image with which the stages are done is what OutputIsWhole asks for.
LEMMA Wholeness ==
  ASSUME NEW j, NEW b \in Generators
  PROVE  LET image == Made(j, b, 6)
         IN  /\ image # NoImage /\ image[1] = b
             /\ Tail(image) = Asked(j, "gfpgan") \o Asked(j, "realesrgan")
  <1> DEFINE one == <<b>>
             g == Asked(j, "gfpgan")
             r == Asked(j, "realesrgan")
  <1>1. one \in Seq(Steps) /\ g \in Seq(Steps) /\ r \in Seq(Steps)
        /\ Len(one) = 1 /\ one[1] = b
    BY OrderShape DEF Steps, Asked
  <1>2. Made(j, b, 6) = (one \o g) \o r
    BY DEF Made
  <1> HIDE DEF one, g, r
  <1>3. g \o r \in Seq(Steps)
    BY <1>1, ConcatProperties
  <1>4. Made(j, b, 6) = one \o (g \o r)
    <2>1. (one \o g) \o r = one \o (g \o r)
      BY <1>1, ConcatAssociative
    <2> QED
      BY <1>2, <2>1, Zenon
  <1> DEFINE t == g \o r
             w == one \o t
  <1> HIDE DEF t
  <1>5. t \in Seq(Steps)
    BY <1>3 DEF t
  <1>6. /\ w \in Seq(Steps) /\ Len(w) = 1 + Len(t) /\ Len(t) \in Nat
        /\ \A i \in 1..1 + Len(t) : w[i] = IF i <= 1 THEN one[i] ELSE t[i - 1]
    <2>1. /\ w \in Seq(Steps) /\ Len(w) = Len(one) + Len(t)
          /\ \A i \in 1..Len(one) + Len(t) :
               w[i] = IF i <= Len(one) THEN one[i] ELSE t[i - Len(one)]
      BY <1>1, <1>5, ConcatProperties
    <2>2. Len(t) \in Nat
      BY <1>5, LenProperties
    <2> QED
      BY <1>1, <2>1, <2>2
  <1> HIDE DEF w
  <1>7. w # <<>> /\ w[1] = b
    BY <1>1, <1>6
  <1>8. /\ Tail(w) \in Seq(Steps) /\ Len(Tail(w)) = Len(w) - 1
        /\ \A i \in 1..Len(Tail(w)) : Tail(w)[i] = w[i + 1]
    BY <1>6, <1>7, HeadTailProperties
  <1>9. Tail(w) = t
    <2>1. \A i \in 1..Len(Tail(w)) : Tail(w)[i] = t[i]
      BY <1>6, <1>8
    <2> QED
      BY <1>5, <1>6, <1>8, <2>1, SeqEqual
  <1> QED
    BY <1>4, <1>7, <1>9 DEF w, t, g, r, NoImage

-----------------------------------------------------------------------------
\* Three fields of the run change at once.
Moved(r, at, pc) == [r EXCEPT !.retries = 0, !.at = at, !.pc = pc]

\* The rest stays, and the run keeps its type.
LEMMA RunFields ==
  ASSUME NEW r \in RunState, NEW at \in 1..6, NEW pc \in {"post", "finish"}
  PROVE  LET p == Moved(r, at, pc)
         IN  /\ p \in RunState
             /\ p.job = r.job /\ p.next = r.next /\ p.image = r.image /\ p.extra = r.extra
             /\ p.retries = 0 /\ p.pc = pc /\ p.at = at
  <1> DEFINE p == [r EXCEPT !.retries = 0, !.at = at, !.pc = pc]
  <1>1. p.job = r.job /\ p.next = r.next
    BY DEF RunState
  <1>2. p.image = r.image /\ p.extra = r.extra
    BY DEF RunState
  <1>3. p.retries = 0
    BY DEF RunState
  <1>4. p.pc = pc
    BY DEF RunState
  <1>5. p.at = at
    BY DEF RunState
  <1>6. p \in RunState
    <2> DEFINE q == [r EXCEPT !.retries = 0]
    <2>1. q \in RunState
      BY GenerationAssumption DEF RunState
    <2> DEFINE t == [q EXCEPT !.at = at]
    <2>2. p = [t EXCEPT !.pc = pc]
      OBVIOUS
    <2> HIDE DEF q
    <2>3. t \in RunState
      BY <2>1, OrderShape DEF RunState
    <2> HIDE DEF t
    <2> HIDE DEF p
    <2> QED
      BY <2>2, <2>3 DEF RunState
  <1> QED
    BY <1>1, <1>2, <1>3, <1>4, <1>5, <1>6 DEF Moved

\* A stage that is done hands over to the next one that is asked for, or to the end.
LEMMA PassedShape ==
  ASSUME NEW r \in RunState
  PROVE  LET p == Passed(r)
         IN  /\ p \in RunState
             /\ p.job = r.job /\ p.next = r.next /\ p.image = r.image /\ p.extra = r.extra
             /\ p.retries = 0 /\ p.pc \in {"post", "finish"}
             /\ p.pc = "post" => p.at > r.at /\ Order[p.at] \in Requested[r.job]
             /\ Done(p) \in r.at..6
             /\ \A k \in r.at + 1..Done(p) : Order[k] \notin Requested[r.job]
  <1> DEFINE later == Later(r.job, r.at)
             p == Passed(r)
  <1>1. r.at \in 1..6 /\ Len(Order) = 6
    BY OrderShape DEF RunState
  <1>2. p = Moved(r, IF later = {} THEN r.at ELSE Min(later),
                  IF later = {} THEN "finish" ELSE "post")
    BY DEF Passed, Moved
  <1>3. later # {} => /\ Min(later) \in later
                      /\ \A k \in later : Min(later) <= k
    BY <1>1, MinOfLater
  <1>4. \A k : k \in later <=> k \in r.at + 1..6 /\ Order[k] \in Requested[r.job]
    BY <1>1 DEF Later
  <1> HIDE DEF later, p
  <1>5. CASE later = {}
    <2>1. p = Moved(r, r.at, "finish")
      BY <1>2, <1>5
    <2>2. /\ p \in RunState
          /\ p.job = r.job /\ p.next = r.next /\ p.image = r.image /\ p.extra = r.extra
          /\ p.retries = 0 /\ p.pc = "finish"
      BY <1>1, <2>1, RunFields
    <2> QED
      BY <1>1, <1>4, <1>5, <2>2 DEF Done, p
  <1>6. CASE later # {}
    <2> DEFINE first == Min(later)
    <2>1. /\ first \in r.at + 1..6 /\ Order[first] \in Requested[r.job]
          /\ \A k \in later : first <= k
      BY <1>3, <1>4, <1>6
    <2>2. p = Moved(r, first, "post")
      BY <1>2, <1>6
    <2> HIDE DEF first
    <2>3. first \in 1..6
      BY <1>1, <2>1
    <2>4. /\ p \in RunState
          /\ p.job = r.job /\ p.next = r.next /\ p.image = r.image /\ p.extra = r.extra
          /\ p.retries = 0 /\ p.pc = "post" /\ p.at = first
      BY <2>2, <2>3, RunFields
    <2>5. Done(p) = first - 1
      BY <2>4 DEF Done
    <2> QED
      BY <1>1, <1>4, <2>1, <2>4, <2>5 DEF p
  <1> QED
    BY <1>5, <1>6

\* The image keeps what it must have when the run goes to that stage.
LEMMA PassedImage ==
  ASSUME NEW r \in RunState, NEW b,
         r.image = Made(r.job, b, r.at), r.extra = Variant(r.job, b, r.at)
  PROVE  ImageOf(Passed(r), b)
  <1> DEFINE p == Passed(r)
             j == r.job
             n == r.at
             m == Done(p)
  <1>1. /\ p.job = r.job /\ p.image = r.image /\ p.extra = r.extra
        /\ p.pc \in {"post", "finish"}
        /\ p.pc = "post" => p.at > r.at /\ Order[p.at] \in Requested[r.job]
        /\ m \in n..6
        /\ \A k \in n + 1..m : Order[k] \notin Requested[j]
    BY PassedShape
  <1>2. n \in 1..6
    BY OrderShape DEF RunState
  <1>3. p.pc = "post" => p.at \in 1..6
    BY PassedShape, OrderShape DEF RunState
  <1> HIDE DEF p, n, m, j
  <1>4. Made(j, b, m) = Made(j, b, n) /\ Variant(j, b, m) = Variant(j, b, n)
    <2>1. n \in 0..6
      BY <1>2
    <2> QED
      BY <1>1, <2>1, NothingBetween
  <1>5. p.pc = "post" => p.at > 1
    BY <1>1, <1>2, <1>3 DEF n
  <1> QED
    BY <1>1, <1>4, <1>5 DEF ImageOf, p, n, m, j

-----------------------------------------------------------------------------
\* A stage that is begun again, a reference that can be used, a treated image, and a
\* run that fails.
Again ==
    /\ SampleOutOfMemory /\ run.retries < StageMaxRetries
    /\ run' = [run EXCEPT !.pc = "generate", !.next = 1, !.retries = run.retries + 1]
    /\ UNCHANGED jobVars

Usable == Validate /\ run' = Passed(run) /\ UNCHANGED jobVars

Treats ==
    \/ Stage = "gfpgan" /\ run' = Passed(Restored(run))
    \/ Stage = "realesrgan" /\ run' = Passed(Upscaled(run))
    \/ Stage = "bg_removal" /\ run' = Passed(CutOut(run))

Fails == run.job \in Jobs /\ \E transient \in BOOLEAN : StageFails(transient)

\* Each step, by what it does to the run.
LEMMA Kinds ==
  ASSUME TypeOK, Next
  PROVE  \/ Fails /\ restarts' = restarts
         \/ Finish \/ Restart \/ (\E j \in Jobs : Start(j))
         \/ TryBackend \/ Sample \/ Again \/ Usable
         \/ Postprocess /\ Treats
  <1> USE DEF TypeOK
  <1>0. run.pc # "idle" => run.job \in Jobs
    BY DEF RunState
  <1>1. CASE Restart \/ Finish \/ TryBackend \/ Sample \/ \E j \in Jobs : Start(j)
    BY <1>1
  <1>2. CASE ReferenceUnreadable
    BY <1>0, <1>2 DEF ReferenceUnreadable, Fails
  <1>3. CASE NoBackend
    BY <1>0, <1>3 DEF NoBackend, Fails
  <1>4. CASE SampleOutOfMemory
    BY <1>0, <1>4 DEF SampleOutOfMemory, Again, Fails
  <1>5. CASE SampleBreaks
    BY <1>0, <1>5 DEF SampleBreaks, Fails
  <1>6. CASE Validate
    BY <1>0, <1>6 DEF Validate, Usable, Fails
  <1>7. CASE Postprocess
    BY <1>7 DEF Postprocess, Treats, ModelOf
  <1>8. CASE PostprocessCrashes
    BY <1>0, <1>8 DEF PostprocessCrashes, Fails
  <1> QED
    BY <1>1, <1>2, <1>3, <1>4, <1>5, <1>6, <1>7, <1>8 DEF Next, RunStep

\* A run that fails leaves no trace but the status.
LEMMA FailsShape ==
  ASSUME TypeOK, Fails
  PROVE  /\ run' = IdleRun /\ UNCHANGED <<attempts, output>>
         /\ \E s \in {"queued", "failed"} :
              /\ status' = [status EXCEPT ![run.job] = s]
              /\ s = "queued" => attempts[run.job] < MaxRetries
  BY DEF Fails, StageFails, TypeOK

\* Only the death of the process forgets what became of a model.
Remembers ==
    /\ pool' \in [Models -> {"absent", "loaded", "none"}]
    /\ \A m \in Models : pool[m] # "absent" => pool'[m] = pool[m]

\* After get_model the outcome is known, and what was known before is still known.
LEMMA ObtainsShape ==
  ASSUME TypeOK, NEW m \in Models, Obtains(m)
  PROVE  Remembers /\ pool'[m] \in {"loaded", "none"}
  BY DEF Obtains, Remembers, TypeOK

\* The backend that is tried is one of the generators.
LEMMA BackendIsModel ==
  ASSUME run.next <= Len(Candidates(run.job)), run.next \in 1..4
  PROVE  Backend \in Generators /\ Backend \in Models
  <1>1. run.next \in 1..Len(Candidates(run.job))
    BY CandidatesShape
  <1> QED
    BY <1>1, CandidatesShape, ElementOfSeq DEF Backend, Models

\* The setting never changes, and the pool forgets nothing while the process lives.
LEMMA PoolStep ==
  ASSUME TypeOK, TriedInv, Next
  PROVE  /\ backend' = backend
         /\ pool' \in [Models -> {"absent", "loaded", "none"}]
         /\ Remembers \/ Restart
  <1> USE DEF TypeOK
  <1>1. UNCHANGED pool => Remembers
    BY DEF Remembers
  <1>2. CASE Restart
    BY <1>2 DEF Restart, Started
  <1>3. CASE Finish \/ NoBackend \/ SampleOutOfMemory \/ SampleBreaks \/ Validate
             \/ \E j \in Jobs : Start(j)
    BY <1>1, <1>3 DEF Finish, NoBackend, SampleOutOfMemory, SampleBreaks, Validate, Start, Remembers
  <1>4. CASE TryBackend \/ ReferenceUnreadable
    <2>1. Obtains(Backend) /\ backend' = backend /\ ~Exhausted
      BY <1>4 DEF TryBackend, ReferenceUnreadable
    <2>2. Backend \in Models
      BY <2>1, BackendIsModel, CandidatesShape DEF Exhausted, RunState
    <2> QED
      BY <2>1, <2>2, ObtainsShape DEF Remembers
  <1>5. CASE Sample
    <2>1. backend' = backend /\ (UNCHANGED pool \/ Obtains("inswapper"))
      BY <1>5 DEF Sample
    <2>2. "inswapper" \in Models
      BY DEF Models
    <2> QED
      BY <1>1, <2>1, <2>2, ObtainsShape DEF Remembers
  <1>6. CASE Postprocess \/ PostprocessCrashes
    <2>1. /\ backend' = backend /\ Stage \in DOMAIN ModelOf
          /\ UNCHANGED pool \/ Obtains(ModelOf[Stage])
      BY <1>6 DEF Postprocess, PostprocessCrashes
    <2>2. ModelOf[Stage] \in Models
      BY <2>1 DEF ModelOf, Models
    <2> QED
      BY <1>1, <2>1, <2>2, ObtainsShape DEF Remembers
  <1> QED
    BY <1>2, <1>3, <1>4, <1>5, <1>6 DEF Next, RunStep

\* Between runs.
LEMMA IdleIsRun == IdleRun \in RunState /\ IdleRun.pc = "idle" /\ IdleRun.job = None
  <1>1. /\ Len(Order) = 6 /\ 0 \in 0..StageMaxRetries /\ NoImage \in Seq(Steps)
    BY OrderShape, GenerationAssumption DEF NoImage
  <1> QED
    BY <1>1 DEF IdleRun, RunState

\* What is tried depends on the setting and the job alone.
LEMMA BackendStays ==
  ASSUME backend' = backend
  PROVE  /\ \A j : Candidates(j)' = Candidates(j)
         /\ run'.job = run.job /\ run'.next = run.next => Backend' = Backend
  BY DEF Backend, Candidates, Conditioned

\* What the three stages make of the run.
LEMMA TreatedShape ==
  ASSUME run \in RunState
  PROVE  /\ Restored(run) \in RunState /\ Upscaled(run) \in RunState /\ CutOut(run) \in RunState
         /\ \A r \in {Restored(run), Upscaled(run), CutOut(run)} :
              r.job = run.job /\ r.next = run.next /\ r.at = run.at
         /\ Restored(run).image = Append(run.image, "gfpgan")
         /\ Restored(run).extra = run.extra
         /\ Upscaled(run).image = Append(run.image, "realesrgan")
         /\ Upscaled(run).extra = run.extra
         /\ CutOut(run).image = run.image /\ CutOut(run).extra = run.image
  <1>1. "gfpgan" \in Steps /\ "realesrgan" \in Steps /\ run.image \in Seq(Steps)
    BY OrderShape DEF Steps, RunState
  <1>2. /\ Append(run.image, "gfpgan") \in Seq(Steps)
        /\ Append(run.image, "realesrgan") \in Seq(Steps)
    BY <1>1, AppendProperties
  <1> QED
    BY <1>1, <1>2 DEF Restored, Upscaled, CutOut, RunState

\* The run with the image of its backend.
LEMMA SampledShape ==
  ASSUME run \in RunState, Backend \in Generators
  PROVE  LET r == [run EXCEPT !.image = <<Backend>>]
         IN  /\ r \in RunState /\ r.job = run.job /\ r.next = run.next /\ r.at = run.at
             /\ r.image = <<Backend>> /\ r.extra = run.extra
  <1>1. <<Backend>> \in Seq(Steps)
    BY DEF Steps
  <1> QED
    BY <1>1 DEF RunState

\* The run that a step leaves behind, when it goes on.
GoesOn == run'.pc # "idle" /\ run'.job = run.job /\ run'.job \in Jobs

\* The run keeps its type; it ends, goes on with its job, or a new one begins.
LEMMA RunTyped ==
  ASSUME TypeOK, TriedInv, Next
  PROVE  /\ run' \in RunState /\ (run'.job = None) = (run'.pc = "idle")
         /\ run' = IdleRun \/ GoesOn \/ \E j \in Jobs : Start(j)
  <1>1. CASE run' = IdleRun
    BY <1>1, IdleIsRun
  <1>2. ASSUME NEW j \in Jobs, Start(j)
        PROVE  /\ run' \in RunState /\ run'.job # None /\ run'.pc # "idle"
    <2>1. run' = [IdleRun EXCEPT !.pc = "generate", !.job = j]
      BY <1>2 DEF Start
    <2>2. j # None
      BY GenerationAssumption
    <2>3. run'.job = j /\ run'.pc = "generate"
      BY <2>1 DEF IdleRun
    <2>4. run' \in RunState
      BY <2>1, IdleIsRun DEF IdleRun, RunState
    <2> QED
      BY <2>2, <2>3, <2>4
  <1>3. run.pc # "idle" => run.job \in Jobs /\ run.job # None
    BY DEF TypeOK, RunState
  <1>4. ASSUME NEW r \in RunState, r.job = run.job, run' = Passed(r), run.pc # "idle"
        PROVE  run' \in RunState /\ GoesOn /\ run'.job # None
    BY <1>3, <1>4, PassedShape DEF GoesOn
  <1>5. CASE TryBackend
    <2>1. run.pc # "idle" /\ run.next \in 1..3
      <3>1. Len(Candidates(run.job)) \in 1..3
        BY CandidatesShape
      <3>2. run.next \in 1..4
        BY DEF TypeOK, RunState
      <3> QED
        <4>1. ~(run.next > Len(Candidates(run.job))) /\ run.pc # "idle"
          BY <1>5, Zenon DEF TryBackend, Exhausted
        <4>2. \A n \in 1..4, l \in 1..3 : ~(n > l) => n \in 1..3
          OBVIOUS
        <4>3. run.next \in 1..3
          BY <3>1, <3>2, <4>1, <4>2, Zenon
        <4> QED
          BY <4>1, <4>3, Zenon
    <2>2. CASE run' = [run EXCEPT !.pc = "sample"]
      BY <1>3, <2>1, <2>2 DEF TypeOK, RunState, GoesOn
    <2>3. CASE run' = [run EXCEPT !.next = run.next + 1]
      <3>1. run.next + 1 \in 1..4
        BY <2>1
      <3> QED
        BY <1>3, <2>1, <2>3, <3>1 DEF TypeOK, RunState, GoesOn
    <2> QED
      BY <1>5, <2>2, <2>3 DEF TryBackend
  <1>6. CASE Sample
    <2>1. Backend \in Generators
      BY <1>6, BackendIsModel DEF Sample, TriedInv, TriedOf, TypeOK, RunState
    <2>2. run.pc # "idle" /\ run' = Passed([run EXCEPT !.image = <<Backend>>])
      BY <1>6 DEF Sample
    <2> QED
      BY <1>4, <2>1, <2>2, SampledShape DEF TypeOK, GoesOn
  <1>7. CASE Again
    <2>1. run.pc # "idle" /\ run.retries + 1 \in 0..StageMaxRetries
      BY <1>7, GenerationAssumption DEF Again, SampleOutOfMemory, TypeOK, RunState
    <2> DEFINE q == [run EXCEPT !.pc = "generate", !.next = 1, !.retries = run.retries + 1]
    <2>2. q.pc = "generate"
      BY DEF TypeOK, RunState
    <2>3. q.job = run.job
      BY DEF TypeOK, RunState
    <2>4. q \in RunState
      <3> DEFINE u == [run EXCEPT !.pc = "generate"]
                 v == [u EXCEPT !.next = 1]
      <3>1. q = [v EXCEPT !.retries = run.retries + 1]
        OBVIOUS
      <3>2. u \in RunState
        BY DEF TypeOK, RunState
      <3> HIDE DEF u
      <3>3. v \in RunState
        BY <3>2 DEF RunState
      <3> HIDE DEF v
      <3> HIDE DEF q
      <3> QED
        BY <2>1, <3>1, <3>3 DEF RunState
    <2>5. run' = q
      BY <1>7 DEF Again
    <2> QED
      BY <1>3, <2>1, <2>2, <2>3, <2>4, <2>5, Zenon DEF GoesOn
  <1>8. CASE Usable
    <2>1. run.pc # "idle" /\ run' = Passed(run)
      BY <1>8 DEF Usable, Validate
    <2> QED
      BY <1>4, <2>1 DEF TypeOK, GoesOn
  <1>9. CASE Postprocess /\ Treats
    <2>1. run.pc # "idle"
      BY <1>9 DEF Postprocess
    <2> QED
      BY <1>4, <1>9, <2>1, TreatedShape DEF TypeOK, Treats, GoesOn
  <1> QED
    <2>1. Fails \/ Finish \/ Restart => run' = IdleRun
      BY FailsShape DEF Finish, Restart
    <2> QED
      BY <1>1, <1>2, <1>5, <1>6, <1>7, <1>8, <1>9, <2>1, Kinds DEF GoesOn

\* Each step, by what it does to the jobs.
LEMMA JobKinds ==
  ASSUME TypeOK, Next
  PROVE  \/ UNCHANGED <<status, attempts, output, restarts>>
         \/ Fails /\ restarts' = restarts
         \/ Finish \/ Restart \/ (\E j \in Jobs : Start(j))
  <1>1. TryBackend \/ Sample => UNCHANGED <<status, attempts, output, restarts>>
    BY DEF TryBackend, Sample, jobVars
  <1>2. Again => UNCHANGED <<status, attempts, output, restarts>>
    BY DEF Again, SampleOutOfMemory, jobVars
  <1>3. Usable => UNCHANGED <<status, attempts, output, restarts>>
    BY DEF Usable, Validate, jobVars
  <1>4. Postprocess => UNCHANGED <<status, attempts, output, restarts>>
    BY DEF Postprocess, jobVars
  <1> QED
    BY <1>1, <1>2, <1>3, <1>4, Kinds

\* Attempts are bounded by the job's own and by the restarts.
LEMMA AttemptsStep ==
  ASSUME TypeOK, AttemptsInv, Next
  PROVE  /\ AttemptsInv'
         /\ status' \in [Jobs -> {"queued", "running", "completed", "failed"}]
         /\ attempts' \in [Jobs -> 0..MaxRetries + MaxRestarts]
         /\ restarts' \in 0..MaxRestarts
  <1> USE GenerationAssumption DEF TypeOK, AttemptsInv
  <1>1. CASE UNCHANGED <<status, attempts, output, restarts>>
    BY <1>1
  <1>2. CASE Fails /\ restarts' = restarts
    <2>1. run.job \in Jobs /\ attempts' = attempts
      BY <1>2, FailsShape DEF Fails
    <2>2. PICK s \in {"queued", "failed"} :
            /\ status' = [status EXCEPT ![run.job] = s]
            /\ s = "queued" => attempts[run.job] < MaxRetries
      BY <1>2, FailsShape
    <2>3. \A j \in Jobs : status'[j] = IF j = run.job THEN s ELSE status[j]
      BY <2>2
    <2>4. status' \in [Jobs -> {"queued", "running", "completed", "failed"}]
      BY <2>1, <2>2
    <2> QED
      BY <1>2, <2>1, <2>2, <2>3, <2>4
  <1>3. CASE Finish
    <2>1. /\ status' = [status EXCEPT ![run.job] = "completed"]
          /\ attempts' = attempts /\ restarts' = restarts
      BY <1>3 DEF Finish
    <2> QED
      BY <2>1
  <1>4. CASE Restart
    <2>1. /\ restarts < MaxRestarts /\ restarts' = restarts + 1 /\ attempts' = attempts
          /\ status' = [j \in Jobs |-> IF j = run.job THEN "queued" ELSE status[j]]
      BY <1>4 DEF Restart
    <2> QED
      BY <2>1
  <1>5. ASSUME NEW j \in Jobs, Start(j)
        PROVE  /\ AttemptsInv'
               /\ status' \in [Jobs -> {"queued", "running", "completed", "failed"}]
               /\ attempts' \in [Jobs -> 0..MaxRetries + MaxRestarts]
               /\ restarts' \in 0..MaxRestarts
    <2>1. /\ status[j] = "queued" /\ status' = [status EXCEPT ![j] = "running"]
          /\ attempts' = [attempts EXCEPT ![j] = attempts[j] + 1] /\ restarts' = restarts
      BY <1>5 DEF Start
    <2>2. attempts[j] \in Nat /\ attempts[j] < MaxRetries + restarts
      BY <2>1
    <2>3. attempts[j] + 1 \in 0..MaxRetries + MaxRestarts
      BY <2>2
    <2> QED
      BY <2>1, <2>2, <2>3
  <1> QED
    BY <1>1, <1>2, <1>3, <1>4, <1>5, JobKinds

\* TriedInv of the next state, with the setting as it is.
LEMMA TriedNext ==
  ASSUME backend' = backend
  PROVE  TriedInv' <=> (run'.pc # "idle" => TriedOf(run', Candidates(run'.job), pool'))
  <1>1. Candidates(run.job)' = Candidates(run'.job)
    BY DEF Candidates, Conditioned
  <1> QED
    BY <1>1, Zenon DEF TriedInv

\* A backend is left only when its model is known to be missing.
LEMMA TriedStep ==
  ASSUME TypeOK, TriedInv, Next
  PROVE  TriedInv'
  <1>1. CASE run' = IdleRun
    BY <1>1, IdleIsRun DEF TriedInv
  <1>2. ASSUME NEW j \in Jobs, Start(j)
        PROVE  TriedInv'
    <2>1. run' = [IdleRun EXCEPT !.pc = "generate", !.job = j] /\ backend' = backend
      BY <1>2 DEF Start
    <2>2. run'.pc = "generate" /\ run'.next = 1 /\ run'.job = j
      BY <2>1 DEF IdleRun
    <2>3. Len(Candidates(j)) \in 1..3 /\ DOMAIN Candidates(j) = 1..Len(Candidates(j))
      BY CandidatesShape, LenProperties
    <2>4. TriedOf(run', Candidates(j), pool')
      BY <2>2, <2>3 DEF TriedOf
    <2> QED
      BY <2>1, <2>2, <2>4, TriedNext
  <1>3. CASE GoesOn
    <2>0. PICK tried : tried = Candidates(run.job)
      OBVIOUS
    <2>1. tried \in Seq(Models) /\ Len(tried) \in 1..3 /\ DOMAIN tried = 1..Len(tried)
          /\ \A n \in 1..Len(tried) : tried[n] \in Models
      <3>1. tried \in Seq(Generators) /\ Len(tried) \in 1..3
        BY <2>0, CandidatesShape
      <3>2. tried \in Seq(Models)
        BY <3>1, SeqMonotonic DEF Models
      <3> QED
        BY <3>1, <3>2, LenProperties, ElementOfSeq
    <2>2. backend' = backend /\ run'.job = run.job
      BY <1>3, PoolStep DEF GoesOn
    <2>3. run.next \in 1..4
      BY DEF TypeOK, RunState
    <2>4. ASSUME run.pc # "idle", Remembers
          PROVE  \A n \in DOMAIN tried : n < run.next => pool'[tried[n]] = "none"
      BY <2>0, <2>1, <2>4 DEF TriedInv, TriedOf, Remembers
    <2>5. ASSUME run.pc \in {"sample", "post", "finish"}, Remembers
          PROVE  run.next <= Len(tried) /\ pool'[tried[run.next]] = "loaded"
      <3>1. run.next <= Len(tried) /\ pool[tried[run.next]] = "loaded"
        BY <2>0, <2>5 DEF TriedInv, TriedOf
      <3>2. tried[run.next] \in Models
        BY <2>1, <2>3, <3>1
      <3> QED
        BY <2>5, <3>1, <3>2 DEF Remembers
    <2>6. ASSUME run.pc \in {"sample", "post", "finish"}, Remembers,
                 run'.next = run.next
          PROVE  TriedOf(run', tried, pool')
      BY <2>1, <2>3, <2>4, <2>5, <2>6 DEF TriedOf
    <2>7. TriedOf(run', tried, pool')
      <3>1. CASE TryBackend
        <4>1. /\ run.pc = "generate" /\ ~(run.next > Len(tried))
              /\ Backend = tried[run.next] /\ Obtains(Backend)
          BY <2>0, <3>1 DEF TryBackend, Exhausted, Backend
        <4>2. run.next \in 1..Len(tried) /\ run.next + 1 \in 1..4
          BY <2>1, <2>3, <4>1
        <4>3. Backend \in Models
          BY <2>1, <4>1, <4>2
        <4>4. Remembers /\ pool'[Backend] \in {"loaded", "none"}
          BY <4>1, <4>3, ObtainsShape
        <4>5. CASE pool'[Backend] = "loaded"
          <5>1. run' = [run EXCEPT !.pc = "sample"]
            BY <3>1, <4>5 DEF TryBackend
          <5>2. run'.pc = "sample" /\ run'.next = run.next
            BY <5>1 DEF TypeOK, RunState
          <5> QED
            BY <2>1, <2>4, <4>1, <4>2, <4>4, <4>5, <5>2 DEF TriedOf
        <4>6. CASE pool'[Backend] = "none"
          <5>1. run' = [run EXCEPT !.next = run.next + 1]
            BY <3>1, <4>6 DEF TryBackend
          <5>2. run'.pc = "generate" /\ run'.next = run.next + 1
            BY <4>1, <5>1 DEF TypeOK, RunState
          <5>3. \A n \in DOMAIN tried : n < run.next + 1 => n < run.next \/ n = run.next
            BY <2>1, <2>3
          <5> QED
            BY <2>1, <2>4, <4>1, <4>2, <4>4, <4>6, <5>2, <5>3 DEF TriedOf
        <4> QED
          BY <4>4, <4>5, <4>6
      <3>2. CASE Sample
        <4>1. run.pc = "sample" /\ run' = Passed([run EXCEPT !.image = <<Backend>>])
          BY <3>2 DEF Sample
        <4>2. Backend \in Generators
          BY <2>0, <2>3, <4>1, BackendIsModel DEF TriedInv, TriedOf
        <4>3. run'.next = run.next
          BY <4>1, <4>2, SampledShape, PassedShape DEF TypeOK
        <4>4. Remembers
          BY <1>3, PoolStep, IdleIsRun DEF Restart, GoesOn
        <4> QED
          BY <2>6, <4>1, <4>3, <4>4
      <3>3. CASE Again
        <4>1. run' = [run EXCEPT !.pc = "generate", !.next = 1, !.retries = run.retries + 1]
          BY <3>3 DEF Again
        <4>2. run'.pc = "generate" /\ run'.next = 1
          BY <4>1 DEF TypeOK, RunState
        <4> QED
          BY <2>1, <4>2 DEF TriedOf
      <3>4. CASE Usable \/ (Postprocess /\ Treats)
        <4>1. run.pc = "post"
          BY <3>4 DEF Usable, Validate, Postprocess
        <4>2. run'.next = run.next
          BY <3>4, TreatedShape, PassedShape DEF Usable, Treats, TypeOK
        <4>3. Remembers
          BY <1>3, PoolStep, IdleIsRun DEF Restart, GoesOn
        <4> QED
          BY <2>6, <4>1, <4>2, <4>3
      <3>5. ASSUME NEW j \in Jobs, Start(j)
            PROVE  FALSE
        BY <1>3, <3>5, GenerationAssumption DEF Start, GoesOn, TypeOK
      <3>6. ~(Fails \/ Finish \/ Restart)
        BY <1>3, FailsShape, IdleIsRun DEF Finish, Restart, GoesOn
      <3> QED
        BY <3>1, <3>2, <3>3, <3>4, <3>5, <3>6, Kinds
    <2> QED
      BY <2>0, <2>2, <2>7, TriedNext
  <1> QED
    BY <1>1, <1>2, <1>3, RunTyped

\* Each stage does to the image what its position says, once.
LEMMA ImageStep ==
  ASSUME TypeOK, TriedInv, ImageInv, Next
  PROVE  ImageInv'
  <1> DEFINE j == run.job
             b == Backend
  <1>1. CASE run' = IdleRun
    BY <1>1 DEF IdleRun, ImageInv, ImageOf
  <1>2. ASSUME NEW i \in Jobs, Start(i)
        PROVE  ImageInv'
    <2>1. run' = [IdleRun EXCEPT !.pc = "generate", !.job = i]
      BY <1>2 DEF Start
    <2>2. /\ run'.pc = "generate" /\ run'.image = NoImage /\ run'.extra = NoImage
          /\ run'.at = 1
      BY <2>1 DEF IdleRun
    <2> QED
      BY <2>2 DEF ImageInv, ImageOf
  <1>3. backend' = backend
    BY PoolStep
  <1>4. ASSUME NEW r \in RunState, run' = Passed(r), r.job = run.job, r.next = run.next,
               r.image = Made(r.job, Backend, r.at), r.extra = Variant(r.job, Backend, r.at)
        PROVE  ImageInv'
    <2>1. ImageOf(run', Backend)
      BY <1>4, PassedImage
    <2>2. Backend' = Backend
      BY <1>3, <1>4, PassedShape, BackendStays
    <2> QED
      BY <2>1, <2>2, Zenon DEF ImageInv
  <1>5. run.pc \in {"sample", "post", "finish"} => Backend \in Generators
    BY BackendIsModel DEF TriedInv, TriedOf, TypeOK, RunState
  <1>6. run.pc = "post" => /\ run.at \in 2..6
                           /\ Order[run.at] \in Requested[run.job]
                           /\ run.image = Made(run.job, Backend, run.at - 1)
                           /\ run.extra = Variant(run.job, Backend, run.at - 1)
    BY OrderShape DEF ImageInv, ImageOf, Done, TypeOK, RunState
  <1>7. CASE TryBackend
    <2>1. run.pc = "generate"
      BY <1>7 DEF TryBackend
    <2>2. /\ run'.pc \in {"generate", "sample"} /\ run'.image = run.image
          /\ run'.extra = run.extra /\ run'.at = run.at
      BY <1>7, <2>1 DEF TryBackend, TypeOK, RunState
    <2> QED
      BY <2>1, <2>2 DEF ImageInv, ImageOf
  <1>8. CASE Sample
    <2> DEFINE r == [run EXCEPT !.image = <<Backend>>]
    <2>1. run.pc = "sample" /\ run' = Passed(r)
      BY <1>8 DEF Sample
    <2>2. Backend \in Generators
      BY <1>5, <2>1
    <2>3. /\ r \in RunState /\ r.job = run.job /\ r.next = run.next /\ r.at = run.at
          /\ r.image = <<Backend>> /\ r.extra = run.extra
      BY <2>2, SampledShape DEF TypeOK
    <2>4. run.at = 1 /\ run.extra = NoImage
      BY <2>1 DEF ImageInv, ImageOf
    <2> HIDE DEF r
    <2>5. Made(run.job, Backend, 1) = <<Backend>> /\ Variant(run.job, Backend, 1) = NoImage
      BY <2>2, MadeSteps DEF Variant
    <2> QED
      BY <1>4, <2>1, <2>3, <2>4, <2>5
  <1>9. CASE Again
    <2>1. /\ run.pc = "sample"
          /\ run' = [run EXCEPT !.pc = "generate", !.next = 1, !.retries = run.retries + 1]
      BY <1>9 DEF Again, SampleOutOfMemory
    <2>2. run'.pc = "generate" /\ run'.at = run.at
      BY <2>1 DEF TypeOK, RunState
    <2>3. run'.image = run.image /\ run'.extra = run.extra
      BY <2>1 DEF TypeOK, RunState
    <2> QED
      BY <2>1, <2>2, <2>3 DEF ImageInv, ImageOf
  <1>10. CASE Usable
    <2>1. run.pc = "post" /\ Stage \in {"instantid", "controlnet"} /\ run' = Passed(run)
      BY <1>10 DEF Usable, Validate
    <2>2. run.at \in 2..3
      BY <1>6, <2>1, OrderShape DEF Stage
    <2>3. Made(run.job, Backend, run.at) = Made(run.job, Backend, run.at - 1)
      BY <1>5, <2>1, <2>2, MadeSteps
    <2>4. Variant(run.job, Backend, run.at) = Variant(run.job, Backend, run.at - 1)
      BY <2>2 DEF Variant
    <2> QED
      BY <1>4, <1>6, <2>1, <2>3, <2>4 DEF TypeOK
  <1>11. CASE Postprocess /\ Treats
    <2>1. run.pc = "post"
      BY <1>11 DEF Postprocess
    <2>2. CASE Stage = "gfpgan" /\ run' = Passed(Restored(run))
      <3>1. run.at = 4
        BY <1>6, <2>1, <2>2, OrderShape DEF Stage
      <3>2. Made(run.job, Backend, 4) = Append(Made(run.job, Backend, 3), "gfpgan")
        BY <1>5, <1>6, <2>1, <3>1, MadeSteps, OrderShape
      <3>3. Variant(run.job, Backend, 4) = Variant(run.job, Backend, 3)
        BY DEF Variant
      <3> QED
        <4>1. /\ run.image = Made(run.job, Backend, 3)
              /\ run.extra = Variant(run.job, Backend, 3)
          BY <1>6, <2>1, <3>1
        <4> DEFINE t == Restored(run)
        <4>2. /\ t \in RunState /\ t.job = run.job /\ t.next = run.next /\ t.at = 4
              /\ t.image = Made(run.job, Backend, 4) /\ t.extra = Variant(run.job, Backend, 4)
          BY <3>1, <3>2, <3>3, <4>1, TreatedShape DEF TypeOK
        <4> HIDE DEF t
        <4>3. run' = Passed(t)
          BY <2>2 DEF t
        <4> QED
          BY <1>4, <4>2, <4>3
    <2>3. CASE Stage = "realesrgan" /\ run' = Passed(Upscaled(run))
      <3>1. run.at = 5
        BY <1>6, <2>1, <2>3, OrderShape DEF Stage
      <3>2. Made(run.job, Backend, 5) = Append(Made(run.job, Backend, 4), "realesrgan")
        BY <1>5, <1>6, <2>1, <3>1, MadeSteps, OrderShape
      <3>3. Variant(run.job, Backend, 5) = Variant(run.job, Backend, 4)
        BY DEF Variant
      <3> QED
        <4>1. /\ run.image = Made(run.job, Backend, 4)
              /\ run.extra = Variant(run.job, Backend, 4)
          BY <1>6, <2>1, <3>1
        <4> DEFINE t == Upscaled(run)
        <4>2. /\ t \in RunState /\ t.job = run.job /\ t.next = run.next /\ t.at = 5
              /\ t.image = Made(run.job, Backend, 5) /\ t.extra = Variant(run.job, Backend, 5)
          BY <3>1, <3>2, <3>3, <4>1, TreatedShape DEF TypeOK
        <4> HIDE DEF t
        <4>3. run' = Passed(t)
          BY <2>3 DEF t
        <4> QED
          BY <1>4, <4>2, <4>3
    <2>4. CASE Stage = "bg_removal" /\ run' = Passed(CutOut(run))
      <3>1. run.at = 6
        BY <1>6, <2>1, <2>4, OrderShape DEF Stage
      <3>2. Made(run.job, Backend, 6) = Made(run.job, Backend, 5)
        BY <1>5, <2>1, MadeSteps
      <3>3. Variant(run.job, Backend, 6) = Made(run.job, Backend, 6)
        BY <1>6, <2>1, <3>1, OrderShape DEF Variant
      <3> QED
        BY <1>4, <1>6, <2>1, <2>4, <3>1, <3>2, <3>3, TreatedShape DEF TypeOK
    <2> QED
      BY <1>11, <2>2, <2>3, <2>4 DEF Treats
  <1> QED
    <2>1. Fails \/ Finish \/ Restart => run' = IdleRun
      BY FailsShape DEF Finish, Restart
    <2> QED
      BY <1>1, <1>2, <1>7, <1>8, <1>9, <1>10, <1>11, <2>1, Kinds

\* The outputs' conjunct of TypeOK.
OutputType == output \in [Jobs -> [image: Seq(Steps), extra: Seq(Steps)]]

\* Only Finish stores an output, and what it stores is whole.
LEMMA OutputStep ==
  ASSUME TypeOK, TriedInv, ImageInv, OutputIsWhole, Next
  PROVE  OutputIsWhole' /\ OutputType'
  <1>1. CASE UNCHANGED <<status, attempts, output, restarts>>
    BY <1>1 DEF OutputIsWhole, OutputType, TypeOK
  <1>2. CASE Fails /\ restarts' = restarts
    <2>1. output' = output /\ \A j \in Jobs : status'[j] = "completed" => status[j] = "completed"
      BY <1>2, FailsShape DEF TypeOK
    <2> QED
      BY <2>1 DEF OutputIsWhole, OutputType, TypeOK
  <1>3. CASE Restart \/ \E j \in Jobs : Start(j)
    <2>1. output' = output /\ \A j \in Jobs : status'[j] = "completed" => status[j] = "completed"
      BY <1>3 DEF Restart, Start, TypeOK
    <2> QED
      BY <2>1 DEF OutputIsWhole, OutputType, TypeOK
  <1>4. CASE Finish
    <2>1. /\ run.pc = "finish" /\ run.job \in Jobs
          /\ output' = [output EXCEPT ![run.job] = [image |-> run.image, extra |-> run.extra]]
          /\ status' = [status EXCEPT ![run.job] = "completed"]
      BY <1>4 DEF Finish, TypeOK, RunState
    <2>2. Backend \in Generators
      BY <2>1, BackendIsModel DEF TriedInv, TriedOf, TypeOK, RunState
    <2>3. /\ run.image = Made(run.job, Backend, 6)
          /\ run.extra = Variant(run.job, Backend, 6)
      BY <2>1, OrderShape DEF ImageInv, ImageOf, Done
    <2>4. /\ run.image # NoImage /\ run.image[1] \in Generators
          /\ Tail(run.image) = Asked(run.job, "gfpgan") \o Asked(run.job, "realesrgan")
      BY <2>2, <2>3, Wholeness
    <2>5. run.extra = IF "bg_removal" \in Requested[run.job] THEN run.image ELSE NoImage
      BY <2>3 DEF Variant
    <2>6. /\ \A j \in Jobs : j # run.job => status'[j] = status[j] /\ output'[j] = output[j]
          /\ output'[run.job].image = run.image /\ output'[run.job].extra = run.extra
      BY <2>1 DEF TypeOK
    <2>7. OutputIsWhole'
      <3> SUFFICES ASSUME NEW j \in Jobs, status'[j] = "completed"
                   PROVE  /\ output'[j].image # NoImage /\ output'[j].image[1] \in Generators
                          /\ Tail(output'[j].image) = Asked(j, "gfpgan") \o Asked(j, "realesrgan")
                          /\ output'[j].extra = IF "bg_removal" \in Requested[j]
                                                THEN output'[j].image ELSE NoImage
        BY DEF OutputIsWhole
      <3>1. CASE j = run.job
        BY <2>4, <2>5, <2>6, <3>1
      <3>2. CASE j # run.job
        BY <2>6, <3>2 DEF OutputIsWhole
      <3> QED
        BY <3>1, <3>2
    <2>8. OutputType'
      BY <2>1 DEF OutputType, TypeOK, RunState
    <2> QED
      BY <2>7, <2>8
  <1> QED
    BY <1>1, <1>2, <1>3, <1>4, JobKinds

-----------------------------------------------------------------------------
\* The invariant holds at first ...
LEMMA InitHolds ==
  ASSUME Init
  PROVE  IInv
  <1>1. TypeOK
    <2>1. NoImage \in Seq(Steps)
      BY DEF NoImage
    <2> QED
      BY <2>1, IdleIsRun, GenerationAssumption DEF Init, TypeOK
  <1>2. AttemptsInv
    BY GenerationAssumption DEF Init, AttemptsInv
  <1>3. TriedInv /\ ImageInv /\ OutputIsWhole
    BY DEF Init, IdleRun, TriedInv, ImageInv, ImageOf, OutputIsWhole
  <1> QED
    BY <1>1, <1>2, <1>3 DEF IInv

\* ... and every step keeps it.
LEMMA StepHolds ==
  ASSUME IInv, [Next]_vars
  PROVE  IInv'
  <1>1. CASE Next
    <2>1. AttemptsInv' /\ TriedInv' /\ ImageInv' /\ OutputIsWhole'
      BY <1>1, AttemptsStep, TriedStep, ImageStep, OutputStep DEF IInv
    <2>2. /\ backend' \in Backends
          /\ pool' \in [Models -> {"absent", "loaded", "none"}]
          /\ run' \in RunState /\ (run'.job = None) = (run'.pc = "idle")
      BY <1>1, PoolStep, RunTyped DEF IInv, TypeOK
    <2>3. OutputType'
      BY <1>1, OutputStep DEF IInv
    <2>4. /\ status' \in [Jobs -> {"queued", "running", "completed", "failed"}]
          /\ attempts' \in [Jobs -> 0..MaxRetries + MaxRestarts]
          /\ restarts' \in 0..MaxRestarts
      BY <1>1, AttemptsStep DEF IInv
    <2>5. TypeOK'
      BY <2>2, <2>3, <2>4 DEF TypeOK, OutputType
    <2> QED
      BY <2>1, <2>5 DEF IInv
  <1>2. CASE UNCHANGED vars
    <2>1. UNCHANGED <<backend, pool, run, status, attempts, output, restarts>>
      BY <1>2 DEF vars
    <2>2. TypeOK' /\ AttemptsInv' /\ OutputIsWhole'
      BY <2>1 DEF IInv, TypeOK, AttemptsInv, OutputIsWhole
    <2>3. Backend' = Backend /\ Candidates(run.job)' = Candidates(run.job)
      BY <2>1 DEF Backend, Candidates, Conditioned
    <2> QED
      BY <2>1, <2>2, <2>3 DEF IInv, TriedInv, ImageInv
  <1> QED
    BY <1>1, <1>2

\* The invariant of the worker process: types, attempts, what was tried, the image so far.
THEOREM InvariantHolds == Spec => []IInv
  BY InitHolds, StepHolds, PTL DEF Spec

\* For all jobs, requests and bounds each variable keeps its type; a job begins no more
\* runs than its retries and the restarts of the process allow.
THEOREM TypeCorrect == Spec => []TypeOK
  <1>1. IInv => TypeOK
    BY DEF IInv
  <1> QED
    BY <1>1, InvariantHolds, PTL

\* What a completed job stores has every requested treatment once, in the canonical
\* order, whatever was retried (run_job, run_stage, _persist_outputs).
THEOREM OutputIsWholeCorrect == Spec => []OutputIsWhole
  <1>1. IInv => OutputIsWhole
    BY DEF IInv
  <1> QED
    BY <1>1, InvariantHolds, PTL

\* The position that made the image answers for every backend.
LEMMA ImageIsOfTheBest ==
  ASSUME IInv
  PROVE  BestBackend
  <1> SUFFICES ASSUME run.image # NoImage
               PROVE  LET tried == Candidates(run.job)
                      IN  \A n \in DOMAIN tried :
                            /\ tried[n] = run.image[1] => pool[tried[n]] = "loaded"
                            /\ (\A m \in 1..n : tried[m] # run.image[1]) => pool[tried[n]] = "none"
    BY DEF BestBackend
  <1> PICK tried : tried = Candidates(run.job)
    OBVIOUS
  <1>1. run.pc \in {"post", "finish"} /\ run.image = Made(run.job, Backend, Done(run))
    BY DEF IInv, ImageInv, ImageOf
  <1>2. /\ \A n \in DOMAIN tried : n < run.next => pool[tried[n]] = "none"
        /\ run.next <= Len(tried) /\ pool[tried[run.next]] = "loaded"
    BY <1>1 DEF IInv, TriedInv, TriedOf
  <1>3. /\ run.next \in 1..4 /\ Done(run) \in 0..6
    BY <1>1, OrderShape DEF IInv, TypeOK, RunState, Done
  <1>4. Len(tried) \in 1..3 /\ DOMAIN tried = 1..Len(tried)
    BY CandidatesShape, LenProperties
  <1>5. Backend \in Generators /\ Backend = tried[run.next]
    BY <1>2, <1>3, BackendIsModel DEF Backend
  <1>6. run.image[1] = tried[run.next]
    BY <1>1, <1>3, <1>5, MadeSteps
  <1> QED
    <2> SUFFICES ASSUME NEW n \in DOMAIN tried
                 PROVE  /\ tried[n] = run.image[1] => pool[tried[n]] = "loaded"
                        /\ (\A m \in 1..n : tried[m] # run.image[1]) => pool[tried[n]] = "none"
      OBVIOUS
    <2>1. (\A m \in 1..n : tried[m] # run.image[1]) => n < run.next
      BY <1>3, <1>4, <1>6
    <2> QED
      BY <1>2, <1>6, <2>1

\* No image comes from a backend while a better one is available or was never tried
\* (flux.run, loader.get_model).
THEOREM BestBackendCorrect == Spec => []BestBackend
  BY ImageIsOfTheBest, InvariantHolds, PTL

-----------------------------------------------------------------------------
(* The price.                                                              *)

\* q asks for everything that r asks for, and perhaps for more.
AsksForMore(r, q) ==
    /\ r.stages \subseteq q.stages
    /\ r.multiplier <= q.multiplier
    /\ r.outputs <= q.outputs
    /\ r.steps <= q.steps

\* Products of naturals are naturals and keep the order of their factors.
LEMMA Product ==
    ASSUME NEW a \in Nat, NEW b \in Nat, NEW c \in Nat, NEW d \in Nat,
           a <= c, b <= d
    PROVE  a * b \in Nat /\ a * b <= c * d
  <1>1. a * b \in Nat /\ c * b \in Nat /\ c * d \in Nat
    BY SMT
  <1>2. a * b <= c * b
    <2>1. PICK e \in Nat : c = a + e
      BY SMT
    <2>2. c * b = a * b + e * b /\ e * b \in Nat
      BY <2>1, SMT
    <2> QED
      BY <1>1, <2>2, SMT
  <1>3. c * b <= c * d
    <2>1. PICK e \in Nat : d = b + e
      BY SMT
    <2>2. c * d = c * b + c * e /\ c * e \in Nat
      BY <2>1, SMT
    <2> QED
      BY <1>1, <2>2, SMT
  <1> QED
    BY <1>1, <1>2, <1>3, SMT

\* math.ceil: the least number of credits that covers n.
LEMMA CeilingCovers ==
    ASSUME NEW n \in Nat
    PROVE  /\ Ceiling(n) \in Nat
           /\ Ceiling(n) * Scale >= n
           /\ Ceiling(n) * Scale < n + Scale
           /\ n % Scale = 0 => Ceiling(n) * Scale = n
  BY SMT DEF Ceiling, Scale

\* More stages never have a smaller surcharge.
LEMMA SurchargeGrows ==
    ASSUME NEW S, NEW T, S \subseteq T
    PROVE  /\ Surcharge(ValidatedStages(S)) \in Nat
           /\ Surcharge(ValidatedStages(S)) <= Surcharge(ValidatedStages(T))
  <1> DEFINE V == ValidatedStages(S)
             W == ValidatedStages(T)
  <1>1. V \subseteq W
    BY DEF ValidatedStages
  <1>2. \A s \in AllStages : StageSurcharge[s] \in Nat
    BY DEF StageSurcharge, AllStages
  <1>3. \A s \in AllStages : /\ Extra(V, s) \in Nat
                             /\ Extra(W, s) \in Nat
                             /\ Extra(V, s) <= Extra(W, s)
    BY <1>1, <1>2, SMT DEF Extra
  <1>4. {"instantid", "controlnet", "gfpgan", "realesrgan", "bg_removal"} \subseteq AllStages
    BY DEF AllStages
  <1> HIDE DEF V, W
  <1>5. Surcharge(V) \in Nat /\ Surcharge(V) <= Surcharge(W)
    BY <1>3, <1>4, SMT DEF Surcharge
  <1> QED
    BY <1>5 DEF V, W

LEMMA RequestTypes ==
    ASSUME NEW r \in Request
    PROVE  /\ r.stages \subseteq AllStages /\ r.multiplier \in Int
           /\ r.outputs \in Nat /\ r.outputs >= 1 /\ r.steps \in Nat
  <1>1. /\ r.stages \in SUBSET AllStages /\ r.multiplier \in Multiplier
        /\ r.outputs \in 1..4 /\ r.steps \in 1..MaxSteps
    BY DEF Request
  <1>2. r.multiplier \in Int
    BY <1>1, SMT DEF Multiplier
  <1>3. r.outputs \in Nat /\ r.outputs >= 1 /\ r.steps \in Nat
    BY <1>1, SMT DEF MaxSteps
  <1> QED
    BY <1>1, <1>2, <1>3

\* The factors of a price, each at least as large for the request that asks for more.
LEMMA FactorsGrow ==
    ASSUME NEW r \in Request, NEW q \in Request, AsksForMore(r, q)
    PROVE  /\ AtLeast(100, r.multiplier) * r.outputs \in Nat
           /\ AtLeast(100, r.multiplier) * r.outputs >= 100
           /\ AtLeast(100, r.multiplier) * r.outputs <= AtLeast(100, q.multiplier) * q.outputs
           /\ StepFactor(r.steps) \in Nat /\ StepFactor(r.steps) >= 60
           /\ StepFactor(r.steps) <= StepFactor(q.steps)
  <1>1. /\ r.multiplier \in Int /\ q.multiplier \in Int
        /\ r.outputs \in Nat /\ q.outputs \in Nat /\ r.outputs >= 1
        /\ r.steps \in Nat /\ q.steps \in Nat
    BY RequestTypes
  <1>2. r.multiplier <= q.multiplier /\ r.outputs <= q.outputs /\ r.steps <= q.steps
    BY DEF AsksForMore
  <1>3. /\ AtLeast(100, r.multiplier) \in Nat /\ AtLeast(100, q.multiplier) \in Nat
        /\ AtLeast(100, r.multiplier) <= AtLeast(100, q.multiplier)
        /\ AtLeast(100, r.multiplier) >= 100
    BY <1>1, <1>2, SMT DEF AtLeast
  <1>4. /\ StepFactor(r.steps) \in Nat /\ StepFactor(r.steps) >= 60
        /\ StepFactor(r.steps) <= StepFactor(q.steps)
    BY <1>1, <1>2, SMT DEF StepFactor
  <1> DEFINE m == AtLeast(100, r.multiplier)
             k == AtLeast(100, q.multiplier)
  <1> HIDE DEF m, k
  <1>5. m * r.outputs \in Nat /\ m * r.outputs <= k * q.outputs
    BY <1>1, <1>2, <1>3, Product DEF m, k
  <1>6. 100 * 1 <= m * r.outputs
    BY <1>1, <1>3, Product DEF m
  <1> QED
    BY <1>4, <1>5, <1>6, SMT DEF m, k

\* The exact price is a natural number, of one credit at least if the base costs one,
\* and grows with the request.
LEMMA RawGrows ==
    ASSUME NEW r \in Request, NEW q \in Request, AsksForMore(r, q)
    PROVE  /\ Raw(r) \in Nat
           /\ BaseCost >= 1 => Raw(r) >= Scale
           /\ Raw(r) <= Raw(q)
  <1> DEFINE a == BaseCost + Surcharge(ValidatedStages(r.stages))
             b == AtLeast(100, r.multiplier) * r.outputs
             c == StepFactor(r.steps)
             x == BaseCost + Surcharge(ValidatedStages(q.stages))
             y == AtLeast(100, q.multiplier) * q.outputs
             z == StepFactor(q.steps)
  <1>0. AsksForMore(q, q)
    BY RequestTypes, SMT DEF AsksForMore
  <1>1. /\ a \in Nat /\ x \in Nat /\ a <= x
        /\ BaseCost >= 1 => a >= 1
    <2>1. BaseCost \in Nat
      BY PricingAssumption, SMT
    <2> QED
      BY <2>1, SurchargeGrows, SMT DEF AsksForMore
  <1>2. b \in Nat /\ b >= 100 /\ b <= y /\ c \in Nat /\ c >= 60 /\ c <= z
    BY FactorsGrow
  <1>3. y \in Nat /\ z \in Nat
    BY <1>0, FactorsGrow
  <1>4. Raw(r) = (a * b) * c /\ Raw(q) = (x * y) * z
    BY DEF Raw
  <1> HIDE DEF a, b, c, x, y, z
  <1>5. a * b \in Nat /\ x * y \in Nat /\ a * b <= x * y
    BY <1>1, <1>2, <1>3, Product
  <1>6. (a * b) * c \in Nat /\ (a * b) * c <= (x * y) * z
    BY <1>2, <1>3, <1>5, Product
  <1>7. ASSUME BaseCost >= 1 PROVE (a * b) * c >= Scale
    <2>1. 1 * 100 <= a * b
      BY <1>1, <1>2, <1>7, Product
    <2>2. (1 * 100) * 60 <= (a * b) * c
      <3>1. 100 * 60 <= (a * b) * c
        BY <1>2, <1>5, <2>1, Product
      <3> QED
        BY <3>1
    <2> QED
      BY <1>6, <2>2, SMT DEF Scale
  <1> QED
    BY <1>4, <1>6, <1>7

\* A job is never free and never cheaper than its exact price; where the base costs at
\* least one credit, as it does by default, it is not dearer by more than one credit, the
\* one that rounding up and the error of the product add between them: what hold, debit
\* and refund move is within a credit of the exact price (pricing.py: price_job).
THEOREM PriceIsFair ==
    ASSUME NEW r \in Request, NEW p \in Prices(r)
    PROVE  /\ p \in Nat /\ p >= 1
           /\ p * Scale >= Raw(r)
           /\ BaseCost >= 1 => p * Scale <= Raw(r) + Scale
  <1>1. AsksForMore(r, r)
    BY RequestTypes, SMT DEF AsksForMore
  <1>2. Raw(r) \in Nat /\ (BaseCost >= 1 => Raw(r) >= Scale)
    BY <1>1, RawGrows
  <1>3. /\ Ceiling(Raw(r)) \in Nat
        /\ Ceiling(Raw(r)) * Scale >= Raw(r)
        /\ Ceiling(Raw(r)) * Scale < Raw(r) + Scale
        /\ Raw(r) % Scale = 0 => Ceiling(Raw(r)) * Scale = Raw(r)
    BY <1>2, CeilingCovers
  <1> DEFINE n == Raw(r)
             k == Ceiling(Raw(r))
  <1>4. p = AtLeast(1, k) \/ (n % Scale = 0 /\ p = AtLeast(1, k) + 1)
    BY DEF Prices, Price, MayExceed
  <1> HIDE DEF n, k
  <1>5. n \in Nat /\ k \in Nat /\ k * Scale >= n /\ k * Scale < n + Scale
    BY <1>2, <1>3 DEF n, k
  <1>6. (n % Scale = 0 => k * Scale = n) /\ (BaseCost >= 1 => n >= Scale)
    BY <1>2, <1>3 DEF n, k
  <1>7. p \in Nat /\ p >= 1 /\ p * Scale >= n
    BY <1>4, <1>5, SMT DEF AtLeast, Scale
  <1>8. BaseCost >= 1 => p * Scale <= n + Scale
    BY <1>4, <1>5, <1>6, SMT DEF AtLeast, Scale
  <1> QED
    BY <1>7, <1>8 DEF n

\* Who asks for more, and for something of a higher exact price, never pays less, even
\* when an error of the product makes the smaller request dearer by one
\* (tests/test_pricing_prompts.py:13: price scales with stages and multiplier).
THEOREM MoreCostsMore ==
    ASSUME NEW r \in Request, NEW q \in Request, AsksForMore(r, q), Raw(r) # Raw(q),
           NEW p \in Prices(r), NEW z \in Prices(q)
    PROVE  p <= z
  <1>1. AsksForMore(q, q)
    BY RequestTypes, SMT DEF AsksForMore
  <1> DEFINE m == Raw(r)
             n == Raw(q)
             k == Ceiling(Raw(r))
             l == Ceiling(Raw(q))
  <1>2. m \in Nat /\ n \in Nat /\ m < n
    BY <1>1, RawGrows, SMT
  <1>3. /\ k \in Nat /\ k * Scale >= m /\ k * Scale < m + Scale
        /\ m % Scale = 0 => k * Scale = m
        /\ l \in Nat /\ l * Scale >= n
    BY <1>2, CeilingCovers
  <1>4. p = AtLeast(1, k) \/ (m > 0 /\ m % Scale = 0 /\ p = AtLeast(1, k) + 1)
    BY DEF Prices, Price, MayExceed
  <1>5. z = AtLeast(1, l) \/ z = AtLeast(1, l) + 1
    BY DEF Prices, Price
  <1> HIDE DEF m, n, k, l
  <1>6. k <= l /\ (m % Scale = 0 => k < l)
    BY <1>2, <1>3, SMT DEF Scale
  <1> QED
    BY <1>2, <1>3, <1>4, <1>5, <1>6, SMT DEF AtLeast, Scale

-----------------------------------------------------------------------------
(* The lists.                                                              *)

\* A page and what lies behind its cursor have no row in common, and a row that is in
\* neither is as old as the last item shown: so a client is shown nothing twice, and all
\* of it when no two rows are equally old ("pages are stable", core/pagination.py:3-4).
THEOREM OnlyTiesAreLost ==
    ASSUME NEW rows, \A x \in rows : x.at \in Int,
           NEW before \in Int, NEW limit \in Nat,
           NEW p \in Pages(rows, before, limit)
    PROVE  /\ p.items \cap Before(rows, Cursor(p)) = {}
           /\ \A x \in Before(rows, before) :
                 x \in p.items \/ x \in Before(rows, Cursor(p)) \/ x.at = Cursor(p)
           /\ (\A x, y \in rows : x.at = y.at => x = y)
                 => Before(rows, before) = p.items \cup Before(rows, Cursor(p))
  <1>1. /\ p.items \subseteq Before(rows, before)
        /\ p.last \in p.items
        /\ \A x \in p.items : x.at >= p.last.at
        /\ \A x \in p.items, y \in Before(rows, before) \ p.items : x.at >= y.at
    BY DEF Pages
  <1> DEFINE items == p.items
             last  == p.last
  <1>2. /\ items \subseteq rows /\ last \in items /\ last.at \in Int
        /\ \A x \in items : x.at < before
    BY <1>1 DEF Before
  <1>3. items \cap Before(rows, Cursor(p)) = {}
    <2>1. \A x \in items : ~(x.at < last.at)
      BY <1>1, <1>2, SMT
    <2> QED
      BY <2>1 DEF Before, Cursor
  <1>4. ASSUME NEW x \in Before(rows, before), x \notin items
        PROVE  x \in Before(rows, Cursor(p)) \/ x.at = Cursor(p)
    <2>1. last.at >= x.at
      BY <1>1, <1>4
    <2>2. x \in rows /\ x.at \in Int
      BY DEF Before
    <2> QED
      BY <1>2, <2>1, <2>2, SMT DEF Before, Cursor
  <1>5. ASSUME \A x, y \in rows : x.at = y.at => x = y
        PROVE  Before(rows, before) = items \cup Before(rows, Cursor(p))
    <2>1. ASSUME NEW x \in Before(rows, before) PROVE x \in items \cup Before(rows, Cursor(p))
      <3>1. x.at = Cursor(p) => x = last
        BY <1>2, <1>5 DEF Before, Cursor
      <3> QED
        BY <1>2, <1>4, <3>1
    <2>2. ASSUME NEW x \in Before(rows, Cursor(p)) PROVE x \in Before(rows, before)
      <3>1. x \in rows /\ x.at \in Int /\ x.at < last.at /\ last.at < before
        BY <1>2, <2>2 DEF Before, Cursor
      <3>2. x.at < before
        BY <1>2, <3>1, SMT
      <3> QED
        BY <3>1, <3>2 DEF Before
    <2> QED
      BY <1>1, <2>1, <2>2
  <1> QED
    BY <1>3, <1>4, <1>5
=============================================================================
