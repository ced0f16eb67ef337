------------------------------- MODULE Pricing -------------------------------
(***************************************************************************)
(* What a job costs (backend/app/modules/pipeline/pricing.py) for what a   *)
(* client may ask for (schemas.py).  The price is computed once, before    *)
(* the hold, and kept in jobs.cost_credits: hold, debit and refund all     *)
(* move this number.                                                       *)
(*                                                                         *)
(* The code multiplies floating-point numbers and rounds up.  Prices are   *)
(* computed exactly here, in units of 1/Scale credit, and Prices says what *)
(* the rounding of the products can add.                                   *)
(***************************************************************************)
EXTENDS Integers, FiniteSets

CONSTANT BaseCost \* settings.base_job_cost_credits

\* settings takes any number.  Up to this one, the rounding of a product of floats stays
\* far below the distance of an exact price from the next whole one (1/Scale).
MaxBaseCost == 1000000

ASSUME PricingAssumption == BaseCost \in 0..MaxBaseCost

AllStages == {"generate", "instantid", "controlnet", "gfpgan", "realesrgan", "bg_removal"}

\* Unknown names are dropped, and "generate" is always there.
ValidatedStages(requested) == (requested \cup {"generate"}) \cap AllStages

\* A style's multiplier, in hundredths: its column has six digits, two of them decimals.
\* And the parameters that a request may have (MaxSteps is settings.max_steps).
MaxMultiplier == 999999
Multiplier == (-MaxMultiplier)..MaxMultiplier
MaxSteps == 50
Request == [stages: SUBSET AllStages, multiplier: Multiplier, outputs: 1..4, steps: 1..MaxSteps]

StageSurcharge ==
    [s \in AllStages |-> CASE s = "generate" -> 0 [] s = "realesrgan" -> 2 [] OTHER -> 1]

Extra(S, s) == IF s \in S THEN StageSurcharge[s] ELSE 0

Surcharge(S) ==
    Extra(S, "instantid") + Extra(S, "controlnet") + Extra(S, "gfpgan")
      + Extra(S, "realesrgan") + Extra(S, "bg_removal")

AtLeast(floor, n) == IF n < floor THEN floor ELSE n

\* Sixtieths: what a step count above the default tier is charged for.
StepFactor(steps) == IF steps > 30 THEN 60 + (steps - 30) ELSE 60

\* Hundredths times sixtieths of a credit.
Scale == 6000

\* raw, in units of 1/Scale.
Raw(r) == ((BaseCost + Surcharge(ValidatedStages(r.stages)))
             * (AtLeast(100, r.multiplier) * r.outputs)) * StepFactor(r.steps)

\* math.ceil of n / Scale
Ceiling(n) == (n + (Scale - 1)) \div Scale

Price(r) == AtLeast(1, Ceiling(Raw(r)))

\* Floats hold quarters exactly, other hundredths and sixtieths of a credit only nearly.
Inexact(r) == AtLeast(100, r.multiplier) % 25 # 0 \/ StepFactor(r.steps) % 15 # 0

\* A product of inexact factors may come out above the whole number of credits that it
\* should be; math.ceil then adds one.  A product with a base of zero is zero.
MayExceed(r) == Inexact(r) /\ Raw(r) > 0 /\ Raw(r) % Scale = 0

\* What price_job may return.
Prices(r) == IF MayExceed(r) THEN {Price(r), Price(r) + 1} ELSE {Price(r)}

=============================================================================
