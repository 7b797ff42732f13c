----------------------------- MODULE Onboarding -----------------------------
(***************************************************************************)
(* How a business comes to be: the page that asks an owner a few questions,*)
(* shows the template and the modules the platform recommends for them and *)
(* creates the business (apps/admin/src/app/onboarding/page.tsx), with the *)
(* recommendation the API computes (tenants.controller.ts). Nothing on the *)
(* page is disabled while a recommendation is awaited, so answers can      *)
(* change and a second one be asked for before the first comes. What a     *)
(* creation writes, its slug, modules, content and trial, is left out: the *)
(* modules a business starts with are those of Tenancy.tla.                *)
(***************************************************************************)
EXTENDS Modules, Integers, Sequences, SequencesExt

CONSTANTS
  OnOffer,    \* the templates on the first page
  Questions,  \* the yes-or-no questions an owner answers differently
  MaxAsks     \* bound: recommendations awaited at a time

\* What is assumed of the constants, wherever they are given values.
OnboardingAssumption ==
  /\ OnOffer \subseteq DOMAIN TEMPLATES
  /\ Questions \subseteq {"sellsProducts", "takesBookings", "servesFood", "delivers",
                          "hasEmployeeSchedules", "tracksStock"}
  /\ MaxAsks \in Nat

VARIABLES
  step,            \* the page shown: 0, 1 or 2
  answers,         \* the answers on the page
  asked,           \* the answers recommendations are awaited for
  recommendation,  \* the one the page has, or NoRecommendation
  disturbed,       \* answers were changed while one was awaited
  creating         \* the creation: "no", "sent" or "made"

vars == <<step, answers, asked, recommendation, disturbed, creating>>

-----------------------------------------------------------------------------
NoRecommendation == [template |-> "none", modules |-> {}]

InitialAnswers ==
  [sellsProducts |-> FALSE, takesBookings |-> FALSE, servesFood |-> FALSE, delivers |-> FALSE,
   branchCount |-> 1, hasEmployeeSchedules |-> FALSE, tracksStock |-> FALSE]

\* Picking a template answers the questions beforehand.
Prefilled(t) ==
  [sellsProducts |-> "CATALOG" \in TEMPLATES[t], takesBookings |-> "BOOKING" \in TEMPLATES[t],
   servesFood |-> t = "RESTAURANT", delivers |-> "DELIVERY" \in TEMPLATES[t], branchCount |-> 1,
   hasEmployeeSchedules |-> "EMPLOYEES" \in TEMPLATES[t], tracksStock |-> "INVENTORY" \in TEMPLATES[t]]

\* The recommend endpoint: a pure computation.
Recommended(a) == [template |-> recommendedTemplate(a), modules |-> recommendedModules(a)]

Init ==
  /\ step = 0
  /\ answers = InitialAnswers
  /\ asked = <<>>
  /\ recommendation = NoRecommendation
  /\ disturbed = FALSE
  /\ creating = "no"

-----------------------------------------------------------------------------
(* The page.                                                                 *)

Answer(a) ==
  /\ answers' = a
  /\ disturbed' = (disturbed \/ (asked # <<>> /\ a # answers))
  /\ UNCHANGED <<asked, recommendation, creating>>

Pick(t) == step = 0 /\ step' = 1 /\ Answer(Prefilled(t))

Toggle(q) == step = 1 /\ UNCHANGED step /\ Answer([answers EXCEPT ![q] = ~@])

SetBranchCount(n) == step = 1 /\ UNCHANGED step /\ Answer([answers EXCEPT !.branchCount = n])

\* recommend: the answers of this moment are sent.
recommend ==
  /\ step = 1
  /\ Len(asked) < MaxAsks
  /\ asked' = Append(asked, answers)
  /\ disturbed' = (disturbed /\ asked # <<>>)
  /\ UNCHANGED <<step, answers, recommendation, creating>>

\* A mistake the checks must catch: the page goes on with the recommendation it has.
recommendOnce ==
  IF recommendation = NoRecommendation THEN recommend
  ELSE /\ step = 1 /\ step' = 2
       /\ UNCHANGED <<answers, asked, recommendation, disturbed, creating>>

Continue == recommend

\* Recommendations arrive in any order, on whatever page the owner has gone to.
Recommend(i) ==
  /\ recommendation' = Recommended(asked[i])
  /\ step' = 2
  /\ asked' = RemoveAt(asked, i)
  /\ UNCHANGED <<answers, disturbed, creating>>

RecommendFails(i) ==
  /\ asked' = RemoveAt(asked, i)
  /\ UNCHANGED <<step, answers, recommendation, disturbed, creating>>

Back ==
  /\ step > 0
  /\ step' = step - 1
  /\ UNCHANGED <<answers, asked, recommendation, disturbed, creating>>

\* createBusiness: the template is sent, the modules shown are not.
createBusiness ==
  /\ step = 2
  /\ creating = "no"
  /\ creating' = "sent"
  /\ UNCHANGED <<step, answers, asked, recommendation, disturbed>>

\* TenantsService.create: one transaction.
create ==
  /\ creating = "sent"
  /\ creating' = "made"
  /\ UNCHANGED <<step, answers, asked, recommendation, disturbed>>

\* It was refused, or the answer did not come: the page is as it was, business or not.
CreateFails ==
  /\ creating # "no"
  /\ creating' = "no"
  /\ UNCHANGED <<step, answers, asked, recommendation, disturbed>>

\* The owner leaves for the dashboard, and may come back for another business.
Leave ==
  /\ creating # "sent"
  /\ step' = 0 /\ answers' = InitialAnswers /\ asked' = <<>>
  /\ recommendation' = NoRecommendation /\ disturbed' = FALSE /\ creating' = "no"

Next ==
  \/ \E t \in OnOffer : Pick(t)
  \/ \E q \in Questions : Toggle(q)
  \/ \E n \in 1 .. 2 : SetBranchCount(n)
  \/ Continue \/ Back \/ createBusiness \/ create \/ CreateFails \/ Leave
  \/ \E i \in 1 .. Len(asked) : Recommend(i) \/ RecommendFails(i)

Spec == Init /\ [][Next]_vars

-----------------------------------------------------------------------------
(* What is promised.                                                         *)

\* The page that lets an owner create the business shows what is recommended for the
\* answers it holds, unless they were changed while a recommendation was awaited
\* (recommend, and the buttons that go back).
ShownFitsAnswers == step = 2 /\ ~disturbed => recommendation = Recommended(answers)
=============================================================================
