------------------------------ MODULE MCOffice ------------------------------
(* Instances, for TLC, of what keeps a back office running: Login,           *)
(* TenantGuard, Catalog, Staff, Desk and Onboarding. They share no state, so *)
(* a behaviour is one of them with the others at rest. Of Catalog there are  *)
(* two: programs that rewrite the links of a product, and pages that edit    *)
(* one with a stock.                                                         *)
EXTENDS Integers

CONSTANTS Requests, Keys, Accounts, NoAccount, AccountOf, MaxLoginAttempts, MaxWrong,
          Tenants, Ids, MaxScopes,
          Employees, Customers, Managers, MaxUpcoming,
          Categories, Groups, Editors, Pages, MaxStock, LinkedGroups, LinkEditors,
          Orders, Bookings, Mine, MaxChanges,
          OnOffer, Questions, MaxAsks

VARIABLES part,
          attempts, expiring, failed, locked, attempt, orphaned, guesses, missed, wrong,
          unwritten, overtaken, crossed, tried,
          owner, scopes, pending, reply, mixed,
          categories, groups, product, links, edit, page, expected, choices, bruised,
          service, employee, upcoming, making, managing,
          row, list, detail, opened, busy, request,
          step, answers, asked, recommendation, disturbed, creating

L == INSTANCE Login WITH Handlers <- Requests
G == INSTANCE TenantGuard
S == INSTANCE Staff
O == INSTANCE Onboarding

D == INSTANCE Desk

Stock == INSTANCE Catalog WITH request <- edit

Links == INSTANCE Catalog WITH
  Categories <- {}, Groups <- LinkedGroups, Editors <- LinkEditors, Pages <- {}, MaxStock <- 0,
  request <- edit

ASSUME ConstantsAssumption ==
  /\ L!LoginAssumption /\ G!GuardAssumption /\ S!StaffAssumption /\ D!DeskAssumption
  /\ O!OnboardingAssumption /\ Links!CatalogAssumption /\ Stock!CatalogAssumption

lVars == <<attempts, expiring, failed, locked, attempt, orphaned, guesses, missed, wrong, unwritten,
           overtaken, crossed, tried>>
gVars == <<owner, scopes, pending, reply, mixed>>
cVars == <<categories, groups, product, links, edit, page, expected, choices, bruised>>
sVars == <<service, employee, upcoming, making, managing>>
dVars == <<row, list, detail, opened, busy, request>>
oVars == <<step, answers, asked, recommendation, disturbed, creating>>

Parts == {"login", "guard", "links", "stock", "staff", "desk", "onboarding"}

\* A desk is at rest when its orders are new.
Init ==
  /\ part \in Parts
  /\ L!Init /\ G!Init /\ S!Init /\ O!Init
  /\ IF part = "stock" THEN Stock!Init ELSE Links!Init
  /\ D!Init
  /\ part # "desk" => DOMAIN row = Orders /\ \A o \in Orders : row[o].status = "NEW"

LoginNext      == L!Next     /\ UNCHANGED <<gVars, cVars, sVars, dVars, oVars>>
GuardNext      == G!Next     /\ UNCHANGED <<lVars, cVars, sVars, dVars, oVars>>
LinksNext      == Links!Next /\ UNCHANGED <<lVars, gVars, sVars, dVars, oVars>>
StockNext      == Stock!Next /\ UNCHANGED <<lVars, gVars, sVars, dVars, oVars>>
StaffNext      == S!Next     /\ UNCHANGED <<lVars, gVars, cVars, dVars, oVars>>
DeskNext       == D!Next     /\ UNCHANGED <<lVars, gVars, cVars, sVars, oVars>>
OnboardingNext == O!Next     /\ UNCHANGED <<lVars, gVars, cVars, sVars, dVars>>

Next ==
  /\ UNCHANGED part
  /\ \/ part = "login" /\ LoginNext
     \/ part = "guard" /\ GuardNext
     \/ part = "links" /\ LinksNext
     \/ part = "stock" /\ StockNext
     \/ part = "staff" /\ StaffNext
     \/ part = "desk" /\ DeskNext
     \/ part = "onboarding" /\ OnboardingNext

\* What is at rest has no step that fairness could demand.
Spec ==
  Init /\ [][Next]_<<part, lVars, gVars, cVars, sVars, dVars, oVars>> /\ L!Fairness

AttemptsAreCounted    == L!AttemptsAreCounted
ThrottleEnds          == L!ThrottleEnds
OwnRowsOnly           == G!OwnRowsOnly
ChoicesSurviveEdits   == part # "stock" => Links!ChoicesSurviveEdits
StockIsWhatWasEntered == part = "stock" => Stock!StockIsWhatWasEntered
RetiredIsFree         == S!RetiredIsFree
RefusedOnlyIfStale    == D!RefusedOnlyIfStale
ShownFitsAnswers      == O!ShownFitsAnswers

-----------------------------------------------------------------------------
\* An owner's email, and one that nobody has.
MCAccountOf  == [k \in Keys |-> IF k = "owner" THEN "owner" ELSE NoAccount]
MCMaxWrong   == [k \in Keys |-> IF k = "owner" THEN 2 * MaxLoginAttempts ELSE 1]
MCMaxChanges == [x \in Orders \cup Bookings \cup Mine |-> IF x \in Mine THEN 2 ELSE 1]
=============================================================================
