------------------------------ MODULE MCPages ------------------------------
(***************************************************************************)
(* What clients see change under them: budgets of several clients, and the *)
(* browser's page of statements.  They share no variable, so one part runs *)
(* and the other rests in an initial state of its own.                     *)
(***************************************************************************)
EXTENDS Budgets, TLC

CONSTANTS
  p1, p2, q, P, Q,
  Accounts, Pages, Slots      \* StatementPage

VARIABLES
  part,
  server, selected, active, listed, creating, index, busy, inert, tasks  \* StatementPage

page == <<server, selected, active, listed, creating, index, busy, inert, tasks>>

-----------------------------------------------------------------------------
(* Two clients of one user and one of another.                             *)
MCOwner(c) == IF c = q THEN Q ELSE P

(* Statements of one page each, or one of two pages.                       *)
Page == INSTANCE StatementPage
Turning == INSTANCE StatementPage WITH MaxId <- 1, Pages <- 2

(* What is assumed of the page's constants.                                *)
ASSUME PageAssumption == Page!BoundsAssumption /\ Page!NoneAssumption
ASSUME Turning!BoundsAssumption /\ Turning!NoneAssumption

MCSymmetry == Permutations({p1, p2}) \cup Permutations(Categories)

-----------------------------------------------------------------------------
MCInit ==
  /\ part \in {"budgets", "page", "turning"}
  /\ Init
  /\ IF part = "turning" THEN Turning!Init ELSE Page!Init
  /\ part = "budgets" => selected = (CHOOSE a \in Accounts : TRUE) /\ \A i \in DOMAIN server : server[i] = None

MCNext ==
  /\ UNCHANGED part
  /\ \/ part = "budgets" /\ Next /\ UNCHANGED page
     \/ part = "page" /\ Page!Next /\ UNCHANGED vars
     \/ part = "turning" /\ Turning!Next /\ UNCHANGED vars

MCSpec == MCInit /\ [][MCNext]_<<part, vars, page>>

-----------------------------------------------------------------------------
(* Properties of the page (those of Budgets by their own names).           *)

(* Between actions the page shows a statement of the account selected and, *)
(* unless an error is shown, agrees with the server; it is only locked by  *)
(* a handler that will unlock it, and has one write on its way at a time.  *)
PageIsTrue ==
  /\ Page!ShownIsSelected /\ Page!ServerIsAuthority
  /\ Page!LockedBySomebody /\ Page!OneWrite
=============================================================================
