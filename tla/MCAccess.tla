----------------------------- MODULE MCAccess ------------------------------
(***************************************************************************)
(* Who is let in: the limits of attempts, and the names users have.  They  *)
(* share no variable, so one part runs and the other rests in an initial   *)
(* state of its own.                                                       *)
(***************************************************************************)
EXTENDS RateLimits, TLC

CONSTANTS
  Users, Owner, Usernames, Emails, OwnerNames, Passwords, Nothing, MaxVersion  \* Identities

VARIABLES
  part,
  user, main, setting, asked, writer     \* Identities

names == <<user, main, setting, asked, writer>>

-----------------------------------------------------------------------------
(* An owner who is renamed from a username to an email or back.            *)
Named == INSTANCE Identities WITH request <- asked

(* What is assumed of names and users.                                     *)
ASSUME NamesAssumption == Named!NameAssumption /\ Named!UserAssumption

MCSymmetry == Permutations(Sources) \cup Permutations(Requests)
             \cup Permutations(Users \ {Owner}) \cup Permutations(Passwords)

-----------------------------------------------------------------------------
MCInit ==
  /\ part \in {"limits", "names"}
  /\ Init /\ Named!Init
  /\ part = "limits" => setting.owner = CHOOSE n \in OwnerNames : TRUE

MCNext ==
  /\ UNCHANGED part
  /\ \/ part = "limits" /\ Next /\ UNCHANGED names
     \/ part = "names" /\ Named!Next /\ UNCHANGED vars

MCSpec == MCInit /\ [][MCNext]_<<part, vars, names>>

-----------------------------------------------------------------------------
(* Properties of names (those of RateLimits by their own names).           *)

(* A username leads to the user who has it and to nobody else whatever the *)
(* owner is renamed to, and so does an email that is not the name of an    *)
(* owner who was renamed; a user and the Main Account come together or not *)
(* at all (register, update_profile, login, initialize_auth).              *)
NamesHold == Named!NamesHold

(* An email changes only when the password proved for it is still the      *)
(* user's, and while the user is enabled (update_profile).                 *)
ProfileChangesAreProved == Named!ProfileChangesAreProved
=============================================================================
