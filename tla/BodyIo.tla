------------------------------- MODULE BodyIo -------------------------------
(***************************************************************************)
(* BodyIo of src/src/stream.rs with both its request sides: Body is the    *)
(* regular body and the response, Multipart the form.  A request has one   *)
(* of the two, by its route (src/src/server.rs 990-1010 and 1092-1112).    *)
(***************************************************************************)
EXTENDS Body, FiniteSets

CONSTANTS Forms, MaxFiles, MaxFields, MaxFileSize, MaxFieldSize, MaxReaders
          \* see Multipart

ASSUME FormsAssumption ==
  \A f \in Forms :
    /\ f.boundary \in BOOLEAN
    /\ f.parts \in Seq([file : BOOLEAN, admitted : BOOLEAN, ends : Seq(Nat)])
    /\ \A n \in 1 .. Len(f.parts) : \A i, j \in 1 .. Len(f.parts[n].ends) :
         i < j => f.parts[n].ends[i] <= f.parts[n].ends[j]
ASSUME InputsAssumption == Requests # {} /\ Forms # {}
ASSUME NoneAssumption == None \notin Nat
ASSUME MultipartLimitsAssumption ==
  {MaxFiles, MaxFields, MaxFileSize, MaxFieldSize, MaxReaders} \subseteq Nat

VARIABLES
  form, parser, event, then, part, taken, size, files, fields, events, holds, lock,
  ended, calls, iter, announced, owner, stat, pieces, strayed  \* see Multipart

M == INSTANCE Multipart

formVars ==
  <<form, parser, event, then, part, taken, size, files, fields, events, holds, lock,
    ended, calls, iter, announced, owner, stat, pieces, strayed>>
ioVars == <<vars, formVars>>

\* A request on a route for regular bodies.
RegularInit ==
  /\ Init
  /\ form = CHOOSE f \in Forms : TRUE
  /\ M!InitWith("over")

\* A request on a multipart route: there is no regular body.
FormInit ==
  /\ M!Init
  /\ req = CHOOSE r \in Requests : TRUE
  /\ InitWith("over")

IoInit == RegularInit \/ FormInit

IoNext ==
  \/ BodyStep /\ UNCHANGED formVars
  \/ M!FormStep /\ UNCHANGED vars
  \/ Finished /\ M!Finished

IoSpec == IoInit /\ [][IoNext]_ioVars

IoFairSpec == IoSpec /\ Fairness

-----------------------------------------------------------------------------
(* The properties of the form, by their names there.                       *)

\* An upload that is cut is not taken for a whole one, and a part that was read to
\* its end is whole: see Multipart.
FormIsWhole == M!FormIsWhole

\* What the limits and the type checks refuse never reaches JS: see Multipart.
OnlyAdmitted == M!OnlyAdmitted
=============================================================================
