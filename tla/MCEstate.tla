------------------------------ MODULE MCEstate ------------------------------
(***************************************************************************)
(* What outlasts a session: the house and its goods, and the saves, each   *)
(* followed on its own: part names the one whose behaviour this is, and    *)
(* the variables of the other are not used.                                *)
(***************************************************************************)
EXTENDS Houses, TLC

CONSTANTS
  Savers, NotSaved, MaxVersion, MaxFaults

VARIABLES
  part,  \* the component that is followed, "houses" for that of Houses
  mem, online, opened, clock, store, staged, inTxn, lock, job, todo,
  faults, saved, passed, unsaved

Base == INSTANCE Persistence WITH
  Players <- Savers

ASSUME SaversAssumption == Base!ConstantsFit

Unused == 0  \* what the variables of the other components hold

savesVars == <<mem, online, opened, clock, store, staged, inTxn, lock, job,
               todo, faults, saved, passed, unsaved>>
NoBase ==
  /\ mem = Unused /\ online = Unused /\ opened = Unused
  /\ clock = Unused /\ store = Unused /\ staged = Unused
  /\ inTxn = Unused /\ lock = Unused /\ job = Unused
  /\ todo = Unused /\ faults = Unused /\ saved = Unused
  /\ passed = Unused /\ unsaved = Unused

AnyInit ==
  \/ part = "houses" /\ Init /\ NoBase
  \/ part = "saves" /\ Init /\ Base!Init

AnyNext ==
  \/ part = "houses" /\ UNCHANGED <<part, savesVars>>
       /\ Next
  \/ part = "saves" /\ UNCHANGED <<part, houseVars>>
       /\ Base!Next

AnySpec == AnyInit /\ [][AnyNext]_<<houseVars, part, savesVars>>

-----------------------------------------------------------------------------
\* See Persistence: a save is stored whole or not at all, and no statement of
\* another thread gets into it.
SavesIsolated == part = "saves" => Base!SavesIsolated

\* See Persistence: what a player had at logout is in the database, unless it was
\* not to be saved or all three tries failed; of the depot, if he had opened it.
LogoutDurable == part = "saves" => Base!LogoutDurable

Interchangeable == Permutations(Players)
=============================================================================
