---------------------------- MODULE MCMaksatuksetLaaja ----------------------------
(***************************************************************************)
(* A wider instance of Maksatukset.  Two officers who send and two runs of *)
(* the feedback job are too many together: a behaviour has either, and      *)
(* decisions are mailed and refused before the first payment.              *)
(***************************************************************************)
EXTENDS MCMaksatukset

VARIABLE wide

wideVars == <<wide, vars>>

WideInit == Init /\ wide \in {"officers", "jobs"}

\* Two officers, who look for a first payment to create, and no feedback; or one officer at
\* a time and both runs of the job.
WideNext ==
  /\ Next /\ UNCHANGED wide
  /\ rows # {} => token' \subseteq token /\ refused' = refused
  /\ wide = "officers" =>
       /\ \A r \in rows' : r.phase = 0
       /\ \A o \in Officers : ~At(o, "create") /\ officer'[o].pc = "create" => Ids = {}
       /\ Ids' # Ids => Ids = {} \/ \E o \in Officers : At(o, "create")
       /\ answered' = {}
  /\ wide = "jobs" => Cardinality({o \in Officers : officer'[o] # IdleOfficer}) <= 1

WideSpec == WideInit /\ [][WideNext]_wideVars

=============================================================================
