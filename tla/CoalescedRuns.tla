--------------------------- MODULE CoalescedRuns ---------------------------
(***************************************************************************)
(* What the upload queue of twodrive-fs promises to the rest of the        *)
(* filesystem, without saying how: the work of a key (the upload or the    *)
(* remote deletion of one item) never runs twice at the same time, and a   *)
(* request stays outstanding until a run of its key looks at the database. *)
(***************************************************************************)
CONSTANTS
  Keys,     \* what can be asked for
  Runners   \* who does the work

VARIABLES
  wanted,  \* keys requested and not yet looked at by a run
  active   \* the runs in progress, as pairs <<runner, key>>

absVars == <<wanted, active>>

AbsInit == wanted = {} /\ active = {}

Ask(k) ==
  /\ wanted' = wanted \cup {k}
  /\ UNCHANGED active

Begin(r, k) ==
  /\ \A q \in Runners : <<q, k>> \notin active
  /\ active' = active \cup {<<r, k>>}
  /\ UNCHANGED wanted

\* The run reads the database: every request made before is accounted for.
Observe(r, k) ==
  /\ <<r, k>> \in active
  /\ wanted' = wanted \ {k}
  /\ UNCHANGED active

\* A run that ends answers nothing: what was asked after it looked stays wanted.
End(r, k) ==
  /\ <<r, k>> \in active
  /\ active' = active \ {<<r, k>>}
  /\ UNCHANGED wanted

AbsNext ==
  \E k \in Keys :
    \/ Ask(k)
    \/ \E r \in Runners : Begin(r, k) \/ Observe(r, k) \/ End(r, k)

AbsSpec == AbsInit /\ [][AbsNext]_absVars
=============================================================================
