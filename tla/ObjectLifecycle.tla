--------------------------- MODULE ObjectLifecycle ---------------------------
(***************************************************************************)
(* What the service promises about one uploaded object, without saying how *)
(* its handlers, its recovery pass and the storage provider bring it about *)
(* (README.md and docs/current/API.md, sections 7 and 15).                 *)
(*                                                                         *)
(* An upload is open until it is void or kept.  A kept object belongs to   *)
(* whoever may have it deleted: the caller, who got the token, or else the *)
(* administrator; that never changes.  A deletion either gives the object  *)
(* back to its owner or ends it for good.                                  *)
(***************************************************************************)
CONSTANT Task

VARIABLES
  phase,     \* where each task stands
  owner,     \* who may have its object deleted
  promised   \* tasks whose caller holds a token it was told to be valid

Phase == {"none", "open", "void", "kept", "closing", "gone"}
Owner == {"nobody", "caller", "administrator"}

Init ==
  /\ phase = [t \in Task |-> "none"]
  /\ owner = [t \in Task |-> "nobody"]
  /\ promised = {}

Move(t, from, to) ==
  /\ phase[t] = from
  /\ phase' = [phase EXCEPT ![t] = to]

Open(t) == Move(t, "none", "open") /\ UNCHANGED <<owner, promised>>

Fail(t) == Move(t, "open", "void") /\ UNCHANGED <<owner, promised>>

Keep(t) ==
  /\ Move(t, "open", "kept")
  /\ \E o \in {"caller", "administrator"} : owner' = [owner EXCEPT ![t] = o]
  /\ UNCHANGED promised

Promise(t) ==
  /\ owner[t] = "caller"
  /\ phase[t] \notin {"none", "open", "void"}
  /\ promised' = promised \union {t}
  /\ UNCHANGED <<phase, owner>>

Close(t) == Move(t, "kept", "closing") /\ UNCHANGED <<owner, promised>>
Restore(t) == Move(t, "closing", "kept") /\ UNCHANGED <<owner, promised>>
End(t) == Move(t, "closing", "gone") /\ UNCHANGED <<owner, promised>>

Forget(t) ==
  /\ phase[t] \in {"void", "gone"}
  /\ phase' = [phase EXCEPT ![t] = "none"]
  /\ owner' = [owner EXCEPT ![t] = "nobody"]
  /\ UNCHANGED promised

Next ==
  \E t \in Task :
    \/ Open(t) \/ Fail(t) \/ Keep(t) \/ Promise(t)
    \/ Close(t) \/ Restore(t) \/ End(t) \/ Forget(t)

Spec == Init /\ [][Next]_<<phase, owner, promised>>
=============================================================================
