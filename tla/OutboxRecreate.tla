--------------------------- MODULE OutboxRecreate ---------------------------
(***************************************************************************)
(* Module Outbox with an outbox file that does not only grow: it is        *)
(* deleted and created again (rotation, git clean).  A deletion counts as  *)
(* one of the failures MaxFailures bounds.                                 *)
(***************************************************************************)
EXTENDS Outbox

CONSTANT Racy      \* may the file go away under a worker that holds a batch?

ASSUME RecreateAssumption == Racy \in BOOLEAN

Quiet == \A d \in Drainers : pc[d] \in {"offline", "ready"}

(* The outbox alone is removed, or the whole sync directory. The next append
   creates the file again. *)
Recreate ==
  /\ failures < MaxFailures
  /\ Racy \/ Quiet
  /\ outbox # <<>>
  /\ outbox' = <<>>
  /\ cursor' \in {cursor, NoCursor}
  /\ failures' = failures + 1
  /\ UNCHANGED <<fresh, dead, server, late, pc, batch, toDead, torn, crashes>>

RNext == Next \/ Recreate
RSpec == Init /\ [][RNext]_vars
=============================================================================
