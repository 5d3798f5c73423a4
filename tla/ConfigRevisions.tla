-------------------------- MODULE ConfigRevisions --------------------------
(***************************************************************************)
(* What the revision check promises the people who edit propagate.yaml: a  *)
(* team's config is a log, every revision is somebody's edit of the one    *)
(* right before it (or of it with a member the server let in), and an      *)
(* operation is applied at most once.                                      *)
(***************************************************************************)
EXTENDS Naturals, Sequences

CONSTANTS
    Operations,       \* identities of client operations
    Edits(_),         \* the snapshots a client may make of one it read
    Admissions(_)     \* the snapshots the server may make of the current one

VARIABLES
    log,     \* the published snapshots, oldest first
    done     \* the operations applied

Current == log[Len(log)]

Init == Len(log) = 1 /\ done = {}

\* A client's operation publishes its edit of the current revision.
Push(op) ==
    /\ op \notin done
    /\ done' = done \cup {op}
    /\ \E new \in Edits(Current) : log' = Append(log, new)

\* A client's operation that leaves the config alone.
Commit(op) ==
    /\ op \notin done
    /\ done' = done \cup {op}
    /\ UNCHANGED log

Admit ==
    /\ \E new \in Admissions(Current) : log' = Append(log, new)
    /\ UNCHANGED done

Next == Admit \/ \E op \in Operations : Push(op) \/ Commit(op)

Spec == Init /\ [][Next]_<<log, done>>
=============================================================================
