------------------------------ MODULE Snapshots ------------------------------
(***************************************************************************)
(* What a versioned file promises its users, with no log, no blocks and no *)
(* locks: an ever longer history of whole-file contents.  A write outside  *)
(* a transaction adds one content; a transaction works on a private copy   *)
(* of the newest content that END adds to the history at once, and that    *)
(* nobody ever sees if it is aborted.                                      *)
(***************************************************************************)
EXTENDS Naturals, Sequences

CONSTANTS
    Files,         \* open files
    Requests,      \* write requests
    Apply(_, _),   \* the content a request makes of a content
    Empty,         \* the content of the file when it was cloned
    NoContent      \* marks a file without a transaction

VARIABLES
    hist,          \* the contents, oldest first: hist[v] is version v
    pending        \* per file: the private content of its transaction

snapVars == <<hist, pending>>

Newest == hist[Len(hist)]
InTransaction(f) == pending[f] # NoContent
Undisturbed == \A f \in Files : ~ InTransaction(f)

Init ==
    /\ hist = <<Empty>>
    /\ pending = [f \in Files |-> NoContent]

Write(r) ==
    /\ Undisturbed
    /\ hist' = Append(hist, Apply(Newest, r))
    /\ UNCHANGED pending

Begin(f) ==
    /\ Undisturbed
    /\ pending' = [pending EXCEPT ![f] = Newest]
    /\ UNCHANGED hist

WriteInTransaction(f, r) ==
    /\ InTransaction(f)
    /\ pending' = [pending EXCEPT ![f] = Apply(pending[f], r)]
    /\ UNCHANGED hist

End(f) ==
    /\ InTransaction(f)
    /\ hist' = Append(hist, pending[f])
    /\ pending' = [pending EXCEPT ![f] = NoContent]

Abort(f) ==
    /\ InTransaction(f)
    /\ pending' = [pending EXCEPT ![f] = NoContent]
    /\ UNCHANGED hist

Next ==
    \/ \E r \in Requests : Write(r)
    \/ \E f \in Files : \/ Begin(f) \/ End(f) \/ Abort(f)
                        \/ \E r \in Requests : WriteInTransaction(f, r)

Spec == Init /\ [][Next]_snapVars
=============================================================================
