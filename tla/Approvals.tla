------------------------------ MODULE Approvals ------------------------------
(***************************************************************************)
(* What a transaction that collects signatures promises its caller: a      *)
(* document that signers approve one after another.  An approval is of the *)
(* document as it was, stays until the whole document is replaced, and     *)
(* comes back with a copy exactly as it was given out.  What is refused    *)
(* changes nothing.                                                        *)
(***************************************************************************)
EXTENDS Sequences

CONSTANTS
    Signers,   \* those who may approve
    Nil        \* no document that could be approved

VARIABLES
    content,   \* what an approval is of
    approvals, \* the approvals, in the order they were given
    copy,      \* the last copy given out; its content is Nil before
    op         \* the last operation

vars == <<content, approvals, copy, op>>

\* The caller makes of the content what it wants; the approvals stay.
Edit == op' = "edit" /\ UNCHANGED <<approvals, copy>>

Approve(s) ==
    /\ content # Nil
    /\ approvals' = Append(approvals, [by |-> s, of |-> content])
    /\ op' = "approve"
    /\ UNCHANGED <<content, copy>>

GiveCopy ==
    /\ content # Nil
    /\ copy' = [content |-> content, approvals |-> approvals]
    /\ op' = "write"
    /\ UNCHANGED <<content, approvals>>

TakeCopy ==
    /\ copy.content # Nil
    /\ content' = copy.content /\ approvals' = copy.approvals
    /\ op' = "read"
    /\ UNCHANGED copy

Refuse == op' = "refused" /\ UNCHANGED <<content, approvals, copy>>

Init == /\ approvals = <<>> /\ op = "init"
        /\ copy = [content |-> Nil, approvals |-> <<>>]

Next == \/ Edit
        \/ \E s \in Signers : Approve(s)
        \/ GiveCopy
        \/ TakeCopy
        \/ Refuse

Spec == Init /\ [][Next]_vars
=============================================================================
