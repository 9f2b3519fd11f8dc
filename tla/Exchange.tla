------------------------------ MODULE Exchange ------------------------------
(***************************************************************************)
(* What libspdm_send_spdm_request followed by libspdm_receive_spdm_response*)
(* promise to the function that calls them, however large the messages are:*)
(* the Responder's handler is given the request, whole and at most once,   *)
(* also when the call is retried, and the call returns what the handler    *)
(* answered, or fails.                                                     *)
(***************************************************************************)
EXTENDS Sequences

CONSTANTS Requests, Answers

VARIABLES
    waiting,  \* a call is in progress
    request,  \* its request
    served,   \* the requests that the handler was given in this call
    answer,   \* what the handler answered
    result    \* what the call returned, <<>> when it failed

vars == <<waiting, request, served, answer, result>>

Init ==
    waiting = FALSE /\ request = <<>> /\ served = <<>> /\ answer = <<>> /\ result = <<>>

Issue(r) ==
    /\ ~waiting /\ waiting' = TRUE
    /\ request' = r /\ served' = <<>> /\ answer' = <<>> /\ result' = <<>>

Serve(a) ==
    /\ waiting /\ served = <<>>
    /\ served' = <<request>> /\ answer' = a
    /\ UNCHANGED <<waiting, request, result>>

Succeed ==
    /\ waiting /\ served = <<request>>
    /\ waiting' = FALSE /\ result' = answer
    /\ UNCHANGED <<request, served, answer>>

Fail ==
    /\ waiting /\ waiting' = FALSE
    /\ UNCHANGED <<request, served, answer, result>>

Next ==
    \/ \E r \in Requests : Issue(r)
    \/ \E a \in Answers : Serve(a)
    \/ Succeed
    \/ Fail

Spec == Init /\ [][Next]_vars
=============================================================================
