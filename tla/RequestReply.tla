---------------------------- MODULE RequestReply ----------------------------
(***************************************************************************)
(* What the request layer of the SDK promises its callers: the abstract    *)
(* specification that WebsocketClient implements.                          *)
(*                                                                         *)
(* A call of IGameLiftManager.HandleRequest is begun once and ends at most *)
(* once; it does end if the transport lets go of its request.  The service *)
(* may answer it never, once, several times or after it ended.  A call     *)
(* that ends with the service's answer ends with an answer to that very    *)
(* call.  There is no channel, map, timer or goroutine here.               *)
(***************************************************************************)
CONSTANTS Calls,   \* the calls of HandleRequest
          NoBody   \* the calls that pass no response object to be filled in

VARIABLES status,   \* "idle", "stored", "pending", or how the call ended
          answers,  \* the answers the service has given to each call
          released  \* Close has released the pending calls at least once

vars == <<status, answers, released>>

(* How a call may end although the service gave it no answer. *)
Failures == {"timeout", "sendError", "duplicate", "parseError"}
Ends == Failures \cup {"nil", "serviceError"}

Init == /\ status = [c \in Calls |-> "idle"]
        /\ answers = [c \in Calls |-> {}]
        /\ released = FALSE

(* The transport has the request, and may never give the goroutine back. *)
Begin(c) == /\ status[c] = "idle"
            /\ status' = [status EXCEPT ![c] = "stored"]
            /\ UNCHANGED <<answers, released>>

Sent(c) == /\ status[c] = "stored"
           /\ status' = [status EXCEPT ![c] = "pending"]
           /\ UNCHANGED <<answers, released>>

(* A call with an identifier that is taken ends as it begins. *)
Refuse(c) == /\ status[c] = "idle"
             /\ status' = [status EXCEPT ![c] = "duplicate"]
             /\ UNCHANGED <<answers, released>>

Answer(c, a) == /\ status[c] # "idle"
                /\ answers' = [answers EXCEPT ![c] = @ \cup {a}]
                /\ UNCHANGED <<status, released>>

Release == /\ released' = TRUE
           /\ UNCHANGED <<status, answers>>

(* An answer that is reported was given; the one success that needs no     *)
(* answer is that of a bodiless call that Close released.                  *)
Justified(c, end) ==
    CASE end = "nil"          -> "ok" \in answers[c] \/ (c \in NoBody /\ released)
      [] end = "serviceError" -> "error" \in answers[c]
      [] OTHER                -> TRUE

Finish(c, end) == /\ status[c] = "pending"
                  /\ Justified(c, end)
                  /\ status' = [status EXCEPT ![c] = end]
                  /\ UNCHANGED <<answers, released>>

Next == \/ \E c \in Calls : \/ Begin(c)
                            \/ Sent(c)
                            \/ Refuse(c)
                            \/ \E a \in {"ok", "error"} : Answer(c, a)
                            \/ \E end \in Ends : Finish(c, end)
        \/ Release

Spec == /\ Init
        /\ [][Next]_vars
        /\ \A c \in Calls : WF_vars(\E end \in Ends : Finish(c, end))
=============================================================================
