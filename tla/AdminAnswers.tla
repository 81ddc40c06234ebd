---------------------------- MODULE AdminAnswers ----------------------------
(***************************************************************************)
(* What an administrator is told who approves an enrollment request that   *)
(* others of ControlPlane resolve: the answer of the service, through the  *)
(* transaction of the store that its reducer runs in                       *)
(* (sqlite/control-store.ts).                                              *)
(***************************************************************************)
EXTENDS ControlPlane

VARIABLE answer  \* of the last approval asked for: how the request stood, and the code told

NoAnswer == [was |-> "none", told |-> "none"]

(* mutate() rolls back and throws its own error for any of a reducer, save *)
(* that of a limit.                                                        *)
Normalized(code) ==
  CASE code = "OK" -> "OK"
    [] code = "CONTROL_PLANE_LIMIT_EXCEEDED" -> "CONTROL_PLANE_INVALID"
    [] OTHER -> "CONTROL_PLANE_UNAVAILABLE"

(* approve() of a request that has been listed to the administrator; the   *)
(* device has a new random id, so that no approval is repeated.            *)
AskToApprove(q, assigned, late) ==
  LET error == ApproveError(q, assigned, late) IN
  /\ requests[q].status # "none"
  /\ answer' = [was |-> requests[q].status, told |-> Normalized(error)]
  /\ IF error = "OK" THEN \E d \in Device : Approve(q, d, assigned, late) ELSE UNCHANGED vars

AnswerNext ==
  \/ \E q \in Request, assigned \in SUBSET Root, late \in SUBSET Late :
       AskToApprove(q, assigned, late)
  \/ Next /\ UNCHANGED answer

AnswerSpec == Init /\ answer = NoAnswer /\ [][AnswerNext]_<<vars, answer>>

(* "That device request was already resolved.": the administrator who      *)
(* approves a request another one has approved is told so.  Violated, see  *)
(* the README: the store replaces the error by its own.                    *)
ResolvedIsTold == answer.was = "approved" => answer.told = "DEVICE_REQUEST_RESOLVED"
=============================================================================
