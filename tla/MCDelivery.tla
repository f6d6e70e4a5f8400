----------------------------- MODULE MCDelivery -----------------------------
(***************************************************************************)
(* The parts around a controller, for TLC in one run: the outbox and its   *)
(* queues, the local development transport, the inline Vercel dispatch,    *)
(* the trusted comparison, the browser's workspace and the mobile app's.   *)
(* They share no state; `focus' names the part that takes steps and is     *)
(* treated fairly.                                                         *)
(***************************************************************************)
EXTENDS ExecutionOutbox, LocalTransport, VercelDispatch, MCTrustedComparison,
        PracticeWorkspace, MobileWorkspace

VARIABLE focus

(* The request and the cancellation of one execution.                      *)
OneExecution == [m \in Message |-> "x"]

(* What one candidate does in the browser: edits with a reload and a lost  *)
(* message, an execution with an edit and a reload or with a lost message, *)
(* or two executions.                                                      *)
Budgets == {[keys |-> 0, reloads |-> 1, edits |-> 2, faults |-> 1],
            [keys |-> 1, reloads |-> 1, edits |-> 1, faults |-> 0],
            [keys |-> 1, reloads |-> 0, edits |-> 0, faults |-> 1],
            [keys |-> 2, reloads |-> 0, edits |-> 0, faults |-> 0]}

(* And in the app: an edit with a stall, or with a click and a loss.       *)
MobileAllowances == {[edits |-> 1, clicks |-> 0, stalls |-> 1, losses |-> 0],
                     [edits |-> 1, clicks |-> 1, stalls |-> 0, losses |-> 1]}

-----------------------------------------------------------------------------
Init ==
    /\ focus \in {"outbox", "transport", "vercel", "comparison", "workspace", "mobile"}
    /\ OutboxInit /\ TransportInit /\ VercelInit
    /\ ComparisonInit
    /\ WorkspaceInit /\ MobileInit
    /\ focus # "comparison" => /\ question = (CHOOSE q \in TwoTests : TRUE).tests
                               /\ kind = "RUN"
    /\ focus # "workspace" => left = CHOOSE b \in Budget : TRUE
    /\ focus # "mobile" => spare = CHOOSE a \in Allowance : TRUE

Next ==
    /\ UNCHANGED focus
    /\ \/ /\ focus = "outbox" /\ OutboxNext
          /\ UNCHANGED <<transportVars, vvars, cvars, workspaceVars, mobileVars>>
       \/ /\ focus = "transport" /\ TransportNext
          /\ UNCHANGED <<xvars, vvars, cvars, workspaceVars, mobileVars>>
       \/ /\ focus = "vercel" /\ VercelNext
          /\ UNCHANGED <<xvars, transportVars, cvars, workspaceVars, mobileVars>>
       \/ /\ focus = "comparison" /\ ComparisonNext
          /\ UNCHANGED <<xvars, transportVars, vvars, workspaceVars, mobileVars>>
       \/ /\ focus = "workspace" /\ WorkspaceNext
          /\ UNCHANGED <<xvars, transportVars, vvars, cvars, mobileVars>>
       \/ /\ focus = "mobile" /\ MobileNext
          /\ UNCHANGED <<xvars, transportVars, vvars, cvars, workspaceVars>>

(* A controller's run_forever publishes, reconciles and receives for ever, *)
(* a queue hands out what it holds and delays end; a Vercel dispatch that  *)
(* is not stopped goes on, each call ending in an answer or an error, and  *)
(* the client repeats its request; requests of the browser arrive in the   *)
(* end and the page's timers and callbacks run, those of the app too.      *)
Spec ==
    /\ Init
    /\ [][Next]_<<xvars, transportVars, vvars, cvars, workspaceVars, mobileVars, focus>>
    /\ \A c \in Controller : WF_xvars(focus = "outbox" /\ Publisher(c))
    /\ \A e \in ExecId : /\ WF_xvars(focus = "outbox" /\ RequeueStaleQueued(e))
                        /\ WF_xvars(focus = "outbox" /\ ReceiveRequested(e))
    /\ \A e \in Event : WF_xvars(focus = "outbox" /\ DelayPasses(e))
    /\ \A t \in Thread : WF_vvars(focus = "vercel" /\ Dispatch(t))
    /\ \A e \in Execution : WF_vvars(focus = "vercel" /\ \E t \in Thread, w \in Worker :
                                                          QueueForQuestion(t, e, w))
    /\ WF_workspaceVars(focus = "workspace" /\ \E s \in WsSession : LoadPage(s))
    /\ WF_workspaceVars(focus = "workspace" /\ Tick)
    /\ WF_workspaceVars(focus = "workspace" /\ PersistFires)
    /\ WF_workspaceVars(focus = "workspace" /\ \E m \in net : Deliver(m))
    /\ WF_workspaceVars(focus = "workspace" /\ \E m \in net : Take(m))
    /\ WF_mobileVars(focus = "mobile" /\ Timers)
    /\ WF_mobileVars(focus = "mobile" /\ LocalDraftRead)
    /\ WF_mobileVars(focus = "mobile" /\ \E m \in mail : RequestArrives(m))
    /\ WF_mobileVars(focus = "mobile" /\ \E m \in mail : Returns(m))
=============================================================================
