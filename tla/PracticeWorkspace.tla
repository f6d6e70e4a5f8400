-------------------------- MODULE PracticeWorkspace --------------------------
(***************************************************************************)
(* The browser's practice workspace (skillsforge-practice-workspace.tsx,   *)
(* controlled-code-editor.tsx, lib/async-execution.ts) against the API: an *)
(* editor that saves itself, RUN and SUBMIT requests under idempotency     *)
(* keys kept over retries, polling and cancelling of the execution it      *)
(* follows, and localStorage, from which a reloaded page resumes it.       *)
(*                                                                         *)
(* Requests overlap: each may reach the server late, after a newer one,    *)
(* or never, and its answer may be lost.  The page is reloaded at any      *)
(* time; the requests it sent still arrive, their answers do not.          *)
(* The server is the promise CandidateApi is checked for: a key names one  *)
(* execution of one source, a save changes an open session only.           *)
(* An execution is named by its key.                                       *)
(***************************************************************************)
EXTENDS Naturals, FiniteSets

CONSTANTS
    Text,         \* texts the candidate may type
    StarterText,  \* draft of a new session
    WsSession,    \* ids of practice sessions
    MaxKeys,      \* bound: idempotency keys made
    MaxNet,       \* bound: requests in flight
    Budget,       \* bounds of a behaviour: its keys, reloads, edits and lost messages
    NoWs          \* no session

ASSUME WorkspaceAssumption ==
    /\ {MaxKeys, MaxNet} \subseteq Nat
    /\ \A b \in Budget : b.keys \in 0..MaxKeys /\ {b.reloads, b.edits, b.faults} \subseteq Nat
    /\ NoWs \notin WsSession /\ StarterText \notin Text

VARIABLES
    page,      \* React state and refs of the loaded page
    stored,    \* localStorage: the execution each session follows
    net,       \* requests and answers under way
    practice,  \* practice_sessions: state and draft
    queued,    \* execution_requests by key
    left       \* what is left of the budget

workspaceVars == <<page, stored, net, practice, queued, left>>

WsKey == 1..MaxKeys
NotFollowing == [id |-> 0, kind |-> "none"]
NoRequest == [kind |-> "none", session |-> NoWs, src |-> StarterText, status |-> "absent"]
Ended == {"COMPLETED", "FAILED", "CANCELLED"}

Blank(load) == [load |-> load, session |-> NoWs, source |-> StarterText, saved |-> StarterText,
                ticked |-> FALSE, armed |-> FALSE, run |-> 0, submit |-> 0,
                follows |-> NotFollowing, summary |-> FALSE]

WorkspaceInit ==
    /\ page = Blank(1)
    /\ stored = [s \in WsSession |-> NotFollowing]
    /\ net = {}
    /\ practice = [s \in WsSession |-> [state |-> "absent", draft |-> StarterText]]
    /\ queued = [k \in WsKey |-> NoRequest]
    /\ left \in Budget

Loaded == page.session # NoWs

-----------------------------------------------------------------------------
(* The editor and its timers.                                              *)

(* The autosave effects run unless a submission is followed or evaluated.  *)
Saving(pg) == pg.session # NoWs /\ ~pg.summary /\ pg.follows.kind # "submit"

(* The effect of the 700 ms timer, run again when the session, the text,   *)
(* the execution followed or the summary changes.                          *)
Rearmed(pg) == [pg EXCEPT !.armed = Saving(pg) /\ pg.source # pg.saved]

(* The page gets the candidate's open session or a new one (sessionMutation*)
(* with restoreExecution); its draft is the text.                          *)
LoadPage(s) ==
    /\ ~Loaded
    /\ \/ practice[s].state = "open"
       \/ /\ practice[s].state = "absent"
          /\ \A o \in WsSession : practice[o].state # "open"
    /\ practice' = [practice EXCEPT ![s].state = "open"]
    /\ page' = [page EXCEPT !.session = s, !.source = practice[s].draft,
                            !.saved = practice[s].draft, !.follows = stored[s]]
    /\ UNCHANGED <<stored, net, queued, left>>

Reload ==
    /\ left.reloads > 0
    /\ left' = [left EXCEPT !.reloads = @ - 1]
    /\ page' = Blank(page.load + 1)
    /\ UNCHANGED <<stored, net, practice, queued>>

(* updateSource: an edit forgets the keys of earlier requests.             *)
UpdateSource(text) ==
    /\ Loaded /\ ~page.summary
    /\ text # page.source /\ left.edits > 0
    /\ page' = Rearmed([page EXCEPT !.source = text, !.run = 0, !.submit = 0])
    /\ left' = [left EXCEPT !.edits = @ - 1]
    /\ UNCHANGED <<stored, net, practice, queued>>

Request(op, key) == [op |-> op, load |-> page.load, session |-> page.session, src |-> page.source,
                     key |-> key, at |-> "sent"]

Send(m) == Cardinality(net) < MaxNet /\ net' = net \cup {m}

AutosaveFires ==
    /\ page.armed /\ Saving(page)
    /\ Send(Request("save", 0))
    /\ page' = [page EXCEPT !.armed = FALSE]
    /\ UNCHANGED <<stored, practice, queued, left>>

(* The elapsed time moves on.                                              *)
Tick ==
    /\ Saving(page)
    /\ page' = [page EXCEPT !.ticked = TRUE]
    /\ UNCHANGED <<stored, net, practice, queued, left>>

(* Mutant: the timer saves when the text differs.                       *)
PersistDueForText == page.source # page.saved

(* The 15 s timer saves when time or text differ from what was saved last. *)
PersistDue == page.ticked \/ page.source # page.saved

PersistFires ==
    /\ Saving(page) /\ PersistDue
    /\ Send(Request("save", 0))
    /\ UNCHANGED <<page, stored, practice, queued, left>>

-----------------------------------------------------------------------------
(* Run, Submit and Cancel.  The editor's shortcuts work while a request is *)
(* pending, which only disables the buttons.                               *)

FreshKey == MaxKeys + 1 - left.keys
KeyOrFresh(key) == IF key = 0 THEN FreshKey ELSE key
CanMakeKey(key) == key # 0 \/ left.keys > 0
Spend(key) == left' = [left EXCEPT !.keys = IF key = 0 THEN @ - 1 ELSE @]

(* runMutation: a key outlives a failed request, for the retry.            *)
RunCode ==
    /\ Loaded /\ ~page.summary /\ CanMakeKey(page.run)
    /\ Send(Request("run", KeyOrFresh(page.run)))
    /\ page' = [page EXCEPT !.run = KeyOrFresh(@)]
    /\ Spend(page.run)
    /\ UNCHANGED <<stored, practice, queued>>

(* submitMutation saves the text first ...                                 *)
SubmitCode ==
    /\ Loaded /\ ~page.summary /\ CanMakeKey(page.submit)
    /\ Send(Request("presave", 0))
    /\ UNCHANGED <<page, stored, practice, queued, left>>

(* ... and, saved or not, submits it under a key taken only now.           *)
SubmitAfterSave(m) ==
    /\ m \in net /\ m.op = "presave" /\ m.at \in {"ok", "error"} /\ m.load = page.load
    /\ CanMakeKey(page.submit)
    /\ net' = (net \ {m}) \cup {[m EXCEPT !.op = "submit", !.key = KeyOrFresh(page.submit), !.at = "sent"]}
    /\ page' = [page EXCEPT !.submit = KeyOrFresh(@),
                            !.saved = IF m.at = "ok" THEN m.src ELSE @]
    /\ Spend(page.submit)
    /\ UNCHANGED <<stored, practice, queued>>

CancelClicked ==
    /\ page.follows # NotFollowing
    /\ \A m \in net : m.op = "cancel" => m.load # page.load
    /\ Send(Request("cancel", page.follows.id))
    /\ UNCHANGED <<page, stored, practice, queued, left>>

-----------------------------------------------------------------------------
(* The server (external to the page; see CandidateApi).                    *)

AnsweredWith(m, ok) == net' = (net \ {m}) \cup {[m EXCEPT !.at = IF ok THEN "ok" ELSE "error"]}

ServeSave(m) ==
    /\ m \in net /\ m.at = "sent" /\ m.op \in {"save", "presave"}
    /\ LET open == practice[m.session].state = "open" IN
       /\ practice' = IF open THEN [practice EXCEPT ![m.session].draft = m.src] ELSE practice
       /\ AnsweredWith(m, open)
    /\ UNCHANGED <<page, stored, queued, left>>

(* queue_run and queue_submit: a key used before is the same request or a  *)
(* conflict.                                                               *)
ServeQueue(m) ==
    LET asked == [kind |-> m.op, session |-> m.session, src |-> m.src]
        Same(q) == [kind |-> q.kind, session |-> q.session, src |-> q.src] = asked
        used == queued[m.key] # NoRequest
        accepts == /\ ~used
                   /\ practice[m.session].state \in (IF m.op = "run" THEN {"open", "submitted"}
                                                     ELSE {"open"})
    IN
    /\ m \in net /\ m.at = "sent" /\ m.op \in {"run", "submit"}
    /\ IF accepts
       THEN /\ queued' = [queued EXCEPT ![m.key] =
                            [kind |-> m.op, session |-> m.session, src |-> m.src, status |-> "QUEUED"]]
            /\ practice' = [practice EXCEPT ![m.session] =
                              [state |-> IF m.op = "submit" THEN "submitted" ELSE @.state,
                               draft |-> m.src]]
       ELSE UNCHANGED <<queued, practice>>
    /\ AnsweredWith(m, accepts \/ (used /\ Same(queued[m.key])))
    /\ UNCHANGED <<page, stored, left>>

ServeCancel(m) ==
    /\ m \in net /\ m.at = "sent" /\ m.op = "cancel"
    /\ queued' = [queued EXCEPT ![m.key].status = IF @ = "QUEUED" THEN "CANCELLED" ELSE @]
    /\ AnsweredWith(m, TRUE)
    /\ UNCHANGED <<page, stored, practice, left>>

(* GET of the submission: found once it was evaluated.                     *)
ServeSummary(m) ==
    /\ m \in net /\ m.at = "sent" /\ m.op = "summary"
    /\ AnsweredWith(m, queued[m.key].status = "COMPLETED")
    /\ UNCHANGED <<page, stored, practice, queued, left>>

ExecutionEnds(k, status) ==
    /\ queued[k].status = "QUEUED"
    /\ queued' = [queued EXCEPT ![k].status = status]
    /\ practice' = [practice EXCEPT ![queued[k].session].state =
                      IF queued[k].kind = "submit" /\ status = "COMPLETED" THEN "completed" ELSE @]
    /\ UNCHANGED <<page, stored, net, left>>

(* The request, or its answer, is lost.                                    *)
Lose(m) ==
    /\ m \in net /\ m.at \in {"sent", "ok"} /\ left.faults > 0
    /\ net' = (net \ {m}) \cup {[m EXCEPT !.at = "error"]}
    /\ left' = [left EXCEPT !.faults = @ - 1]
    /\ UNCHANGED <<page, stored, practice, queued>>

-----------------------------------------------------------------------------
(* What the page does with an answer; an answer to an earlier load, and an *)
(* error, which only changes a notice, are dropped.                        *)

Arrives(m, ops) == m \in net /\ m.at = "ok" /\ m.op \in ops /\ m.load = page.load

(* The text that was saved, whatever the editor holds now.                 *)
SaveReturns(m) ==
    /\ Arrives(m, {"save"})
    /\ \E ticked \in BOOLEAN : page' = [page EXCEPT !.saved = m.src, !.ticked = ticked]
    /\ net' = net \ {m}
    /\ UNCHANGED <<stored, practice, queued, left>>

(* rememberExecution, for the page and for a reload.                       *)
Remember(id, op) ==
    /\ stored' = [stored EXCEPT ![page.session] = [id |-> id, kind |-> op]]
    /\ page' = Rearmed([page EXCEPT !.follows = [id |-> id, kind |-> op], !.summary = FALSE,
                                    !.run = IF op = "run" THEN 0 ELSE @,
                                    !.submit = IF op = "submit" THEN 0 ELSE @])

QueueReturns(m) ==
    /\ Arrives(m, {"run", "submit"})
    /\ Remember(m.key, m.op)
    /\ net' = net \ {m}
    /\ UNCHANGED <<practice, queued, left>>

(* clearStoredExecution, setActiveExecutionId and setActiveKind.           *)
Forget ==
    /\ page' = Rearmed([page EXCEPT !.follows = NotFollowing])
    /\ stored' = [stored EXCEPT ![page.session] = NotFollowing]

(* Whatever the page follows when the answer comes.                        *)
CancelReturns(m) ==
    /\ Arrives(m, {"cancel"})
    /\ Forget
    /\ net' = net \ {m}
    /\ UNCHANGED <<practice, queued, left>>

(* The poll that finds the execution ended; a submission's summary follows.*)
PollEnds ==
    /\ page.follows # NotFollowing
    /\ queued[page.follows.id].status \in Ended
    /\ IF page.follows.kind = "submit" THEN Send(Request("summary", page.follows.id)) ELSE net' = net
    /\ Forget
    /\ UNCHANGED <<practice, queued, left>>

SummaryReturns(m) ==
    /\ Arrives(m, {"summary"})
    /\ page' = Rearmed([page EXCEPT !.summary = TRUE])
    /\ net' = net \ {m}
    /\ UNCHANGED <<stored, practice, queued, left>>

DropAnswer(m) ==
    /\ m \in net /\ m.at # "sent"
    /\ m.load # page.load \/ (m.at = "error" /\ m.op # "presave")
    /\ net' = net \ {m}
    /\ UNCHANGED <<page, stored, practice, queued, left>>

-----------------------------------------------------------------------------
Deliver(m) ==
    ServeSave(m) \/ ServeQueue(m) \/ ServeCancel(m) \/ ServeSummary(m)
Take(m) ==
    \/ SubmitAfterSave(m) \/ SaveReturns(m) \/ QueueReturns(m) \/ CancelReturns(m)
    \/ SummaryReturns(m) \/ DropAnswer(m)

WorkspaceNext ==
    \/ \E s \in WsSession : LoadPage(s)
    \/ Reload
    \/ \E text \in Text : UpdateSource(text)
    \/ AutosaveFires \/ Tick \/ PersistFires
    \/ RunCode \/ SubmitCode \/ CancelClicked
    \/ \E m \in net : Deliver(m) \/ Lose(m) \/ Take(m)
    \/ \E k \in WsKey, status \in Ended \ {"CANCELLED"} : ExecutionEnds(k, status)
    \/ PollEnds

-----------------------------------------------------------------------------
(* Correctness.                                                            *)

(* However saves overtake one another or get lost, the server's draft      *)
(* becomes the text in the editor once the candidate stops typing, unless  *)
(* the session is submitted (the two autosave effects).                    *)
DraftCatchesUp ==
    <>[](Saving(page) /\ practice[page.session].state = "open"
           => practice[page.session].draft = page.source)
=============================================================================
