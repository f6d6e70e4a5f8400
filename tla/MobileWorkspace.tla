--------------------------- MODULE MobileWorkspace ---------------------------
(***************************************************************************)
(* The practice screen of the mobile app (practice/[slug].tsx, drafts.ts): *)
(* an editor whose text one timer stores in the device's database and      *)
(* another one sends to the API; a screen opened again takes the newer of  *)
(* the two drafts.                                                         *)
(*                                                                         *)
(* Time moves in steps; only the order of the deadlines matters.  A timer  *)
(* that is due fires before time moves on; when the app is suspended or    *)
(* its thread stalls, all timers are due at once.  A timestamp of the      *)
(* server is twice the number of writes it has seen, one of the device,    *)
(* whose clock is right, lies between two of them.  The candidate does not *)
(* open the question again once it is submitted.                           *)
(***************************************************************************)
EXTENDS Naturals, FiniteSets

CONSTANTS
    MobileText,    \* what the candidate types
    MobileStarter, \* the draft of a new session
    EmptyText,     \* the cleared editor
    TickEvery,     \* the 1 s interval of the clock on the screen
    LocalAfter,    \* the 350 ms delay of the device's draft
    ServerAfter,   \* the 1.2 s delay of the autosave
    Openings,      \* how often the screen is opened
    Allowance      \* bounds: edits, clicks, stalls and lost messages

ASSUME MobileAssumption ==
    /\ {TickEvery, LocalAfter, ServerAfter, Openings} \subseteq Nat
    /\ 0 < LocalAfter /\ LocalAfter < TickEvery /\ TickEvery < ServerAfter
    /\ \A a \in Allowance : {a.edits, a.clicks, a.stalls, a.losses} \subseteq Nat
    /\ EmptyText \notin MobileText \cup {MobileStarter}

VARIABLES
    screen,  \* the open screen: its stage, answer, timers
    refs,    \* sourceRef of every screen so far
    device,  \* the row of practice_drafts on the device
    mail,    \* requests under way and their answers
    shared,  \* the row of practice_sessions
    spare    \* what is left of the allowance

mobileVars == <<screen, refs, device, mail, shared, spare>>

Off == ServerAfter + 1
NoDraft == [src |-> EmptyText, at |-> 0]
Killed == "killed"
Closed(n) == [number |-> n, stage |-> "closed", created |-> NoDraft, tick |-> Off, local |-> Off,
              server |-> Off, busy |-> FALSE]

MobileInit ==
    /\ screen = Closed(0)
    /\ refs = [n \in 1..Openings |-> EmptyText]
    /\ device = NoDraft
    /\ mail = {}
    /\ shared = [state |-> "absent", draft |-> MobileStarter, at |-> 0]
    /\ spare \in Allowance

Source == refs[screen.number]
WithSource(text) == [refs EXCEPT ![screen.number] = text]
HasSession == screen.stage \in {"reading", "ready"}

-----------------------------------------------------------------------------
(* Requests.                                                               *)

Posted(op, number, text) ==
    [op |-> op, number |-> number, src |-> text, at |-> 0, ok |-> FALSE, answered |-> FALSE]

(* createPracticeSession, then readLocalDraft on its answer.               *)
OpenScreen ==
    /\ screen.stage = "closed" /\ screen.number < Openings
    /\ shared.state \in {"absent", "open"}
    /\ screen' = [Closed(screen.number + 1) EXCEPT !.stage = "asking"]
    /\ mail' = mail \cup {Posted("create", screen.number + 1, EmptyText)}
    /\ UNCHANGED <<refs, device, shared, spare>>

(* The app is left, its callbacks live on, or it is stopped with them.     *)
CloseScreen ==
    /\ screen.stage # "closed"
    /\ screen' = Closed(screen.number)
    /\ refs' \in {refs, WithSource(Killed)}
    /\ UNCHANGED <<device, mail, shared, spare>>

(* Run and Submit are disabled while one of them is pending.               *)
Click(op) ==
    /\ HasSession /\ spare.clicks > 0
    /\ op \in {"run", "submit"} => Source # EmptyText /\ ~screen.busy
    /\ mail' = mail \cup {Posted(op, screen.number, Source)}
    /\ screen' = [screen EXCEPT !.busy = @ \/ op # "hint"]
    /\ spare' = [spare EXCEPT !.clicks = @ - 1]
    /\ UNCHANGED <<refs, device, shared>>

(* The API: create finds the open session or inserts one, a hint needs no  *)
(* open session, a RUN also takes a submitted one.                         *)
Accepted(m) ==
    \/ m.op = "create" /\ shared.state = "absent"
    \/ m.op \in {"save", "run", "submit"} /\ shared.state = "open"
    \/ m.op = "run" /\ shared.state = "submitted"
    \/ m.op = "hint"

(* Each sets updated_at; a save, a RUN and a SUBMIT store the code.  A     *)
(* submission is answered when its evaluation has completed or failed.     *)
Written(m, failed) ==
    [state |-> CASE m.op = "create" -> "open"
                 [] m.op = "submit" -> IF failed THEN "submitted" ELSE "completed"
                 [] OTHER -> shared.state,
     draft |-> IF m.op \in {"save", "run", "submit"} THEN m.src ELSE shared.draft,
     at |-> shared.at + 1]

Replied(m, found, ok) == [m EXCEPT !.answered = TRUE, !.ok = ok, !.at = found.at,
                                   !.src = IF m.op = "create" THEN found.draft ELSE m.src]

RequestArrives(m) ==
    /\ m \in mail /\ ~m.answered
    /\ \E failed \in {FALSE, m.op = "submit"} :
          LET finds == m.op = "create" /\ shared.state = "open" IN
          /\ shared' = IF Accepted(m) THEN Written(m, failed) ELSE shared
          /\ mail' = (mail \ {m}) \cup {Replied(m, shared', (Accepted(m) /\ ~failed) \/ finds)}
    /\ UNCHANGED <<screen, refs, device, spare>>

(* A request that never arrives, or an answer that does not, is an error.  *)
RequestLost(m) ==
    /\ m \in mail /\ m.op # "create" /\ m.ok = m.answered /\ spare.losses > 0
    /\ mail' = (mail \ {m}) \cup {[m EXCEPT !.answered = TRUE, !.ok = FALSE]}
    /\ spare' = [spare EXCEPT !.losses = @ - 1]
    /\ UNCHANGED <<screen, refs, device, shared>>

-----------------------------------------------------------------------------
(* The effects: the timers start over when the text or the clock changes.  *)

(* Mutant: the device's draft is stored again only when the text changes.  *)
RestartedOnce(s, text) ==
    IF text = EmptyText THEN [s EXCEPT !.local = Off, !.server = Off]
    ELSE [s EXCEPT !.local = IF text = Source THEN s.local ELSE LocalAfter, !.server = ServerAfter]

Restarted(s, text) ==
    IF text = EmptyText THEN [s EXCEPT !.local = Off, !.server = Off]
    ELSE [s EXCEPT !.local = LocalAfter, !.server = ServerAfter]

(* onChangeText; the editor is open as soon as there is a session.         *)
TypeText(text) ==
    /\ HasSession /\ text # Source /\ spare.edits > 0
    /\ refs' = WithSource(text)
    /\ screen' = Restarted(screen, text)
    /\ spare' = [spare EXCEPT !.edits = @ - 1]
    /\ UNCHANGED <<device, mail, shared>>

Due(timer) == timer = 0

TimePasses ==
    /\ HasSession /\ ~Due(screen.tick) /\ ~Due(screen.local) /\ ~Due(screen.server)
    /\ LET Sooner(timer) == IF timer = Off THEN Off ELSE timer - 1 IN
       screen' = [screen EXCEPT !.tick = Sooner(@), !.local = Sooner(@), !.server = Sooner(@)]
    /\ UNCHANGED <<refs, device, mail, shared, spare>>

(* The app is in the background or its thread busy past every deadline.    *)
Stalls ==
    /\ HasSession /\ spare.stalls > 0
    /\ LET Now(timer) == IF timer = Off THEN Off ELSE 0 IN
       screen' = [screen EXCEPT !.tick = Now(@), !.local = Now(@), !.server = Now(@)]
    /\ spare' = [spare EXCEPT !.stalls = @ - 1]
    /\ UNCHANGED <<refs, device, mail, shared>>

(* setElapsed.                                                             *)
TickFires ==
    /\ Due(screen.tick)
    /\ screen' = Restarted([screen EXCEPT !.tick = TickEvery], Source)
    /\ UNCHANGED <<refs, device, mail, shared, spare>>

(* saveLocalDraft with the device's time.  A new notice renders the screen *)
(* again, and the new saveMutation starts the autosave's timer over.       *)
LocalFires ==
    /\ Due(screen.local)
    /\ device' = [src |-> Source, at |-> 2 * shared.at + 1]
    /\ \E due \in {screen.server, ServerAfter} :
          screen' = [screen EXCEPT !.local = Off, !.server = due]
    /\ UNCHANGED <<refs, mail, shared, spare>>

(* savePracticeDraft; its pending state renders the screen again.          *)
ServerFires ==
    /\ Due(screen.server)
    /\ mail' = mail \cup {Posted("save", screen.number, Source)}
    /\ screen' = [screen EXCEPT !.server = ServerAfter]
    /\ UNCHANGED <<refs, device, shared, spare>>

-----------------------------------------------------------------------------
(* Answers.                                                                *)

(* onSuccess of sessionMutation; without a session the screen only reports.*)
CreateReturns(m) ==
    /\ m \in mail /\ m.op = "create" /\ m.answered
    /\ mail' = mail \ {m}
    /\ screen' = IF m.ok /\ screen.stage = "asking" /\ screen.number = m.number
                 THEN [screen EXCEPT !.stage = "reading", !.tick = TickEvery,
                                     !.created = [src |-> m.src, at |-> 2 * m.at]]
                 ELSE screen
    /\ UNCHANGED <<refs, device, shared, spare>>

(* readLocalDraft answers: shouldRestoreLocalDraft, or the server's draft. *)
LocalDraftRead ==
    /\ screen.stage = "reading"
    /\ LET restored == device # NoDraft /\ device.at > screen.created.at
           text == IF restored THEN device.src ELSE screen.created.src
       IN
       /\ refs' = WithSource(text)
       /\ device' = IF restored THEN device ELSE screen.created
       /\ screen' = Restarted([screen EXCEPT !.stage = "ready"], text)
    /\ UNCHANGED <<mail, shared, spare>>

(* onSuccess of saveMutation, also of a screen that was left: the draft    *)
(* counts as synchronised if its screen still shows it.                    *)
DraftReturns(m) ==
    /\ m \in mail /\ m.op = "save" /\ m.answered
    /\ mail' = mail \ {m}
    /\ device' = IF m.ok /\ refs[m.number] = m.src THEN [src |-> m.src, at |-> 2 * m.at] ELSE device
    /\ UNCHANGED <<screen, refs, shared, spare>>

(* The end of a run, a hint or a submission; an evaluated submission stops *)
(* the timers, closes the editor and removes the device's draft.           *)
ClickReturns(m) ==
    /\ m \in mail /\ m.op \in {"run", "hint", "submit"} /\ m.answered
    /\ mail' = mail \ {m}
    /\ LET shown == screen.number = m.number /\ HasSession
           evaluated == m.op = "submit" /\ m.ok /\ refs[m.number] # Killed
       IN
       /\ device' = IF evaluated THEN NoDraft ELSE device
       /\ screen' = IF ~shown THEN screen
                    ELSE IF evaluated THEN [Closed(screen.number) EXCEPT !.stage = "submitted"]
                    ELSE [screen EXCEPT !.busy = @ /\ m.op = "hint"]
    /\ UNCHANGED <<refs, shared, spare>>

-----------------------------------------------------------------------------
Timers == TimePasses \/ TickFires \/ LocalFires \/ ServerFires
Returns(m) == CreateReturns(m) \/ DraftReturns(m) \/ ClickReturns(m)

MobileNext ==
    \/ OpenScreen \/ CloseScreen \/ Stalls \/ Timers \/ LocalDraftRead
    \/ \E op \in {"run", "hint", "submit"} : Click(op)
    \/ \E text \in MobileText \cup {EmptyText} : TypeText(text)
    \/ \E m \in mail : RequestArrives(m) \/ RequestLost(m) \/ Returns(m)

-----------------------------------------------------------------------------
(* Correctness.                                                            *)

(* Whatever answers come late, of a screen that was left too, the device's *)
(* draft becomes the text in the editor once the candidate stops typing:   *)
(* the clock stores it again and again (the saveLocalDraft effect).        *)
DeviceCatchesUp ==
    <>[](screen.stage = "ready" /\ Source # EmptyText => device.src = Source)
=============================================================================
