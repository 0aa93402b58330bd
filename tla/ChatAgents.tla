---- MODULE ChatAgents ----
(***************************************************************************)
(* The assistant and the cursor agent: events arrive over a WebSocket and    *)
(* every one starts a handler of its own, beside those still running.  When  *)
(* no socket can be opened at the start they poll, one event at a time.     *)
(* The cursor agent launches runs of a cloud service, keeps a session per    *)
(* thread while a run goes on, relays what is said in the thread to the run  *)
(* and posts how it ended.                                                  *)
(***************************************************************************)
EXTENDS PollingAgents
CONSTANTS SeekLimit     \* messages the assistant looks at before polling: 10 in the code
ASSUME SeekAssumption == SeekLimit \in Nat
VARIABLES conn,         \* "none", "open", "closed"
          subs,         \* streams subscribed to; last[s] is the last event received
          sessions,     \* activeThreadSessions: thread -> [run, done]
          runs          \* the cloud's runs in order: [key, life, heard, up]
chatVars == <<conn, subs, sessions, runs>>
allVars == <<worldVars, pollVars, chatVars>>
ChatInit == conn = "none" /\ subs = {} /\ sessions = <<>> /\ runs = <<>>

Leave == Exit /\ conn' = "none" /\ subs' = {} /\ sessions' = <<>> /\ UNCHANGED runs
Drop(j) == jobs' = jobs \ {j}
InWS == life.up /\ conn = "open"

(* Each program's copy of the client: its arrival message and its channel   *)
(* are the assistant's own, appends of parts are everybody's.              *)
assistantCreateChannel(j) == createChannel(j)
assistantOpenPermissionRequest(j) == openPermissionRequest(j)
assistantAppendMessage(j) == j.stage = "arrival" /\ append(j)
assistantAppendParts(j) == j.stage = "answer" /\ append(j)
postMessageTool(j) == j.stage = "post_message" /\ append(j)
assistantWait(j) == waitForPermissionDecision(j, "pending")
assistantListStreamEvents == listStreamEvents(FALSE)
cursorRegisterCommand == registerCommand
cursorRegisters == Registers(cursorRegisterCommand, "connect")
cursorListThreads == listThreads
cursorListStreamEvents == listStreamEvents(FALSE)
cursorCreateThread(j) == createThread(j)
cursorOpenPermissionRequest(j) == openPermissionRequest(j)
cursorAppendParts(j) == append(j)
cursorWait(j) == waitForPermissionDecision(j, "pending")

(***************************************************************************)
(* The connection.                                                         *)
(***************************************************************************)
(* Opened, not available (the agent polls), or refused (the agent ends).    *)
Connect(fallback) ==
  /\ life.up /\ scan.at = "connect" /\ Quietly
  /\ \/ /\ conn' = "open" /\ ScanTo("stream")
        /\ subs' = IF program = "assistant" THEN ToSet(channels) ELSE {}
        /\ UNCHANGED <<life, jobs, sessions, runs, budget>>
     \/ ScanTo(fallback) /\ Fault /\ UNCHANGED <<life, jobs, chatVars>>
     \/ Leave /\ Fault

(* The process goes on until its last handler has ended.                   *)
Close == InWS /\ conn' = "closed" /\ Fault /\ Quietly /\ UNCHANGED <<life, jobs, scan, subs, sessions, runs>>
Drained == life.up /\ conn = "closed" /\ jobs = {} /\ Leave /\ Quietly /\ UNCHANGED budget

(* The handlers that the events of the next message start, given what was   *)
(* remembered and the sessions of that moment.                             *)
Waiting == {s \in subs : last[s] < Len(messages[s])}
Receive(s, handlers) ==
  /\ InWS
  /\ last' = [last EXCEPT ![s] = @ + 1]
  /\ jobs' = jobs \cup handlers.jobs /\ seen' = seen \cup handlers.seen
  /\ sessions' = handlers.sessions /\ outcomes' = outcomes \cup handlers.dropped
  /\ UNCHANGED <<program, life, resolving, server, budget, from, scan, conn, subs, runs>>

(***************************************************************************)
(* The assistant.                                                          *)
(***************************************************************************)
(* #general is found or made, the arrival is announced, the channels of     *)
(* that moment are subscribed to.                                          *)
ensureGeneralChannel ==
  /\ life.up /\ scan.at = "boot" /\ jobs = {} /\ Quietly
  /\ \/ /\ jobs' = {NewJob(None, "arrival", IF Own \in ToSet(channels) THEN "append" ELSE "channel", Own)}
        /\ ScanTo("arrive") /\ UNCHANGED <<life, chatVars, budget>>
     \/ Leave /\ Fault
sendArrivalMessage(j) ==
  /\ j.stage = "arrival" /\ j.at = "done" /\ Quietly /\ UNCHANGED budget
  /\ IF j.out = "thrown" \/ Own \notin ToSet(channels) THEN Leave
     ELSE Drop(j) /\ ScanTo("connect") /\ UNCHANGED <<life, chatVars>>

AssistantWanted(e) ==
  CASE e.kind = "message" -> (e.on = Own \/ InPrivate(e.on)) /\ ~IsThread(e.on)
    [] e.kind = "mention" -> ~IsThread(e.on)
    [] OTHER -> FALSE
AssistantHandlers(s, n) ==
  {[jobs |-> {NewJob(e, "answer", "load", s) : e \in {f \in EventsOf(s, n) : AssistantWanted(f)}},
    seen |-> {}, sessions |-> sessions, dropped |-> {}]}

(* The model may answer in words, post with its tool, or say nothing.  The  *)
(* trace is not published after a call of the tool, whether it posted or not. *)
handleIncomingMessage(j) ==
  /\ j.stage = "answer" /\ j.at = "load" /\ UNCHANGED <<frame, server>>
  /\ \/ UNCHANGED budget /\ IF MessageOf(j.key).by = Me \/ ~MessageOf(j.key).text THEN Becomes(j, Ends(j, "skipped"))
                            ELSE \/ Becomes(j, [j EXCEPT !.at = "append"])
                                 \/ Becomes(j, [j EXCEPT !.at = "append", !.stage = "post_message"])
                                 \/ Becomes(j, Ends(j, "silent"))
     \/ Unsent(j)
(* An error ends run(), but not a process whose socket is open.            *)
publishAgentTrace(j) ==
  /\ j.stage \in {"answer", "post_message"} /\ j.at = "done"
  /\ Note(j.key, j.out) /\ UNCHANGED <<program, resolving, server, budget, seen, last, from>>
  /\ IF j.out = "thrown" /\ conn = "none" THEN Leave
     ELSE Drop(j) /\ UNCHANGED <<life, scan, chatVars>>

FirstPage(s) == Min({Len(messages[s]), SeekLimit})
(* Polling begins after the messages the first page shows.                 *)
Seek ==
  /\ life.up /\ scan.at = "seek" /\ UNCHANGED <<program, resolving, server, jobs, seen, outcomes>>
  /\ \/ /\ from' = [s \in Streams |-> IF s \in ToSet(channels) THEN FirstPage(s) ELSE 0]
        /\ last' = from' /\ scan' = [scan EXCEPT !.at = "read", !.left = channels]
        /\ UNCHANGED <<life, chatVars, budget>>
     \/ Leave /\ Fault /\ UNCHANGED <<last, from>>
TakeForAssistant ==
  /\ life.up /\ scan.at = "page" /\ jobs = {}
  /\ \E e \in NextOf(scan.page) :
       /\ scan' = [scan EXCEPT !.page = @ \ {e}] /\ last' = [last EXCEPT ![e.on] = e.seq]
       /\ jobs' = IF AssistantWanted(e) THEN {NewJob(e, "answer", "load", e.on)} ELSE {}
  /\ UNCHANGED <<program, life, resolving, server, budget, seen, from, outcomes>>
(* The same channels are read over and over.                               *)
Around ==
  /\ life.up /\ scan.at = "page" /\ scan.page = {} /\ jobs = {}
  /\ scan' = [scan EXCEPT !.at = "read", !.left = Append(Tail(@), Head(@)), !.cut = {}, !.max = 0]
  /\ outcomes' = outcomes \cup {Outcome(e, "cut") : e \in {f \in scan.cut : AssistantWanted(f)}}
  /\ UNCHANGED <<program, life, resolving, server, jobs, budget, seen, last, from>>

(***************************************************************************)
(* The cursor agent.                                                       *)
(***************************************************************************)
(* Every five seconds: channels and threads not yet subscribed to are.     *)
syncDiscoveredStreams ==
  /\ InWS /\ \E s \in (ToSet(channels) \cup DOMAIN threads) \ subs : subs' = subs \cup {s}
  /\ Quietly /\ UNCHANGED <<life, jobs, scan, conn, sessions, runs, budget>>

(* A message is remembered once for its command and its mention, and once   *)
(* more as a message of a private channel; in a thread with a session it is  *)
(* relayed to the run.                                                     *)
MutantRemembered(e) == e   \* mutant: the kind of the event is part of the key
Remembered(e) == IF e.kind = "message" THEN e ELSE Event("run", e.on, e.seq)
CursorWanted(e) == IF e.kind = "message" THEN InPrivate(e.on) /\ ~IsThread(e.on) /\ MessageOf(e).by # Me
                   ELSE MessageOf(e).by # Me
Relayed(e) == /\ e.kind = "message" /\ e.on \in DOMAIN sessions /\ MessageOf(e).by # Me
              /\ e.seq \notin sessions[e.on].done

(* Of the events remembered alike the one handled first starts a job.      *)
Firsts(wanted) ==
  {F \in SUBSET wanted :
     /\ \A e \in F : Remembered(e) \notin seen /\ \A f \in F : Remembered(e) = Remembered(f) => e = f
     /\ \A e \in wanted \ F : Remembered(e) \in seen \cup {Remembered(f) : f \in F}}
Relay(e) == [NewJob(e, "relay", "load", e.on) EXCEPT !.run = sessions[e.on].run]
handleCursorEvent(events) ==
  LET wanted == {e \in events : CursorWanted(e)}
      relayed == {e \in events : Relayed(e)}
  IN {[jobs |-> {NewJob(e, "ack", "load", e.on) : e \in F} \cup {Relay(e) : e \in relayed},
       seen |-> {Remembered(e) : e \in F},
       sessions |-> [t \in DOMAIN sessions |->
                       [sessions[t] EXCEPT !.done = @ \cup {e.seq : e \in {f \in relayed : f.on = t}}]],
       dropped |-> {Outcome(e, "same") : e \in wanted \ F}] : F \in Firsts(wanted)}
CursorHandlers(s, n) == handleCursorEvent(EventsOf(s, n))

TakeForCursor ==
  /\ life.up /\ scan.at = "page" /\ Handling = {}
  /\ \E e \in NextOf(scan.page) : \E H \in handleCursorEvent({e}) :
       /\ scan' = [scan EXCEPT !.page = @ \ {e}]
       /\ jobs' = jobs \cup H.jobs /\ seen' = seen \cup H.seen
       /\ sessions' = H.sessions /\ outcomes' = outcomes \cup H.dropped
  /\ UNCHANGED <<program, life, resolving, server, budget, last, from, conn, subs, runs>>
(* An error of the loop ends it; runs being watched keep the process alive. *)
StopPolling == ScanTo("off") /\ conn' = "closed" /\ Fault /\ UNCHANGED <<life, jobs, subs, sessions, runs>>
CursorTick ==
  /\ Loop("idle")
  /\ \/ scan' = [scan EXCEPT !.at = Round(channels), !.chans = channels] /\ UNCHANGED <<life, jobs, chatVars, budget>>
     \/ StopPolling

loadMessageById(j) ==
  /\ j.stage \in {"ack", "relay"} /\ j.at = "load" /\ UNCHANGED <<frame, server>>
  /\ \/ /\ UNCHANGED budget
        /\ IF ~MessageOf(j.key).text THEN Becomes(j, Ends(j, "skipped"))
           ELSE IF j.stage = "relay" THEN Becomes(j, [j EXCEPT !.at = "followup"])
           ELSE \E stage \in {"ack", "norepo"} :
                  Becomes(j, [j EXCEPT !.stage = stage, !.at = IF IsThread(j.to) THEN "append" ELSE "thread"])
     \/ Unsent(j)

CursorStep(j) == UNCHANGED <<program, resolving, server, seen, last, from, conn, subs>>
Again(j, stage) == [j EXCEPT !.stage = stage, !.at = "append", !.wait = TRUE, !.req = 0, !.out = None]

(* The run is launched once the thread says that it will be.               *)
handleInvocation(j) ==
  /\ j.stage = "ack" /\ j.at = "done" /\ j.out = "ok" /\ CursorStep(j)
  /\ \/ /\ runs' = Append(runs, [key |-> j.key, life |-> life.n, heard |-> <<>>, up |-> TRUE])
        /\ \/ Becomes(j, [Again(j, "running") EXCEPT !.run = Len(runs) + 1]) /\ UNCHANGED budget
           \/ Becomes(j, Again(j, "error")) /\ Fault
     \/ Becomes(j, Again(j, "error")) /\ Fault /\ UNCHANGED runs
  /\ UNCHANGED <<life, scan, sessions, outcomes>>

(* The session and the watch begin when the thread says that it runs - if   *)
(* that message could be sent.                                             *)
Launched(j) ==
  /\ j.stage = "running" /\ j.at = "done" /\ j.out # "thrown" /\ CursorStep(j)
  /\ sessions' = [t \in DOMAIN sessions \cup {j.to} |->
                    IF t = j.to THEN [run |-> j.run, done |-> {j.key.seq}] ELSE sessions[t]]
  /\ Becomes(j, [NewJob(j.key, "final", "watch", j.to) EXCEPT !.run = j.run])
  /\ Note(j.key, "launched") /\ UNCHANGED <<life, scan, runs, budget>>
Failed(j) ==
  /\ j.at = "done" /\ CursorStep(j) /\ UNCHANGED <<life, scan, sessions, runs, budget>>
  /\ \/ j.stage \in {"norepo", "error"}
     \/ j.stage = "ack" /\ j.out # "ok"
     \/ j.stage = "running" /\ j.out = "thrown"
  /\ Note(j.key, j.out) /\ Drop(j)

(* waitForTerminal: the run is seen to have ended, or half an hour is over. *)
waitForTerminal(j) ==
  /\ j.at = "watch" /\ CursorStep(j) /\ UNCHANGED <<life, scan, sessions, outcomes, budget>>
  /\ Becomes(j, Again(j, "final"))
  /\ \E up \in BOOLEAN : runs' = [runs EXCEPT ![j.run].up = up]
(* Nobody awaits the watch: an error in it ends the process.               *)
monitorCursorRun(j) ==
  /\ j.stage = "final" /\ j.at = "done" /\ UNCHANGED <<program, resolving, server, budget, seen, last, from, outcomes>>
  /\ IF j.out = "thrown" THEN Leave
     ELSE /\ Drop(j) /\ UNCHANGED <<life, scan, conn, subs, runs>>
          /\ sessions' = IF j.to \in DOMAIN sessions /\ sessions[j.to].run = j.run
                         THEN [t \in DOMAIN sessions \ {j.to} |-> sessions[t]] ELSE sessions

relayThreadMessageToCursor(j) ==
  /\ j.stage = "relay" /\ CursorStep(j) /\ UNCHANGED <<life, scan, sessions, outcomes>>
  /\ \/ /\ j.at = "followup"
        /\ \/ /\ runs' = [runs EXCEPT ![j.run].heard = Append(@, <<j.key.on, j.key.seq>>)]
              /\ AnsweredOrLost(j, Again(j, "relay"))
           \/ Becomes(j, Ends(j, "thrown")) /\ Fault /\ UNCHANGED runs
     \/ j.at = "done" /\ Drop(j) /\ UNCHANGED <<runs, budget>>

(***************************************************************************)
(* The two programs.                                                       *)
(***************************************************************************)
Assistant ==
  \/ ensureGeneralChannel \/ Connect("seek") \/ Close \/ Drained
  \/ \E s \in Waiting : \E H \in AssistantHandlers(s, last[s] + 1) : Receive(s, H)
  \/ Seek
  \/ (assistantListStreamEvents \/ TakeForAssistant \/ Around) /\ UNCHANGED chatVars
  \/ Loop("read") /\ Leave /\ Fault
  \/ \E j \in jobs : \/ sendArrivalMessage(j) \/ publishAgentTrace(j)
                     \/ /\ assistantCreateChannel(j) \/ assistantOpenPermissionRequest(j) \/ assistantAppendMessage(j)
                           \/ assistantAppendParts(j) \/ postMessageTool(j) \/ assistantWait(j) \/ handleIncomingMessage(j)
                        /\ UNCHANGED <<pollVars, chatVars>>
Cursor ==
  \/ cursorRegisters /\ UNCHANGED chatVars
  \/ Connect("idle") \/ Close \/ Drained
  \/ \E s \in Waiting : \E H \in CursorHandlers(s, last[s] + 1) : Receive(s, H)
  \/ syncDiscoveredStreams
  \/ CursorTick \/ TakeForCursor
  \/ (cursorListThreads \/ cursorListStreamEvents \/ EndOfPage({e \in scan.cut : CursorWanted(e)})) /\ UNCHANGED chatVars
  \/ Loop("read") /\ StopPolling
  \/ \E j \in jobs : \/ /\ cursorCreateThread(j) \/ cursorOpenPermissionRequest(j) \/ cursorAppendParts(j)
                           \/ cursorWait(j) \/ loadMessageById(j)
                        /\ UNCHANGED <<pollVars, chatVars>>
                     \/ handleInvocation(j) \/ Launched(j) \/ Failed(j) \/ waitForTerminal(j)
                     \/ monitorCursorRun(j) \/ relayThreadMessageToCursor(j)

(***************************************************************************)
(* The behaviours of the four.                                             *)
(***************************************************************************)
WantedBy(e) == CASE program = "cursor" -> CursorWanted(e)
                 [] program = "assistant" -> AssistantWanted(e)
                 [] OTHER -> Wanted(e)
Agent == life.up /\ \/ program = "poet" /\ Poet /\ UNCHANGED chatVars
                    \/ program = "weather" /\ Weather /\ UNCHANGED chatVars
                    \/ program = "assistant" /\ Assistant
                    \/ program = "cursor" /\ Cursor
AgentsInit == WorldInit /\ PollInit /\ ChatInit
AgentsNext ==
  \/ World /\ UNCHANGED <<pollVars, chatVars>>
  \/ Start /\ UNCHANGED chatVars
  \/ Kill /\ Leave
  \/ Agent
AgentsSpec == AgentsInit /\ [][AgentsNext]_allVars /\ WF_allVars(Agent)

(***************************************************************************)
(* Properties.                                                             *)
(***************************************************************************)
Numbered == UNION {{<<s, n>> : n \in DOMAIN messages[s]} : s \in Streams}
FirstStages == {"reply", "answer", "post_message", "ack", "norepo"}
FirstAnswers(key) ==
  {p \in Numbered : LET re == messages[p[1]][p[2]].re IN re[1] \in FirstStages /\ re[2] = key}

(* An invocation is answered at most once by each run of a process: neither *)
(* a page read again after an error, nor a call that failed after it was    *)
(* carried out, nor the repeated call of an approved request answers twice. *)
AnsweredOncePerLife ==
  \A s \in Streams : \A e \in EventsAfter(s, 0) : Cardinality(FirstAnswers(e)) <= life.n

(* The number an agent has read to never passes an invocation that was not  *)
(* taken up: it was answered, is being answered, or ended in a way that is   *)
(* known - refused, failed, the same as another, or cut off a page.         *)
PassedIsSettled ==
  life.up => \A s \in Streams : \A e \in EventsAfter(s, from[s]) :
    WantedBy(e) /\ e.seq <= last[s]
      => Taken(e) \/ e \in scan.page \cup scan.cut \/ \E j \in jobs : j.key = e

(* The command and the mention of one message launch one run (a message of  *)
(* a private channel launches another); a thread with a session has the      *)
(* watch that will end it, and no run is told the same message twice.       *)
OneRunPerMessage ==
  \A q, r \in DOMAIN runs :
    q # r /\ runs[q].life = runs[r].life /\ runs[q].key.on = runs[r].key.on /\ runs[q].key.seq = runs[r].key.seq
      => InPrivate(runs[q].key.on) /\ "message" \in {runs[q].key.kind, runs[r].key.kind}
SessionsTell ==
  /\ \A t \in DOMAIN sessions : \E j \in jobs : j.stage = "final" /\ j.run = sessions[t].run /\ j.to = t
  /\ \A r \in DOMAIN runs : IsInjective(runs[r].heard)
CursorInOrder == OneRunPerMessage /\ SessionsTell

(* An agent that stays up and connected reads everything that is written    *)
(* where it listens: no error leaves its loop waiting.                      *)
Listening == {s \in ToSet(channels) \cup DOMAIN threads : program = "assistant" => ~IsThread(s)}
EventuallyRead == <>[](~life.up \/ \A s \in Listening : last[s] = Len(messages[s]))
====
